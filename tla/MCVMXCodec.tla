----------------------------- MODULE MCVMXCodec -----------------------------
(***************************************************************************)
(* Instances of VMXCodec for TLC: files with what hosts and people write   *)
(* into them, and virtual machines that fill an adapter, or all of them.   *)
(***************************************************************************)
EXTENDS VMXCodec

MCNames    == Bus \cup UNION {DOMAIN Attrs[b] : b \in Bus}
              \cup UNION {{l.of, l.attr} : l \in UNION {Leaves[t] : t \in DOMAIN Leaves}}
              \cup {"annotation"}
MCNumber   == {"0", "1", "2", "3", "4", "5", "-1", "greatest"}
MCUnsigned == MCNumber \ {"-1"}
MCText == MCNumber \cup {"", "true", "false", "TRUE", "yes", "static", "generated", "vpx",
                         "mac1", "mac2", "web.vmdk", "db.vmdk", "cdrom-image", "lsilogic",
                         "a\\t", "tab", "a\\x", "quoted a\\x", "too great",
                         "broken", "first of broken", "cpus", "first of cpus", "yes and quote",
                         "64 KiB"}
(* A tab is read for \t; \x is no escape, and the quotes remain. *)
MCUnquote == [t \in MCText |-> CASE t = "a\\t" -> "tab" [] t = "a\\x" -> "quoted a\\x"
                                 [] OTHER -> t]

MCNearest == [t \in {"int", "uint"} |->
               [v \in MCText |-> IF v = "too great" THEN "greatest" ELSE "0"]]

Entry(of, at, attr, text) ==
  [kind |-> "entry", key |-> [of |-> of, at |-> at, attr |-> attr],
   text |-> text, quoted |-> TRUE]
Bare(l) == [l EXCEPT !.quoted = FALSE]
Other(kind) == [kind |-> kind]

(* Texts of two lines: the second is no entry, or one of another field.    *)
MCLong == {"64 KiB"}
MCFirstPart == [t \in MCText |-> CASE t = "broken" -> "first of broken"
                                   [] t = "cpus" -> "first of cpus" [] OTHER -> t]
MCRest == [t \in MCText |-> CASE t = "broken" -> <<Other("broken")>>
                              [] t = "cpus" -> <<Bare(Entry("numvcpus", <<>>, "", "yes and quote"))>>
                              [] OTHER -> <<>>]

Disk(at, f) == <<Entry("scsi", at, "present", "TRUE"), Entry("scsi", at, "filename", f)>>
NIC(k, how, attr, addr) ==
  <<Entry("ethernet", <<k>>, "addresstype", how), Entry("ethernet", <<k>>, attr, addr)>>
LeafLine(name, v) == [kind |-> "entry", key |-> [of |-> name, at |-> <<>>, attr |-> ""],
                   text |-> v, quoted |-> TRUE]
Two == Disk(<<0, 0>>, "web.vmdk") \o Disk(<<0, 1>>, "db.vmdk")
Generated == NIC(0, "generated", "generatedaddress", "mac1")
Static    == NIC(1, "static", "address", "mac2")

MCFiles == {
  <<Other("skip"), LeafLine("displayname", "a\\x"), LeafLine("numvcpus", "2"), LeafLine("annotation", "yes"), Bare(LeafLine("memsize", "4"))>>
    \o Two \o <<Entry("scsi", <<0>>, "virtualdev", "lsilogic")>> \o Generated \o Static,
  (* The network device without an address, or of a vCenter, comes last. *)
  Two \o Static \o NIC(2, "vpx", "address", "mac1"),
  NIC(0, "static", "generatedaddress", "mac1") \o NIC(1, "generated", "generatedaddress", "mac2")
    \o <<Entry("ethernet", <<2>>, "present", "TRUE")>>,
  NIC(0, "static", "address", ""),
  (* A key twice; an empty value. *)
  Two \o <<Entry("scsi", <<0, 1>>, "filename", "web.vmdk"), Entry("scsi", <<0, 0>>, "present", "")>>,
  (* One value of a device, or of the file, that does not parse. *)
  Two \o <<Entry("scsi", <<0, 1>>, "present", "yes"), Entry("scsi", <<1, 0>>, "filename", "db.vmdk")>>,
  Two \o <<LeafLine("numvcpus", "yes")>>,
  <<Entry("scsi", <<0>>, "pcislotnumber", "too great"), LeafLine("memsize", "too great")>> \o Two,
  Two \o <<Entry("sata", <<0, 0>>, "devicetype", "cdrom-image"),
           Entry("ide", <<1, 0>>, "autodetect", "TRUE"), Entry("nvme", <<0, 0>>, "filename", "a\\t")>>,
  Two \o <<Other("broken")>> \o Static,
  Two \o <<Other("long"), Other("broken")>>,
  <<Other("skip")>>,
  <<>>}

MCAdapters   == [b \in Adapted |-> IF b = "usb" THEN 1 ELSE 2]
MCPerAdapter == [b \in Adapted |-> 2]

NoLeaves == [l \in Leaves["VirtualMachine"] |-> Zero(l.type)]
SomeLeaves == [l \in Leaves["VirtualMachine"] |->
  CASE l.type = "text" -> "a\\x" [] l.type = "uint" -> "2" [] OTHER -> "true"]

None == [b \in Bus |-> <<>>]
Only(b, s) == [leaves |-> NoLeaves, devs |-> [None EXCEPT ![b] = s]]
Num(k) == CASE k = 1 -> "1" [] k = 2 -> "2" [] k = 3 -> "3" [] k = 4 -> "4" [] k = 5 -> "5"

(* Devices that differ in a number, and controllers among them. *)
ScsiDevice(k, isController) ==
  [ZeroDevice("scsi") EXCEPT !.pcislotnumber = Num(k), !.present = "true",
                             !.virtualdev = IF isController THEN "lsilogic" ELSE ""]
ScsiMachines ==
  UNION {{Only("scsi", [k \in 1..len |-> ScsiDevice(k, f[k])]) : f \in [1..len -> BOOLEAN]} :
           len \in 0..5}
Drives(b) == {Only(b, [k \in 1..len |-> [ZeroDevice(b) EXCEPT !.filename = Num(k)]]) :
                len \in 1..5}
USBMachines ==
  {[Only("usb", [k \in 1..len |-> [ZeroDevice("usb") EXCEPT !.port = Num(k), !.parent = "-1"]])
     EXCEPT !.leaves = ls] : len \in 0..3, ls \in {NoLeaves, SomeLeaves}}
NICMachine ==
  Only("ethernet", <<[ZeroDevice("ethernet") EXCEPT !.addresstype = "generated",
                                                    !.generatedaddress = "mac1"],
                     [ZeroDevice("ethernet") EXCEPT !.addresstype = "static", !.address = "mac2"],
                     [ZeroDevice("ethernet") EXCEPT !.vnet = "a\\t"]>>)

(* A text that is not one line, of the machine or of a device that is kept *)
(* or dropped.                                                             *)
TextMachines ==
  {[Only("ide", <<>>) EXCEPT !.leaves[Leaf("displayname", "", "text")] = t] :
     t \in {"broken", "cpus", "64 KiB"}}
  \cup {Only("ide", [k \in 1..5 |-> [ZeroDevice("ide") EXCEPT !.filename =
                                       IF k = 5 THEN "broken" ELSE Num(k)]])}
  \cup {Only("nvme", <<[ZeroDevice("nvme") EXCEPT !.filename = t]>>) :
           t \in {"broken", "cpus", "64 KiB"}}
  \cup {Only("ethernet", <<[ZeroDevice("ethernet") EXCEPT !.generatedaddress = "broken"]>>)}

MCMachines == TextMachines \cup ScsiMachines \cup Drives("ide") \cup Drives("nvme") \cup USBMachines
              \cup {NICMachine, [NICMachine EXCEPT !.leaves = SomeLeaves]}
=============================================================================

----------------------------- MODULE VMXDecoder -----------------------------
(***************************************************************************)
(* govmx.Unmarshal (govmx/vmx.go, govmx/decode.go): the lines of a VMX     *)
(* file are loaded into a map, and a Go structure is filled from it field  *)
(* by field.  The devices of a bus are found by ranging over the map, in   *)
(* whatever order Go chooses.  With the file of a virtual machine, vmx.go  *)
(* then picks the MAC address.                                             *)
(*                                                                         *)
(* A key is the name it begins with, the numbers that follow, and what is  *)
(* behind the first dot: scsi0:1.fileName is [of |-> "scsi",               *)
(* at |-> <<0, 1>>, attr |-> "filename"].  Keys equal but for case are the *)
(* same.  No other key begins with the name of a bus.                      *)
(***************************************************************************)
EXTENDS Naturals, Sequences, FiniteSets, SequencesExt

CONSTANTS
  Names,     \* names that keys begin with, and what may follow their first dot
  Text,      \* values, among them "" and numbers
  Number,    \* those that strconv.ParseInt takes, as it would print them
  Unsigned,  \* those that strconv.ParseUint takes
  Nearest,   \* Nearest[t][v]: what the parser of type t returns with its error
             \* for v: zero, or for a number out of range the bound next to it
  Unquote,   \* Unquote[t]: what strconv.Unquote makes of t in quotes; where it
             \* fails, t with its quotes
  Files      \* the VMX files that may be read

Bus == {"ide", "scsi", "sata", "nvme", "ethernet", "usb"}

(* Attributes of the devices of each bus, without VMXID, and their types.  *)
Device == [present |-> "bool", autodetect |-> "bool", startconnected |-> "bool",
           devicetype |-> "text", filename |-> "text"]
SCSIDevice == [present |-> "bool", autodetect |-> "bool", startconnected |-> "bool",
               devicetype |-> "text", filename |-> "text",
               pcislotnumber |-> "int", virtualdev |-> "text"]
Ethernet == [present |-> "bool", startconnected |-> "bool", wakeonpcktrcv |-> "bool",
             linkstatepropagation |-> "bool", connectiontype |-> "text", virtualdev |-> "text", vnet |-> "text",
             addresstype |-> "text", address |-> "text", generatedaddress |-> "text"]
USBDevice == [present |-> "bool", devicetype |-> "text", parent |-> "text",
              speed |-> "uint", port |-> "uint"]
Attrs == [b \in Bus |->
  CASE b \in {"ide", "sata", "nvme"} -> Device
    [] b = "scsi"     -> SCSIDevice
    [] b = "ethernet" -> Ethernet
    [] b = "usb"      -> USBDevice]

(* The fields that are no slices, and the slices in their order.  Of those *)
(* of VirtualMachine, only some of each type; usb.present is a field of    *)
(* the structure USB in it.                                                *)
Leaf(of, attr, type) == [of |-> of, attr |-> attr, type |-> type]
Leaves == [VMXFile |-> {Leaf("displayname", "", "text"), Leaf("numvcpus", "", "int"),
                        Leaf("memsize", "", "int"), Leaf("guestos", "", "text"),
                        Leaf("firmware", "", "text")},
           VirtualMachine |-> {Leaf("displayname", "", "text"), Leaf("numvcpus", "", "uint"),
                               Leaf("softpoweroff", "", "bool"), Leaf("usb", "present", "bool")}]
Slices == [VMXFile |-> <<"ide", "scsi", "sata", "nvme", "ethernet">>,
           VirtualMachine |-> <<"ethernet", "ide", "scsi", "sata", "nvme", "usb">>]

Key  == [of: Names, at: Seq(Nat), attr: Names]
Line == [kind: {"skip", "broken", "long"}]
        \cup [kind: {"entry"}, key: Key, text: Text, quoted: BOOLEAN]

True  == {"1", "t", "T", "TRUE", "true", "True"}
False == {"0", "f", "F", "FALSE", "false", "False"}

ASSUME ConstantsAssumption ==
  /\ Bus \subseteq Names /\ \A b \in Bus : DOMAIN Attrs[b] \subseteq Names
  /\ \A t \in DOMAIN Leaves : \A l \in Leaves[t] : {l.of, l.attr} \subseteq Names
  /\ {"", "true", "false"} \subseteq Text
  /\ "0" \in Unsigned /\ Unsigned \subseteq Number /\ Number \subseteq Text \ {""}
  /\ Nearest.int \in [Text -> Number] /\ Nearest.uint \in [Text -> Unsigned]
  /\ Unquote \in [Text -> Text]
  /\ \A t \in Number \cup {"", "true", "false"} : Unquote[t] = t
  /\ Files \subseteq Seq(Line)

VARIABLES
  type,    \* the type of the structure
  lines,   \* the lines of the file
  n,       \* the line the scanner is at
  vmx,     \* the map
  slice,   \* the slice being decoded, by its place in Slices[type]
  seen,    \* seenIndexes of that slice
  leaves,  \* the structure: its fields that are no slices ...
  devs,    \* ... and its slices; at stands for VMXID
  slack,   \* what the memory behind the end of each slice holds
  failed,  \* has an error been collected?
  pc,      \* where the decoder is
  result,  \* how it ended
  mac      \* the MAC address of the virtual server, "" for none

decodeVars == <<n, vmx, slice, seen, leaves, devs, slack, failed, result, mac>>
vars == <<type, lines, pc, decodeVars>>

Zero(t) == CASE t = "bool" -> "false" [] t \in {"int", "uint"} -> "0" [] t = "text" -> ""
ZeroDevice(b) == [a \in DOMAIN Attrs[b] |-> Zero(Attrs[b][a])]

Parses(t, v) ==
  CASE t = "bool" -> v \in True \cup False
    [] t = "int"  -> v \in Number
    [] t = "uint" -> v \in Unsigned
    [] t = "text" -> TRUE

(* What a field of type t that holds old is set to.  A field whose value   *)
(* is not in the map, or is empty, keeps what it holds; one whose value    *)
(* does not parse is set to what the parser returns all the same.          *)
Reflected(t, v, old) ==
  IF v = "" THEN old
  ELSE IF ~Parses(t, v) THEN IF t = "bool" THEN "false" ELSE Nearest[t][v]
  ELSE IF t = "bool" THEN IF v \in True THEN "true" ELSE "false"
  ELSE v

Value(of, at, attr) ==
  LET k == [of |-> of, at |-> at, attr |-> attr]
  IN  IF k \in DOMAIN vmx THEN vmx[k] ELSE ""

Fails(t, v) == v # "" /\ ~Parses(t, v)
-----------------------------------------------------------------------------
Reset ==
  /\ n = 1 /\ vmx = <<>>
  /\ slice = 1 /\ seen = {}
  /\ leaves = <<>>
  /\ devs = [b \in Bus |-> <<>>]
  /\ slack = [b \in Bus |-> ZeroDevice(b)]
  /\ failed = FALSE /\ result = "none" /\ mac = ""

Stop(how) == pc' = "done" /\ result' = how

Scan(kind) == pc = "load" /\ n <= Len(lines) /\ lines[n].kind = kind

(* loadVMXMap.  Comments and blank lines are passed over.                  *)
SkipLine ==
  /\ Scan("skip")
  /\ n' = n + 1
  /\ UNCHANGED <<type, lines, pc, vmx, slice, seen, leaves, devs, slack, failed, result, mac>>

(* The value is unquoted, or taken as it is. *)
TextOf(line) == IF line.quoted THEN Unquote[line.text] ELSE line.text

(* Mutant: the first of two lines with the same key counts. *)
PutOnce(key, t) ==
  [k \in DOMAIN vmx \cup {key} |-> IF k \in DOMAIN vmx THEN vmx[k] ELSE t]

(* The last of several lines with the same key counts. *)
Put(key, t) == [k \in DOMAIN vmx \cup {key} |-> IF k = key THEN t ELSE vmx[k]]

PutLine ==
  /\ Scan("entry")
  /\ vmx' = Put(lines[n].key, TextOf(lines[n]))
  /\ n' = n + 1
  /\ UNCHANGED <<type, lines, pc, slice, seen, leaves, devs, slack, failed, result, mac>>

(* A line without "=" is put among the errors, but its second part is      *)
(* taken all the same: the program panics.                                 *)
BrokenLine ==
  /\ Scan("broken")
  /\ Stop("panic")
  /\ UNCHANGED <<type, lines, n, vmx, slice, seen, leaves, devs, slack, failed, mac>>

(* The scanner gives up at a line of 64 KiB. *)
LongLine ==
  /\ Scan("long")
  /\ Stop("error")
  /\ UNCHANGED <<type, lines, n, vmx, slice, seen, leaves, devs, slack, failed, mac>>

(* The file is loaded, and the fields that are no slices are decoded.      *)
DecodeLeaves ==
  /\ pc = "load" /\ n > Len(lines)
  /\ leaves' = [l \in Leaves[type] |->
                  Reflected(l.type, Value(l.of, <<>>, l.attr), Zero(l.type))]
  /\ failed' = \E l \in Leaves[type] : Fails(l.type, Value(l.of, <<>>, l.attr))
  /\ pc' = "slice"
  /\ UNCHANGED <<type, lines, n, vmx, slice, seen, devs, slack, result, mac>>

AtSlice == pc = "slice" /\ slice <= Len(Slices[type])
bus     == Slices[type][slice]

(* The indexes of the keys that begin with the name of bus b.  A key with  *)
(* nothing between the name and the dot stands for a device of its own.    *)
Indexes(b) == {k.at : k \in {key \in DOMAIN vmx : key.of = b}}

(* decode, for a device at index at of bus b, into memory that holds old.  *)
Decoded(b, at, old) ==
  [a \in DOMAIN Attrs[b] |-> Reflected(Attrs[b][a], Value(b, at, a), old[a])]

(* Mutant: a device that fails to decode stays in the slice. *)
DecodeDeviceKept ==
  /\ AtSlice
  /\ \E at \in Indexes(bus) \ seen :
       LET d == Decoded(bus, at, slack[bus])
       IN  /\ seen' = seen \cup {at}
           /\ devs' = [devs EXCEPT ![bus] = Append(@, [at |-> at, attrs |-> d])]
           /\ slack' = [slack EXCEPT ![bus] = ZeroDevice(bus)]
  /\ UNCHANGED <<type, lines, n, vmx, slice, leaves, failed, pc, result, mac>>

(* One index of decodeSlice.  A device that fails to decode is cut off the *)
(* slice, and the next one is decoded into the same memory.                *)
DecodeDevice ==
  /\ AtSlice
  /\ \E at \in Indexes(bus) \ seen :
       LET d  == Decoded(bus, at, slack[bus])
           ok == \A a \in DOMAIN Attrs[bus] : ~Fails(Attrs[bus][a], Value(bus, at, a))
       IN  /\ seen' = seen \cup {at}
           /\ devs' = IF ok THEN [devs EXCEPT ![bus] = Append(@, [at |-> at, attrs |-> d])]
                            ELSE devs
           /\ slack' = [slack EXCEPT ![bus] = IF ok THEN ZeroDevice(bus) ELSE d]
           /\ failed' = (failed \/ ~ok)
  /\ UNCHANGED <<type, lines, n, vmx, slice, leaves, pc, result, mac>>

NextSlice ==
  /\ AtSlice /\ Indexes(bus) \subseteq seen
  /\ slice' = slice + 1 /\ seen' = {}
  /\ UNCHANGED <<type, lines, n, vmx, leaves, devs, slack, failed, pc, result, mac>>

(* Mutant: the last network device decides, with or without an address. *)
MACOfLast(nics) ==
  IF nics = <<>> THEN ""
  ELSE IF Last(nics).attrs.addresstype = "static" THEN Last(nics).attrs.address
                                                   ELSE Last(nics).attrs.generatedaddress

MAC(nic) ==
  CASE nic.attrs.addresstype = "generated" -> nic.attrs.generatedaddress
    [] nic.attrs.addresstype = "static"    -> nic.attrs.address
    [] OTHER                               -> ""

(* The address of the last network device that has one. *)
MACOf(nics) ==
  LET some == {k \in DOMAIN nics : MAC(nics[k]) # ""}
  IN  IF some = {} THEN "" ELSE MAC(nics[CHOOSE k \in some : \A j \in some : j <= k])

(* Decode returns, with an error if any was collected; ParseVMXFile fails  *)
(* with it, and ParseVMWareVirtualServerPath goes on otherwise.            *)
DecodeEnds ==
  /\ pc = "slice" /\ slice > Len(Slices[type])
  /\ Stop(IF failed THEN "error" ELSE "ok")
  /\ mac' = IF ~failed /\ type = "VMXFile" THEN MACOf(devs["ethernet"]) ELSE mac
  /\ UNCHANGED <<type, lines, n, vmx, slice, seen, leaves, devs, slack, failed>>

Decode ==
  \/ SkipLine \/ PutLine \/ BrokenLine \/ LongLine
  \/ DecodeLeaves \/ DecodeDevice \/ NextSlice \/ DecodeEnds
-----------------------------------------------------------------------------
(* What the lines say of a key, the way VMware reads them. *)
LinesOf(of, at, attr) ==
  {i \in DOMAIN lines : /\ lines[i].kind = "entry"
                         /\ lines[i].key = [of |-> of, at |-> at, attr |-> attr]}
Written(of, at, attr) ==
  LET found == LinesOf(of, at, attr)
  IN  IF found = {} THEN ""
      ELSE TextOf(lines[CHOOSE i \in found : \A j \in found : j <= i])

DevicesIn(b) == {lines[i].key.at : i \in {j \in DOMAIN lines :
                   lines[j].kind = "entry" /\ lines[j].key.of = b}}

Meant(t, v) == IF v = "" THEN Zero(t) ELSE IF v \in True /\ t = "bool" THEN "true"
               ELSE IF t = "bool" THEN "false" ELSE v

BusesOf == {Slices[type][s] : s \in DOMAIN Slices[type]}

(* The values that a field of the structure is read from. *)
Sound ==
  /\ \A l \in Leaves[type] : ~Fails(l.type, Written(l.of, <<>>, l.attr))
  /\ \A b \in BusesOf : \A at \in DevicesIn(b) : \A a \in DOMAIN Attrs[b] :
       ~Fails(Attrs[b][a], Written(b, at, a))

Stops == {i \in DOMAIN lines : lines[i].kind \in {"broken", "long"}}
FirstStop == CHOOSE i \in Stops : \A j \in Stops : i <= j

(* A file is refused as a whole when one value of it, of any device and in *)
(* whatever order they are met, does not parse, or when a line is too      *)
(* long; the program panics on a line without "=", and nothing else makes  *)
(* it.                                                                     *)
OutcomeOfFile ==
  pc = "done" =>
    result = IF Stops # {} THEN IF lines[FirstStop].kind = "broken" THEN "panic" ELSE "error"
             ELSE IF Sound THEN "ok" ELSE "error"

(* A structure that is decoded without an error holds what the file says,  *)
(* in each order of the map: every device once, with its own values and    *)
(* nothing left over from another one.                                     *)
DecodedAsWritten ==
  pc = "done" /\ result = "ok" =>
    /\ \A l \in Leaves[type] : leaves[l] = Meant(l.type, Written(l.of, <<>>, l.attr))
    /\ \A b \in BusesOf :
         /\ ToSet(devs[b]) =
              {[at |-> at, attrs |-> [a \in DOMAIN Attrs[b] |->
                                        Meant(Attrs[b][a], Written(b, at, a))]] :
                 at \in DevicesIn(b)}
         /\ Len(devs[b]) = Cardinality(DevicesIn(b))

(* The addresses of the network devices that the file gives one.           *)
MACsIn ==
  (UNION {CASE Written("ethernet", at, "addresstype") = "generated" ->
                 {Written("ethernet", at, "generatedaddress")}
            [] Written("ethernet", at, "addresstype") = "static" ->
                 {Written("ethernet", at, "address")}
            [] OTHER -> {} : at \in DevicesIn("ethernet")}) \ {""}

(* The MAC address is one that the file gives a network device, and there  *)
(* is none only when no device has one.  Which one it is of several is     *)
(* left to the order of the map.                                           *)
MACAsWritten ==
  pc = "done" /\ result = "ok" /\ type = "VMXFile" =>
    IF MACsIn = {} THEN mac = "" ELSE mac \in MACsIn
=============================================================================

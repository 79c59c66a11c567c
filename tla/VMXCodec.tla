------------------------------ MODULE VMXCodec ------------------------------
(***************************************************************************)
(* govmx.Marshal (govmx/encode.go), and govmx.Unmarshal of what it wrote:  *)
(* the encoder and the decoder share the lines of the file.  A behaviour   *)
(* begins with a file, which is read into a VMXFile as vmx.go does, or     *)
(* with a VirtualMachine, which is written and read back.                  *)
(***************************************************************************)
EXTENDS VMXDecoder

CONSTANTS
  Machines,    \* the virtual machines that may be written
  Adapters,    \* Adapters[b], PerAdapter[b]: the MAX_ constants of the buses
  PerAdapter,  \* that have adapters
  MaxNICs,     \* MAX_VNICS
  Long,        \* texts that fill a line of 64 KiB before any line break in them
  FirstPart,   \* FirstPart[t]: what a line that has t in quotes holds of it: all,
               \* or the opening quote and what is before the first line break
  Rest         \* Rest[t]: the lines that what is behind that break makes

Adapted == {"ide", "scsi", "sata", "usb"}
Several == Adapted \ {"usb"}   \* those whose adapters are numbered

Values(t) == CASE t = "bool" -> {"true", "false"} [] t = "int" -> Number
               [] t = "uint" -> Unsigned [] t = "text" -> Text
(* The attributes of a device of bus b. *)
AttrsOf(b) ==
  {ds \in [DOMAIN Attrs[b] -> Text] : \A a \in DOMAIN Attrs[b] : ds[a] \in Values(Attrs[b][a])}

OneLine(t) == t \notin Long /\ Rest[t] = <<>>

ASSUME CodecAssumption ==
  /\ FirstPart \in [Text -> Text] /\ Rest \in [Text -> Seq(Line)]
  /\ \A t \in Text : Rest[t] = <<>> => FirstPart[t] = t
  /\ \A t \in Number \cup {"true", "false"} : OneLine(t)
  /\ Adapters \in [Adapted -> Nat \ {0}] /\ PerAdapter \in [Adapted -> Nat \ {0}]
  /\ MaxNICs \in Nat
  /\ \A m \in Machines :
       /\ DOMAIN m.leaves = Leaves["VirtualMachine"]
       /\ \A l \in DOMAIN m.leaves : m.leaves[l] \in Values(l.type)
       /\ DOMAIN m.devs = Bus /\ \A b \in Bus : m.devs[b] \in Seq(AttrsOf(b))

VARIABLES
  machine,   \* the virtual machine that is written
  array,     \* the slice being encoded, 0 for the fields that are no slices
  i,         \* the element of it
  adapters,  \* adaptersCnt
  devices,   \* devicesCnt
  fields     \* the fields of the structure being encoded that are to be written

encodeVars == <<machine, array, i, adapters, devices, fields>>
allVars == <<vars, encodeVars>>

CodecInit ==
  /\ \/ type = "VMXFile" /\ lines \in Files /\ pc = "load" /\ machine = <<>>
     \/ type = "VirtualMachine" /\ lines = <<>> /\ pc = "encode" /\ machine \in Machines
  /\ array = 0 /\ i = 1 /\ adapters = 0 /\ devices = 0 /\ fields = {}
  /\ Reset

(* A field of type t with value v is left out; the tag of generatedaddress *)
(* says omit, and those of all others but present say omitempty.           *)
LeftOut(attr, t, v) ==
  \/ attr = "generatedaddress"
  \/ attr # "present" /\ v = Zero(t)

Field(of, at, attr, v) == [key |-> [of |-> of, at |-> at, attr |-> attr], text |-> v]

EncodeLeaves ==
  /\ pc = "encode" /\ array = 0
  /\ fields' = {Field(l.of, <<>>, l.attr, machine.leaves[l]) :
                  l \in {k \in Leaves[type] : ~LeftOut(k.attr, k.type, machine.leaves[k])}}
  /\ array' = 1
  /\ UNCHANGED <<type, lines, pc, decodeVars, machine, i, adapters, devices>>

(* The value is put between quotes as it is: a line break in it ends the   *)
(* line.                                                                   *)
LinesOfField(f) ==
  <<IF f.text \in Long THEN [kind |-> "long"]
    ELSE [kind |-> "entry", key |-> f.key, text |-> FirstPart[f.text],
          quoted |-> Rest[f.text] = <<>>]>> \o Rest[f.text]

(* The order of the fields of a structure is left open: it matters only to *)
(* what the lines behind a line break say.                                 *)
WriteField ==
  /\ pc = "encode" /\ fields # {}
  /\ LET f == CHOOSE f \in fields : TRUE
     IN  lines' = lines \o LinesOfField(f) /\ fields' = fields \ {f}
  /\ UNCHANGED <<type, pc, decodeVars, machine, array, i, adapters, devices>>

AtArray == pc = "encode" /\ array \in 1..Len(Slices[type]) /\ fields = {}
encoded == Slices[type][array]

(* Mutant: nothing is dropped. *)
KeptAll(b, count) == count

(* The elements beyond what the hardware takes are dropped, without an     *)
(* error; nvme devices are not limited.                                    *)
Kept(b, count) ==
  LET limit == CASE b \in Adapted    -> Adapters[b] * PerAdapter[b]
                 [] b = "ethernet" -> MaxNICs
                 [] OTHER          -> count
  IN  IF count < limit THEN count ELSE limit

(* A SCSI element with a virtualDev is a controller. *)
IsController(b, d) == b = "scsi" /\ d.virtualdev # ""

(* Mutant: the adapter number stays. *)
PlaceOnSame(b) ==
  IF b \in Several /\ devices >= PerAdapter[b] THEN <<adapters, 0>> ELSE <<adapters, devices>>

(* The counters at the next element: a full adapter is followed by another.*)
Place(b) ==
  IF b \in Several /\ devices >= PerAdapter[b] THEN <<adapters + 1, 0>>
                                               ELSE <<adapters, devices>>

(* The numbers in the key of element d, the k-th of the slice.             *)
Address(b, d, k, place) ==
  IF IsController(b, d) THEN <<place[1]>>
  ELSE CASE b = "usb"        -> <<place[2]>>
         [] b \in Several   -> place
         [] OTHER            -> <<k - 1>>

EncodeDevice ==
  /\ AtArray
  /\ LET b == encoded
     IN  /\ i <= Kept(b, Len(machine.devs[b]))
         /\ LET d  == machine.devs[b][i]
                at == Address(b, d, i, Place(b))
            IN  /\ fields' = {Field(b, at, a, d[a]) :
                     a \in {c \in DOMAIN d : ~LeftOut(c, Attrs[b][c], d[c])}}
                /\ adapters' = Place(b)[1]
                /\ devices' = Place(b)[2]
                     + IF b \in Adapted /\ ~IsController(b, d) THEN 1 ELSE 0
  /\ i' = i + 1
  /\ UNCHANGED <<type, lines, pc, decodeVars, machine, array>>

NextArray ==
  /\ AtArray /\ i > Kept(encoded, Len(machine.devs[encoded]))
  /\ array' = array + 1 /\ i' = 1 /\ adapters' = 0 /\ devices' = 0
  /\ UNCHANGED <<type, lines, pc, decodeVars, machine, fields>>

(* Marshal returns, and its bytes are given to Unmarshal. *)
EncodeEnds ==
  /\ pc = "encode" /\ array > Len(Slices[type]) /\ fields = {}
  /\ pc' = "load"
  /\ UNCHANGED <<type, lines, decodeVars, encodeVars>>

CodecNext ==
  \/ EncodeLeaves \/ EncodeDevice \/ WriteField \/ NextArray \/ EncodeEnds
  \/ Decode /\ UNCHANGED encodeVars

CodecSpec == CodecInit /\ [][CodecNext]_allVars
-----------------------------------------------------------------------------
TypeOK ==
  /\ type \in DOMAIN Slices
  /\ lines \in Seq(Line)
  /\ n \in 1..(Len(lines) + 1)
  /\ DOMAIN vmx \subseteq Key /\ \A k \in DOMAIN vmx : vmx[k] \in Text
  /\ slice \in 1..(Len(Slices[type]) + 1)
  /\ seen \subseteq Seq(Nat)
  /\ leaves # <<>> => DOMAIN leaves = Leaves[type]
  /\ DOMAIN devs = Bus /\ DOMAIN slack = Bus
  /\ \A b \in Bus : /\ devs[b] \in Seq([at: Seq(Nat), attrs: AttrsOf(b)])
                    /\ slack[b] \in AttrsOf(b)
  /\ failed \in BOOLEAN
  /\ pc \in {"encode", "load", "slice", "done"}
  /\ result \in {"none", "ok", "error", "panic"}
  /\ mac \in Text
  /\ machine \in Machines \cup {<<>>}
  /\ array \in 0..(Len(Slices[type]) + 1)
  /\ i \in Nat
  /\ fields \subseteq [key: Key, text: Text]
  /\ pc = "encode" /\ array > 0 /\ array <= Len(Slices[type]) /\ encoded \in Several =>
       adapters < Adapters[encoded] /\ devices <= PerAdapter[encoded]

(* What becomes of an element of the virtual machine: an address that VMware*)
(* generates is not written, and texts are quoted as they are but read as  *)
(* Go strings.                                                             *)
AfterTrip(b, d) ==
  [a \in DOMAIN d |-> IF a = "generatedaddress" THEN ""
                      ELSE IF Attrs[b][a] = "text" THEN Unquote[d[a]] ELSE d[a]]

(* Is the k-th element of s known by its key?  The k-th SCSI element goes  *)
(* to an adapter that has a controller's key, and two controllers of one   *)
(* adapter have the same.                                                  *)
AdapterOf(s, k) ==
  Cardinality({j \in 1..(k - 1) : ~IsController("scsi", s[j])}) \div PerAdapter["scsi"]
Alone(b, s, k) ==
  IsController(b, s[k]) =>
    \A j \in DOMAIN s : j # k /\ IsController(b, s[j]) => AdapterOf(s, j) # AdapterOf(s, k)

(* The elements of bus b that are written. *)
Encoded(b) == SubSeq(machine.devs[b], 1, Kept(b, Len(machine.devs[b])))

(* All that is written of the virtual machine fits into a line each.       *)
OneLines ==
  /\ \A l \in Leaves[type] : OneLine(machine.leaves[l])
  /\ \A b \in BusesOf : \A k \in DOMAIN Encoded(b) : \A a \in DOMAIN Attrs[b] :
       LeftOut(a, Attrs[b][a], Encoded(b)[k][a]) \/ OneLine(Encoded(b)[k][a])

(* A virtual machine that is written and read is the same again, as far as *)
(* the hardware holds its devices: no adapter or device number, and no     *)
(* order of the map, confuses two of them.  Of the SCSI controllers that   *)
(* the encoder gives to one adapter a single one is left, but no disk.     *)
(* There is one USB device more, made of usb.present.  A text with a line  *)
(* break, or one that no line holds, is not read back.                     *)
RoundTrip ==
  pc = "done" /\ type = "VirtualMachine" /\ OneLines =>
    /\ result = "ok"
    /\ \A l \in Leaves[type] :
         leaves[l] = IF l.type = "text" THEN Unquote[machine.leaves[l]] ELSE machine.leaves[l]
    /\ \A b \in BusesOf :
         LET kept  == Encoded(b)
             alone == {k \in DOMAIN kept : Alone(b, kept, k)}
             usb   == [ZeroDevice(b) EXCEPT !.present =
                         machine.leaves[Leaf("usb", "present", "bool")]]
         IN  /\ \E f \in Injection(alone, DOMAIN devs[b]) :
                   /\ \A k \in alone : devs[b][f[k]].attrs = AfterTrip(b, kept[k])
                   /\ b = "usb" => \E j \in DOMAIN devs[b] :
                        devs[b][j].attrs = usb /\ \A k \in alone : f[k] # j
             /\ Len(devs[b]) = Cardinality(alone)
                  + Cardinality({AdapterOf(kept, k) : k \in DOMAIN kept \ alone})
                  + IF b = "usb" THEN 1 ELSE 0
=============================================================================

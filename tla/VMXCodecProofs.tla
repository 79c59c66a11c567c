--------------------------- MODULE VMXCodecProofs ---------------------------
(***************************************************************************)
(* Proofs about VMXCodec, for any file, any virtual machine and any order  *)
(* of the map: what is decoded, when a file is refused, and that a virtual  *)
(* machine that is written is read again.                                  *)
(***************************************************************************)
EXTENDS VMXCodec, TLAPS, FiniteSetTheorems, SequenceTheorems, WellFoundedInduction

(* The lines are decoded only when all of them are written, and until all  *)
(* of them are loaded the structure is as it was made.                     *)
StartInv ==
  /\ pc = "encode" => n = 1 /\ vmx = <<>> /\ type = "VirtualMachine" /\ machine \in Machines
  /\ pc \in {"encode", "load"} =>
       /\ slice = 1 /\ seen = {} /\ failed = FALSE
       /\ \A b \in Bus : devs[b] = <<>> /\ slack[b] = ZeroDevice(b)

(* Where the encoder is in an array: the adapters that are full and the    *)
(* devices of the one that is not are no more than the elements before.    *)
CountInv ==
  pc = "encode" =>
    /\ i \in Nat \ {0} /\ adapters \in Nat /\ devices \in Nat
    /\ array = 0 => i = 1 /\ adapters = 0 /\ devices = 0
    /\ array > 0 /\ array <= Len(Slices[type]) =>
         IF encoded \in Adapted THEN adapters * PerAdapter[encoded] + devices < i
                                ELSE devices = 0 /\ adapters = 0

(* Line j puts something under key k.                                      *)
Puts(j, k) == lines[j].kind = "entry" /\ lines[j].key = k

(* The map holds, of the lines passed, the last of each key.               *)
LoadInv ==
  /\ \A j \in 1..(n - 1) : lines[j].kind \in {"skip", "entry"}
  /\ \A j \in 1..(n - 1) : lines[j].kind = "entry" => lines[j].key \in DOMAIN vmx
  /\ \A k \in DOMAIN vmx : \E j \in 1..(n - 1) :
       /\ Puts(j, k) /\ vmx[k] = TextOf(lines[j])
       /\ \A l \in 1..(n - 1) : Puts(l, k) => l <= j

Loaded == pc \in {"slice", "done"} /\ n > Len(lines)

(* The indexes decoded of the s-th slice.                                  *)
Done(s) == IF s < slice THEN Indexes(Slices[type][s]) ELSE IF s = slice THEN seen ELSE {}

BadLeaf   == \E l \in Leaves[type] : Fails(l.type, Value(l.of, <<>>, l.attr))
Bad(b, S) == \E at \in S : \E a \in DOMAIN Attrs[b] : Fails(Attrs[b][a], Value(b, at, a))

(* The device at an index, made of the map and of nothing else.            *)
Made(b, at) ==
  [at |-> at, attrs |-> [a \in DOMAIN Attrs[b] |-> Meant(Attrs[b][a], Value(b, at, a))]]

(* Bus b holds the devices at the indexes in S, once each, and nothing is  *)
(* left behind their end.                                                  *)
Filled(b, S) ==
  /\ slack[b] = ZeroDevice(b)
  /\ ToSet(devs[b]) = {Made(b, at) : at \in S}
  /\ Len(devs[b]) = Cardinality(S)

(* The structure holds what has been decoded, unless something failed; and *)
(* only then is there something left behind the end of a slice.            *)
FillInv ==
  Loaded =>
    /\ leaves = [l \in Leaves[type] |-> Reflected(l.type, Value(l.of, <<>>, l.attr), Zero(l.type))]
    /\ failed <=> BadLeaf \/ \E s \in DOMAIN Slices[type] : Bad(Slices[type][s], Done(s))
    /\ \A s \in DOMAIN Slices[type] :
         Done(s) \subseteq Indexes(Slices[type][s]) /\ IsFiniteSet(Done(s))
    /\ ~failed => \A s \in DOMAIN Slices[type] : Filled(Slices[type][s], Done(s))

(* An address is chosen only at the end, and where the program stops tells *)
(* how.                                                                    *)
Blank == ""
EndInv ==
  /\ pc # "done" => mac = Blank
  /\ pc = "slice" => n > Len(lines)
  /\ pc = "done" /\ n <= Len(lines) =>
       \/ lines[n].kind = "broken" /\ result = "panic"
       \/ lines[n].kind = "long" /\ result = "error"
  /\ pc = "done" /\ n > Len(lines) =>
       /\ slice > Len(Slices[type])
       /\ result = IF failed THEN "error" ELSE "ok"
       /\ ~failed /\ type = "VMXFile" => mac = MACOf(devs["ethernet"])

Inv == TypeOK /\ StartInv /\ CountInv /\ LoadInv /\ FillInv /\ EndInv
-----------------------------------------------------------------------------
FieldTypes == {"bool", "int", "uint", "text"}

(* The types of fields that the program decodes and encodes.               *)
LEMMA AttrTypes ==
  ASSUME NEW b \in Bus
  PROVE  \A a \in DOMAIN Attrs[b] : Attrs[b][a] \in FieldTypes
<1>1. Attrs[b] = CASE b \in {"ide", "sata", "nvme"} -> Device
                   [] b = "scsi"     -> SCSIDevice
                   [] b = "ethernet" -> Ethernet
                   [] b = "usb"      -> USBDevice
  BY DEF Attrs
<1>2. CASE b \in {"ide", "sata", "nvme"}
  <2>1. Attrs[b] = Device
    BY <1>1, <1>2
  <2> QED
    BY <2>1 DEF Device, FieldTypes
<1>3. CASE b = "scsi"
  <2>1. Attrs[b] = SCSIDevice
    BY <1>1, <1>3
  <2> QED
    BY <2>1 DEF SCSIDevice, FieldTypes
<1>4. CASE b = "ethernet"
  <2>1. Attrs[b] = Ethernet
    BY <1>1, <1>4
  <2> QED
    BY <2>1 DEF Ethernet, FieldTypes
<1>5. CASE b = "usb"
  <2>1. Attrs[b] = USBDevice
    BY <1>1, <1>5
  <2> QED
    BY <2>1 DEF USBDevice, FieldTypes
<1> QED
  BY <1>2, <1>3, <1>4, <1>5 DEF Bus

(* The types of the fields that are no slices.                             *)
LEMMA LeafTypes ==
  ASSUME NEW t \in DOMAIN Slices, NEW l \in Leaves[t]
  PROVE  l.type \in FieldTypes
<1>1. \A of, attr, ty : Leaf(of, attr, ty).type = ty
  BY DEF Leaf
<1>2. CASE t = "VMXFile"
  <2>1. l \in {Leaf("displayname", "", "text"), Leaf("numvcpus", "", "int"),
               Leaf("memsize", "", "int"), Leaf("guestos", "", "text"),
               Leaf("firmware", "", "text")}
    BY <1>2 DEF Leaves
  <2>2. \/ l = Leaf("displayname", "", "text") \/ l = Leaf("numvcpus", "", "int")
        \/ l = Leaf("memsize", "", "int") \/ l = Leaf("guestos", "", "text")
        \/ l = Leaf("firmware", "", "text")
    BY <2>1, Zenon
  <2>3. \E of, attr : l = Leaf(of, attr, "text") \/ l = Leaf(of, attr, "int")
    BY <2>2, Zenon
  <2> QED
    BY <1>1, <2>3 DEF FieldTypes
<1>3. CASE t = "VirtualMachine"
  <2>1. l \in {Leaf("displayname", "", "text"), Leaf("numvcpus", "", "uint"),
               Leaf("softpoweroff", "", "bool"), Leaf("usb", "present", "bool")}
    BY <1>3 DEF Leaves
  <2>2. \/ l = Leaf("displayname", "", "text") \/ l = Leaf("numvcpus", "", "uint")
        \/ l = Leaf("softpoweroff", "", "bool") \/ l = Leaf("usb", "present", "bool")
    BY <2>1, Zenon
  <2>3. \E of, attr : \/ l = Leaf(of, attr, "text") \/ l = Leaf(of, attr, "uint")
                         \/ l = Leaf(of, attr, "bool")
    BY <2>2, Zenon
  <2> QED
    BY <1>1, <2>3 DEF FieldTypes
<1> QED
  BY <1>2, <1>3 DEF Slices

(* A structure has each bus in one slice.                                  *)
LEMMA SlicesOnce ==
  ASSUME NEW t \in DOMAIN Slices
  PROVE  /\ Len(Slices[t]) \in Nat /\ DOMAIN Slices[t] = 1..Len(Slices[t])
         /\ \A s \in DOMAIN Slices[t] : Slices[t][s] \in Bus
         /\ \A r, s \in DOMAIN Slices[t] : Slices[t][r] = Slices[t][s] => r = s
<1>1. CASE t = "VMXFile"
  <2>1. Slices[t] = <<"ide", "scsi", "sata", "nvme", "ethernet">>
    BY <1>1 DEF Slices
  <2>2. Len(Slices[t]) = 5 /\ DOMAIN Slices[t] = 1..5
    BY <2>1
  <2> QED
    BY <2>1, <2>2 DEF Bus
<1>2. CASE t = "VirtualMachine"
  <2>1. Slices[t] = <<"ethernet", "ide", "scsi", "sata", "nvme", "usb">>
    BY <1>2 DEF Slices
  <2>2. Len(Slices[t]) = 6 /\ DOMAIN Slices[t] = 1..6
    BY <2>1
  <2> QED
    BY <2>1, <2>2 DEF Bus
<1> QED
  BY <1>1, <1>2 DEF Slices

(* What a field may hold is a text, and what is decoded into it is of its  *)
(* type, whether the value parses or not.                                  *)
LEMMA FieldType ==
  ASSUME NEW t \in FieldTypes
  PROVE  /\ Values(t) \subseteq Text /\ Zero(t) \in Values(t)
         /\ \A v \in Text : \A old \in Values(t) : Reflected(t, v, old) \in Values(t)
<1>1. /\ {"", "true", "false"} \subseteq Text /\ "0" \in Unsigned
      /\ Unsigned \subseteq Number /\ Number \subseteq Text
      /\ \A v \in Text : Nearest["int"][v] \in Number /\ Nearest["uint"][v] \in Unsigned
  BY ConstantsAssumption
<1>2. CASE t = "bool"
  BY <1>1, <1>2 DEF Values, Zero, Reflected, Parses
<1>3. CASE t = "int"
  BY <1>1, <1>3 DEF Values, Zero, Reflected, Parses
<1>4. CASE t = "uint"
  BY <1>1, <1>4 DEF Values, Zero, Reflected, Parses
<1>5. CASE t = "text"
  BY <1>1, <1>5 DEF Values, Zero, Reflected, Parses
<1> QED
  BY <1>2, <1>3, <1>4, <1>5 DEF FieldTypes

(* What is decoded into a field that holds nothing yet is what is meant.   *)
LEMMA FreshField ==
  ASSUME NEW t \in FieldTypes, NEW v, ~Fails(t, v)
  PROVE  Reflected(t, v, Zero(t)) = Meant(t, v)
BY DEF FieldTypes, Fails, Reflected, Meant, Parses, Zero

(* A device that nothing is decoded into is of its type.                   *)
LEMMA ZeroType ==
  ASSUME NEW b \in Bus
  PROVE  ZeroDevice(b) \in AttrsOf(b)
<1>1. \A a \in DOMAIN Attrs[b] : Zero(Attrs[b][a]) \in Values(Attrs[b][a]) /\ Zero(Attrs[b][a]) \in Text
  BY AttrTypes, FieldType
<1> QED
  BY <1>1 DEF ZeroDevice, AttrsOf

(* The device at an index is of its type, in whatever it is decoded into.  *)
LEMMA DecodedType ==
  ASSUME NEW b \in Bus, NEW at, NEW old \in AttrsOf(b), \A k \in DOMAIN vmx : vmx[k] \in Text
  PROVE  Decoded(b, at, old) \in AttrsOf(b)
<1>1. \A a : Value(b, at, a) \in Text
  <2>1. "" \in Text
    BY ConstantsAssumption
  <2> QED
    BY <2>1 DEF Value
<1>2. ASSUME NEW a \in DOMAIN Attrs[b]
      PROVE  /\ Reflected(Attrs[b][a], Value(b, at, a), old[a]) \in Values(Attrs[b][a])
             /\ Reflected(Attrs[b][a], Value(b, at, a), old[a]) \in Text
  <2>1. Attrs[b][a] \in FieldTypes
    BY AttrTypes
  <2>2. old[a] \in Values(Attrs[b][a])
    BY DEF AttrsOf
  <2>3. Reflected(Attrs[b][a], Value(b, at, a), old[a]) \in Values(Attrs[b][a])
    BY <1>1, <2>1, <2>2, FieldType
  <2> QED
    BY <2>1, <2>3, FieldType
<1> QED
  BY <1>2 DEF Decoded, AttrsOf
-----------------------------------------------------------------------------
(* The lines that the encoder writes of a field.                           *)
LEMMA FieldLines ==
  ASSUME NEW f \in [key: Key, text: Text]
  PROVE  /\ LinesOfField(f) \in Seq(Line)
         /\ OneLine(f.text) =>
              LinesOfField(f) = <<[kind |-> "entry", key |-> f.key, text |-> f.text, quoted |-> TRUE]>>
<1> DEFINE first == IF f.text \in Long THEN [kind |-> "long"]
                    ELSE [kind |-> "entry", key |-> f.key, text |-> FirstPart[f.text],
                          quoted |-> Rest[f.text] = <<>>]
<1>1. /\ FirstPart[f.text] \in Text /\ Rest[f.text] \in Seq(Line)
      /\ Rest[f.text] = <<>> => FirstPart[f.text] = f.text
  BY CodecAssumption
<1>2. first \in Line
  BY <1>1 DEF Line
<1>3. LinesOfField(f) = <<first>> \o Rest[f.text]
  BY DEF LinesOfField
<1>4. OneLine(f.text) =>
        /\ first = [kind |-> "entry", key |-> f.key, text |-> f.text, quoted |-> TRUE]
        /\ Rest[f.text] = <<>>
  BY <1>1 DEF OneLine
<1> HIDE DEF first
<1>5. <<first>> \in Seq(Line)
  BY <1>2
<1>6. LinesOfField(f) \in Seq(Line)
  BY <1>1, <1>3, <1>5
<1>7. OneLine(f.text) => LinesOfField(f) = <<first>>
  <2>1. <<first>> \o <<>> = <<first>>
    BY <1>5
  <2> QED
    BY <1>3, <1>4, <2>1, Zenon
<1> QED
  BY <1>4, <1>6, <1>7

(* The fields that are no slices.                                          *)
LEMMA LeafFields ==
  ASSUME type = "VirtualMachine", machine \in Machines, EncodeLeaves
  PROVE  fields' \subseteq [key: Key, text: Text]
<1> SUFFICES ASSUME NEW l \in Leaves[type]
             PROVE  Field(l.of, <<>>, l.attr, machine.leaves[l]) \in [key: Key, text: Text]
  BY DEF EncodeLeaves
<1>1. l \in Leaves["VirtualMachine"] /\ l.of \in Names /\ l.attr \in Names /\ l.type \in FieldTypes
  <2>1. "VirtualMachine" \in DOMAIN Slices
    BY DEF Slices
  <2>2. "VirtualMachine" \in DOMAIN Leaves
    BY DEF Leaves
  <2>3. {l.of, l.attr} \subseteq Names
    BY <2>2, ConstantsAssumption
  <2> QED
    BY <2>1, <2>3, LeafTypes
<1>2. machine.leaves[l] \in Values(l.type)
  BY <1>1, CodecAssumption
<1>3. machine.leaves[l] \in Text
  BY <1>1, <1>2, FieldType
<1> QED
  BY <1>1, <1>3 DEF Field, Key
-----------------------------------------------------------------------------
(* The elements of an array that are encoded, and where.                   *)
LEMMA KeptBound ==
  ASSUME NEW b \in Bus, NEW count \in Nat
  PROVE  /\ Kept(b, count) \in Nat /\ Kept(b, count) <= count
         /\ b \in Adapted => Kept(b, count) <= Adapters[b] * PerAdapter[b]
<1>1. /\ \A c \in Adapted : Adapters[c] \in Nat /\ PerAdapter[c] \in Nat
      /\ MaxNICs \in Nat
  BY CodecAssumption
<1>2. CASE b \in Adapted
  <2>1. Adapters[b] * PerAdapter[b] \in Nat
    BY <1>1, <1>2
  <2> DEFINE p == Adapters[b] * PerAdapter[b]
  <2>2. Kept(b, count) = IF count < p THEN count ELSE p
    BY <1>2 DEF Kept, Adapted
  <2> HIDE DEF p
  <2>3. p \in Nat
    BY <2>1 DEF p
  <2>4. Kept(b, count) \in Nat /\ Kept(b, count) <= count /\ Kept(b, count) <= p
    BY <2>2, <2>3
  <2> QED
    BY <2>4 DEF p
<1>3. CASE b \notin Adapted /\ b = "ethernet"
  <2>1. Kept(b, count) = IF count < MaxNICs THEN count ELSE MaxNICs
    BY <1>3 DEF Kept, Adapted
  <2> QED
    BY <1>1, <1>3, <2>1
<1>4. CASE b \notin Adapted /\ b # "ethernet"
  <2>1. Kept(b, count) = IF count < count THEN count ELSE count
    BY <1>4 DEF Kept, Adapted
  <2> QED
    BY <1>4, <2>1
<1> QED
  BY <1>2, <1>3, <1>4

(* The numbers in the key of an element.                                   *)
LEMMA AddressType ==
  ASSUME NEW b \in Bus, NEW d, NEW k \in Nat \ {0}, adapters \in Nat, devices \in Nat
  PROVE  /\ Place(b)[1] \in Nat /\ Place(b)[2] \in Nat
         /\ Address(b, d, k, Place(b)) \in Seq(Nat)
<1>1. Place(b) \in Nat \X Nat /\ Place(b) \in Seq(Nat)
  BY DEF Place
<1>2. <<Place(b)[1]>> \in Seq(Nat) /\ <<Place(b)[2]>> \in Seq(Nat) /\ <<k - 1>> \in Seq(Nat)
  BY <1>1
<1> QED
  BY <1>1, <1>2, Zenon DEF Address

(* The element that is encoded, and its fields.                            *)
LEMMA DeviceFields ==
  ASSUME TypeOK, StartInv, CountInv, EncodeDevice
  PROVE  fields' \subseteq [key: Key, text: Text]
<1> DEFINE b  == encoded
           d  == machine.devs[b][i]
           at == Address(b, d, i, Place(b))
<1>1. pc = "encode" /\ type \in DOMAIN Slices /\ machine \in Machines /\ array \in DOMAIN Slices[type]
  BY SlicesOnce DEF EncodeDevice, AtArray, StartInv, TypeOK
<1>2. b \in Bus
  BY <1>1, SlicesOnce DEF encoded
<1>3. machine.devs[b] \in Seq(AttrsOf(b))
  BY <1>1, <1>2, CodecAssumption
<1>4. i \in Nat \ {0} /\ adapters \in Nat /\ devices \in Nat
  BY <1>1 DEF CountInv
<1>5. i <= Kept(b, Len(machine.devs[b]))
  BY DEF EncodeDevice
<1>6. fields' = {Field(b, at, a, d[a]) : a \in {c \in DOMAIN d : ~LeftOut(c, Attrs[b][c], d[c])}}
  BY DEF EncodeDevice
<1> HIDE DEF b
<1>7. i \in 1..Len(machine.devs[b])
  BY <1>2, <1>3, <1>4, <1>5, KeptBound
<1>8. d \in AttrsOf(b)
  BY <1>3, <1>7
<1>9. at \in Seq(Nat)
  BY <1>2, <1>4, AddressType
<1> HIDE DEF d, at
<1>10. DOMAIN d \subseteq Names /\ b \in Names /\ \A a \in DOMAIN d : d[a] \in Text
  <2>1. DOMAIN d = DOMAIN Attrs[b] /\ \A a \in DOMAIN d : d[a] \in Text
    BY <1>8 DEF AttrsOf
  <2> QED
    BY <1>2, <2>1, ConstantsAssumption
<1>11. \A a \in DOMAIN d : Field(b, at, a, d[a]) \in [key: Key, text: Text]
  BY <1>9, <1>10 DEF Field, Key
<1> QED
  BY <1>6, <1>11
-----------------------------------------------------------------------------
(* Init.                                                                   *)
LEMMA InitInv == CodecInit => Inv
<1> SUFFICES ASSUME CodecInit PROVE Inv
  OBVIOUS
<1>1. \/ type = "VMXFile" /\ lines \in Files /\ pc = "load" /\ machine = <<>>
      \/ type = "VirtualMachine" /\ lines = <<>> /\ pc = "encode" /\ machine \in Machines
  BY DEF CodecInit
<1>2. /\ array = 0 /\ i = 1 /\ adapters = 0 /\ devices = 0 /\ fields = {}
      /\ n = 1 /\ vmx = <<>> /\ slice = 1 /\ seen = {} /\ leaves = <<>>
      /\ devs = [b \in Bus |-> <<>>] /\ slack = [b \in Bus |-> ZeroDevice(b)]
      /\ failed = FALSE /\ result = "none"
  BY DEF CodecInit, Reset
<1>3. mac = Blank /\ mac \in Text
  <2>1. mac = ""
    BY DEF CodecInit, Reset
  <2> QED
    BY <2>1, ConstantsAssumption, Zenon DEF Blank
<1>4. TypeOK
  <2>1. type \in DOMAIN Slices /\ lines \in Seq(Line) /\ Len(lines) \in Nat
    <3>1. Files \subseteq Seq(Line)
      BY ConstantsAssumption
    <3>2. <<>> \in Seq(Line)
      OBVIOUS
    <3>3. lines \in Seq(Line)
      BY <1>1, <3>1, <3>2, Zenon
    <3> QED
      BY <1>1, <3>3 DEF Slices
  <2>2. Len(Slices[type]) \in Nat
    BY <2>1, SlicesOnce
  <2>3. \A b \in Bus : /\ devs[b] \in Seq([at: Seq(Nat), attrs: AttrsOf(b)])
                       /\ slack[b] \in AttrsOf(b)
    BY <1>2, ZeroType
  <2>4. DOMAIN devs = Bus /\ DOMAIN slack = Bus
    BY <1>2
  <2>5. n \in 1..(Len(lines) + 1) /\ slice \in 1..(Len(Slices[type]) + 1)
        /\ array \in 0..(Len(Slices[type]) + 1) /\ ~(array > 0)
    BY <1>2, <2>1, <2>2
  <2>6. DOMAIN vmx \subseteq Key /\ \A k \in DOMAIN vmx : vmx[k] \in Text
    BY <1>2
  <2>7. seen \subseteq Seq(Nat) /\ failed \in BOOLEAN /\ i \in Nat
        /\ pc \in {"encode", "load", "slice", "done"}
        /\ result \in {"none", "ok", "error", "panic"}
        /\ machine \in Machines \cup {<<>>} /\ fields \subseteq [key: Key, text: Text]
    BY <1>1, <1>2
  <2>8. leaves # <<>> => DOMAIN leaves = Leaves[type]
    BY <1>2
  <2> QED
    BY <1>3, <2>1, <2>3, <2>4, <2>5, <2>6, <2>7, <2>8 DEF TypeOK
<1>5. StartInv
  BY <1>1, <1>2 DEF StartInv
<1>6. CountInv
  BY <1>2 DEF CountInv
<1>7. LoadInv
  BY <1>2 DEF LoadInv
<1>8. FillInv
  BY <1>1 DEF FillInv, Loaded
<1>9. EndInv
  BY <1>1, <1>3 DEF EndInv
<1> QED
  BY <1>4, <1>5, <1>6, <1>7, <1>8, <1>9 DEF Inv

(* A step of the encoder leaves the decoder alone.                         *)
LEMMA EncoderSteps ==
  ASSUME EncodeLeaves \/ EncodeDevice \/ WriteField \/ NextArray \/ EncodeEnds
  PROVE  /\ UNCHANGED <<type, machine, decodeVars>>
         /\ pc = "encode" /\ pc' \in {"encode", "load"}
BY DEF EncodeLeaves, EncodeDevice, WriteField, NextArray, EncodeEnds, AtArray, encodeVars

(* A step of the decoder leaves the encoder and the lines alone.           *)
LEMMA DecoderSteps ==
  ASSUME Decode /\ UNCHANGED encodeVars
  PROVE  /\ UNCHANGED <<type, lines, machine, array, i, adapters, devices, fields>>
         /\ pc \in {"load", "slice"} /\ pc' \in {"load", "slice", "done"}
BY DEF Decode, SkipLine, PutLine, BrokenLine, LongLine, DecodeLeaves, DecodeDevice, NextSlice,
       DecodeEnds, Scan, AtSlice, Stop, encodeVars

(* The structure is as it was made while lines are written and loaded.     *)
LEMMA StartStep ==
  ASSUME StartInv, CodecNext
  PROVE  StartInv'
<1>1. CASE EncodeLeaves \/ EncodeDevice \/ WriteField \/ NextArray \/ EncodeEnds
  BY <1>1, EncoderSteps DEF StartInv, decodeVars, ZeroDevice
<1>2. CASE SkipLine /\ UNCHANGED encodeVars
  BY <1>2 DEF StartInv, SkipLine, Scan, ZeroDevice
<1>3. CASE PutLine /\ UNCHANGED encodeVars
  BY <1>3 DEF StartInv, PutLine, Scan, ZeroDevice
<1>4. CASE (BrokenLine \/ LongLine) /\ UNCHANGED encodeVars
  BY <1>4 DEF StartInv, BrokenLine, LongLine, Scan, Stop
<1>5. CASE DecodeLeaves /\ UNCHANGED encodeVars
  BY <1>5 DEF StartInv, DecodeLeaves
<1>6. CASE (DecodeDevice \/ NextSlice) /\ UNCHANGED encodeVars
  BY <1>6 DEF StartInv, DecodeDevice, NextSlice, AtSlice
<1>7. CASE DecodeEnds /\ UNCHANGED encodeVars
  BY <1>7 DEF StartInv, DecodeEnds, Stop
<1> QED
  BY <1>1, <1>2, <1>3, <1>4, <1>5, <1>6, <1>7 DEF CodecNext, Decode

(* Where the next element goes.                                            *)
LEMMA NextPlace ==
  ASSUME NEW P \in Nat \ {0}, NEW a \in Nat, NEW d \in Nat, NEW k \in Nat, a * P + d < k
  PROVE  (d >= P => (a + 1) * P + 1 < k + 1) /\ a * P + (d + 1) < k + 1
<1>1. a * P \in Nat /\ (a + 1) * P = a * P + P
  OBVIOUS
<1> QED
  BY <1>1

(* As many adapters as the devices before the element need.                *)
LEMMA AdapterBound ==
  ASSUME NEW P \in Nat \ {0}, NEW A \in Nat, NEW a \in Nat, (a + 1) * P < A * P
  PROVE  a + 1 < A
<1>1. SUFFICES ASSUME A <= a + 1 PROVE FALSE
  OBVIOUS
<1>2. PICK c \in Nat : a + 1 = A + c
  BY <1>1
<1>3. (a + 1) * P = A * P + c * P /\ c * P \in Nat /\ A * P \in Nat
  BY <1>2
<1> QED
  BY <1>3

(* The devices written are counted by adapter.                             *)
LEMMA CountStep ==
  ASSUME TypeOK, StartInv, CountInv, CodecNext
  PROVE  CountInv'
<1>1. CASE EncodeLeaves
  <2>1. /\ pc = "encode" /\ array = 0 /\ array' = 1
        /\ UNCHANGED <<type, pc, i, adapters, devices>>
    BY <1>1 DEF EncodeLeaves
  <2>2. i = 1 /\ adapters = 0 /\ devices = 0
    BY <2>1 DEF CountInv
  <2>3. \A b \in Adapted : 0 * PerAdapter[b] + 0 < 1
    BY CodecAssumption
  <2> QED
    BY <2>1, <2>2, <2>3 DEF CountInv
<1>2. CASE EncodeDevice
  <2> DEFINE b == encoded
             d == machine.devs[b][i]
  <2>1. /\ pc = "encode" /\ array > 0 /\ array <= Len(Slices[type])
        /\ UNCHANGED <<type, pc, array>> /\ array # 0 /\ array' > 0 /\ array' # 0
        /\ array \in DOMAIN Slices[type] /\ type \in DOMAIN Slices
    <3>1. type \in DOMAIN Slices
      BY DEF TypeOK
    <3>2. Len(Slices[type]) \in Nat /\ DOMAIN Slices[type] = 1..Len(Slices[type])
      BY <3>1, SlicesOnce
    <3>3. pc = "encode" /\ array \in 1..Len(Slices[type]) /\ UNCHANGED <<type, pc, array>>
      BY <1>2 DEF EncodeDevice, AtArray
    <3> QED
      BY <3>1, <3>2, <3>3
  <2>2. b' = b
    BY <2>1 DEF encoded
  <2>3. /\ i \in Nat \ {0} /\ adapters \in Nat /\ devices \in Nat
        /\ IF b \in Adapted THEN adapters * PerAdapter[b] + devices < i
                            ELSE devices = 0 /\ adapters = 0
    BY <2>1 DEF CountInv
  <2>4. /\ adapters' = Place(b)[1]
        /\ devices' = Place(b)[2] + IF b \in Adapted /\ ~IsController(b, d) THEN 1 ELSE 0
        /\ i' = i + 1
    BY <1>2 DEF EncodeDevice
  <2> HIDE DEF d
  <2>5. IF b' \in Adapted THEN adapters' * PerAdapter[b'] + devices' < i'
                          ELSE devices' = 0 /\ adapters' = 0
    <3> HIDE DEF b
    <3>1. CASE b \in Several /\ devices >= PerAdapter[b]
      <4>1. PerAdapter[b] \in Nat \ {0} /\ b \in Adapted
        BY <3>1, CodecAssumption DEF Several
      <4>2. adapters' = adapters + 1 /\ devices' \in Nat /\ devices' <= 1
        <5>1. Place(b) = <<adapters + 1, 0>>
          BY <3>1 DEF Place
        <5> DEFINE one == IF b \in Adapted /\ ~IsController(b, d) THEN 1 ELSE 0
        <5>2. one = 0 \/ one = 1
          OBVIOUS
        <5>3. devices' = 0 + one
          BY <2>4, <5>1
        <5> HIDE DEF one
        <5> QED
          BY <2>3, <2>4, <5>1, <5>2, <5>3
      <4>3. (adapters + 1) * PerAdapter[b] + 1 < i + 1
        BY <2>3, <3>1, <4>1, NextPlace
      <4> DEFINE p == (adapters + 1) * PerAdapter[b]
      <4>4. p \in Nat
        BY <2>3, <4>1
      <4> HIDE DEF p
      <4>5. p + 1 < i + 1
        BY <4>3 DEF p
      <4>6. p + devices' < i'
        BY <2>3, <2>4, <4>2, <4>4, <4>5
      <4> QED
        BY <2>2, <4>1, <4>2, <4>6 DEF p
    <3>2. CASE b \in Adapted /\ ~(b \in Several /\ devices >= PerAdapter[b])
      <4>1. PerAdapter[b] \in Nat \ {0}
        BY <3>2, CodecAssumption
      <4>2. adapters' = adapters /\ devices' \in Nat /\ devices' <= devices + 1
        BY <2>3, <2>4, <3>2 DEF Place
      <4>3. adapters * PerAdapter[b] + (devices + 1) < i + 1
        BY <2>3, <3>2, <4>1, NextPlace
      <4> DEFINE p == adapters * PerAdapter[b]
      <4>4. p \in Nat
        BY <2>3, <4>1
      <4> HIDE DEF p
      <4>5. p + (devices + 1) < i + 1
        BY <4>3 DEF p
      <4>6. p + devices' < i'
        BY <2>3, <2>4, <4>2, <4>4, <4>5
      <4> QED
        BY <2>2, <3>2, <4>2, <4>6 DEF p
    <3>3. CASE b \notin Adapted
      BY <2>2, <2>3, <2>4, <3>3 DEF Place, Several
    <3> QED
      BY <3>1, <3>2, <3>3 DEF Several
  <2>6. i' \in Nat \ {0} /\ adapters' \in Nat /\ devices' \in Nat
    BY <2>3, <2>4 DEF Place
  <2> QED
    BY <2>1, <2>5, <2>6 DEF CountInv
<1>3. CASE NextArray
  <2>1. /\ pc = "encode" /\ array \in Nat /\ array > 0
        /\ array' = array + 1 /\ i' = 1 /\ adapters' = 0 /\ devices' = 0
    BY <1>3, SlicesOnce DEF NextArray, AtArray, TypeOK
  <2>2. \A b \in Adapted : 0 * PerAdapter[b] + 0 < 1
    BY CodecAssumption
  <2> QED
    BY <2>1, <2>2 DEF CountInv
<1>4. CASE EncodeEnds
  BY <1>4 DEF EncodeEnds, CountInv
<1>5. CASE Decode /\ UNCHANGED encodeVars
  BY <1>5, DecoderSteps DEF CountInv
<1>6. CASE WriteField
  BY <1>6 DEF WriteField, CountInv, encoded
<1> QED
  BY <1>1, <1>2, <1>3, <1>4, <1>5, <1>6 DEF CodecNext
-----------------------------------------------------------------------------
(* The map holds what the lines passed say.                                *)
LEMMA LoadStep ==
  ASSUME TypeOK, StartInv, LoadInv, CodecNext
  PROVE  LoadInv'
<1>1. CASE EncodeLeaves \/ EncodeDevice \/ WriteField \/ NextArray \/ EncodeEnds
  <2>1. n = 1 /\ n' = 1 /\ vmx = <<>> /\ vmx' = <<>>
    BY <1>1, EncoderSteps DEF StartInv, decodeVars
  <2> QED
    BY <2>1 DEF LoadInv
<1>2. CASE SkipLine /\ UNCHANGED encodeVars
  <2>1. n \in Nat /\ n >= 1 /\ n' = n + 1 /\ lines[n].kind = "skip" /\ UNCHANGED <<lines, vmx>>
    BY <1>2 DEF SkipLine, Scan, TypeOK
  <2>2. 1..(n' - 1) = (1..(n - 1)) \cup {n} /\ \A k : ~Puts(n, k)
    BY <2>1 DEF Puts
  <2> QED
    BY <2>1, <2>2 DEF LoadInv, Puts
<1>3. CASE PutLine /\ UNCHANGED encodeVars
  <2> DEFINE key == lines[n].key
  <2>1. /\ n \in Nat /\ n >= 1 /\ n' = n + 1 /\ lines[n].kind = "entry"
        /\ vmx' = Put(key, TextOf(lines[n])) /\ lines' = lines
    BY <1>3 DEF PutLine, Scan, TypeOK
  <2>2. /\ 1..(n' - 1) = (1..(n - 1)) \cup {n}
        /\ \A j \in 1..(n - 1) : j < n
    BY <2>1
  <2>3. /\ DOMAIN vmx' = DOMAIN vmx \cup {key}
        /\ vmx'[key] = TextOf(lines[n])
        /\ \A k \in DOMAIN vmx : k # key => vmx'[k] = vmx[k]
    BY <2>1 DEF Put
  <2>4. \A j \in 1..(n' - 1) : lines'[j].kind \in {"skip", "entry"}
    BY <2>1, <2>2 DEF LoadInv
  <2>5. \A j \in 1..(n' - 1) : lines'[j].kind = "entry" => lines'[j].key \in DOMAIN vmx'
    BY <2>1, <2>2, <2>3 DEF LoadInv
  <2>6. \A j, k : Puts(j, k)' <=> Puts(j, k)
    BY <2>1 DEF Puts
  <2>7. \A l \in 1..n : l <= n
    BY <2>1
  <2>8. ASSUME NEW k \in DOMAIN vmx'
        PROVE  \E j \in 1..(n' - 1) :
                 /\ Puts(j, k) /\ vmx'[k] = TextOf(lines[j])
                 /\ \A l \in 1..(n' - 1) : Puts(l, k) => l <= j
    <3>1. CASE k = key
      <4>1. n \in 1..(n' - 1) /\ Puts(n, k) /\ vmx'[k] = TextOf(lines[n])
        BY <2>1, <2>3, <3>1 DEF Puts
      <4>2. \A l \in 1..(n' - 1) : l <= n
        BY <2>1
      <4> QED
        BY <4>1, <4>2
    <3>2. CASE k # key
      <4>1. k \in DOMAIN vmx /\ ~Puts(n, k)
        BY <2>3, <3>2 DEF Puts
      <4>2. PICK j \in 1..(n - 1) : /\ Puts(j, k) /\ vmx[k] = TextOf(lines[j])
                                    /\ \A l \in 1..(n - 1) : Puts(l, k) => l <= j
        BY <4>1 DEF LoadInv
      <4> QED
        BY <2>2, <2>3, <3>2, <4>1, <4>2
    <3> QED
      BY <3>1, <3>2
  <2>9. \A line : TextOf(line)' = TextOf(line)
    BY DEF TextOf
  <2> HIDE DEF key
  <2> QED
    BY <2>1, <2>4, <2>5, <2>6, <2>8 DEF LoadInv, TextOf
<1>4. CASE (BrokenLine \/ LongLine \/ DecodeLeaves \/ DecodeDevice \/ NextSlice \/ DecodeEnds)
           /\ UNCHANGED encodeVars
  <2>1. UNCHANGED <<lines, n, vmx>>
    BY <1>4 DEF BrokenLine, LongLine, DecodeLeaves, DecodeDevice, NextSlice, DecodeEnds
  <2> QED
    BY <2>1 DEF LoadInv, Puts, TextOf
<1> QED
  BY <1>1, <1>2, <1>3, <1>4 DEF CodecNext, Decode
-----------------------------------------------------------------------------
(* A set of numbers that has a bound has a greatest one.                   *)
LEMMA Greatest ==
  ASSUME NEW m \in Nat, NEW S \in SUBSET (1..m), S # {}
  PROVE  \E k \in S : \A j \in S : j <= k
<1> DEFINE T == {m - k : k \in S}
<1>1. T \subseteq Nat /\ T # {}
  <2>1. \A k \in S : m - k \in Nat
    OBVIOUS
  <2> QED
    BY <2>1
<1>2. \E x \in T : \A y \in T : ~(<<y, x>> \in OpToRel(<, Nat))
  <2> HIDE DEF T
  <2> QED
    BY <1>1, NatLessThanWellFounded, WFMin
<1>3. PICK x \in T : \A y \in T : ~(y < x)
  BY <1>1, <1>2 DEF OpToRel
<1>4. PICK k \in S : x = m - k
  BY <1>3
<1>5. ASSUME NEW j \in S PROVE j <= k
  <2>1. ~(m - j < x)
    BY <1>3
  <2> QED
    BY <1>4, <2>1
<1> QED
  BY <1>5

(* The attributes of a network device are texts.                           *)
LEMMA NICType ==
  ASSUME NEW nic \in [at: Seq(Nat), attrs: AttrsOf("ethernet")]
  PROVE  MAC(nic) \in Text
<1>1. Attrs["ethernet"] = Ethernet
  BY DEF Attrs, Bus
<1>2. {"address", "generatedaddress"} \subseteq DOMAIN Ethernet
  BY DEF Ethernet
<1>3. nic.attrs.address \in Text /\ nic.attrs.generatedaddress \in Text
  BY <1>1, <1>2 DEF AttrsOf
<1>4. "" \in Text
  BY ConstantsAssumption
<1> QED
  BY <1>3, <1>4, Zenon DEF MAC

(* The address that is chosen is of a device that has one, unless none has.*)
LEMMA MACChosen ==
  ASSUME NEW S, NEW nics \in Seq(S)
  PROVE  \/ MACOf(nics) = Blank /\ \A k \in DOMAIN nics : MAC(nics[k]) = Blank
         \/ \E k \in DOMAIN nics : MACOf(nics) = MAC(nics[k]) /\ MAC(nics[k]) # Blank
<1> DEFINE some == {k \in DOMAIN nics : MAC(nics[k]) # Blank}
<1>1. MACOf(nics) = IF some = {} THEN Blank
                    ELSE MAC(nics[CHOOSE k \in some : \A j \in some : j <= k])
  BY Zenon DEF MACOf, Blank
<1>2. some \in SUBSET (1..Len(nics)) /\ Len(nics) \in Nat
  OBVIOUS
<1>3. some # {} => \E k \in some : \A j \in some : j <= k
  <2> HIDE DEF some
  <2> QED
    BY <1>2, Greatest
<1>4. some # {} => (CHOOSE k \in some : \A j \in some : j <= k) \in some
  BY <1>3
<1> QED
  BY <1>1, <1>4

(* The address that is chosen is a text.                                   *)
LEMMA MACType ==
  ASSUME NEW nics \in Seq([at: Seq(Nat), attrs: AttrsOf("ethernet")])
  PROVE  MACOf(nics) \in Text
<1>1. Blank \in Text
  BY ConstantsAssumption, Zenon DEF Blank
<1>2. \A k \in DOMAIN nics : MAC(nics[k]) \in Text
  <2> DEFINE E == [at: Seq(Nat), attrs: AttrsOf("ethernet")]
  <2>1. \A nic \in E : MAC(nic) \in Text
    BY NICType
  <2>2. nics \in Seq(E)
    OBVIOUS
  <2> HIDE DEF E
  <2>3. \A k \in DOMAIN nics : nics[k] \in E
    BY <2>2
  <2> QED
    BY <2>1, <2>3
<1> QED
  BY <1>1, <1>2, MACChosen
-----------------------------------------------------------------------------
(* Where the encoder is stays in the bounds of the hardware.               *)
EncodeType ==
  /\ machine \in Machines \cup {<<>>}
  /\ array \in 0..(Len(Slices[type]) + 1)
  /\ i \in Nat
  /\ fields \subseteq [key: Key, text: Text]
  /\ pc = "encode" /\ array > 0 /\ array <= Len(Slices[type]) /\ encoded \in Several =>
       adapters < Adapters[encoded] /\ devices <= PerAdapter[encoded]

(* No adapter and no device gets a number that the hardware has not.       *)
LEMMA EncodeTypeStep ==
  ASSUME TypeOK, StartInv, CountInv, CodecNext
  PROVE  EncodeType'
<1>0. /\ type \in DOMAIN Slices /\ machine \in Machines \cup {<<>>} /\ i \in Nat
      /\ fields \subseteq [key: Key, text: Text]
      /\ Len(Slices[type]) \in Nat /\ DOMAIN Slices[type] = 1..Len(Slices[type])
      /\ \A b \in Several : /\ b \in Adapted /\ PerAdapter[b] \in Nat \ {0} /\ Adapters[b] \in Nat \ {0}
                            /\ 0 < Adapters[b] /\ 0 <= PerAdapter[b]
  BY SlicesOnce, CodecAssumption DEF TypeOK, Several
<1>1. CASE EncodeLeaves
  <2>1. /\ pc = "encode" /\ array = 0 /\ array' = 1
        /\ UNCHANGED <<type, machine, i, adapters, devices>>
    BY <1>1 DEF EncodeLeaves
  <2>2. adapters = 0 /\ devices = 0
    BY <2>1 DEF CountInv
  <2>3. fields' \subseteq [key: Key, text: Text]
    BY <1>1, <2>1, LeafFields DEF StartInv
  <2> QED
    BY <1>0, <2>1, <2>2, <2>3 DEF EncodeType, encoded
<1>2. CASE EncodeDevice
  <2> DEFINE b == encoded
             d == machine.devs[b][i]
             at == Address(b, d, i, Place(b))
  <2>1. /\ pc = "encode" /\ array \in 1..Len(Slices[type]) /\ machine \in Machines
        /\ UNCHANGED <<type, pc, array, machine>> /\ i' = i + 1
    BY <1>2 DEF EncodeDevice, AtArray, StartInv
  <2>2. b' = b /\ b \in Bus
    BY <1>0, <2>1, SlicesOnce DEF encoded
  <2>3. /\ adapters' = Place(b)[1]
        /\ devices' = Place(b)[2] + IF b \in Adapted /\ ~IsController(b, d) THEN 1 ELSE 0
        /\ i <= Kept(b, Len(machine.devs[b]))
    BY <1>2 DEF EncodeDevice
  <2>4. ASSUME b \in Several
        PROVE  adapters' < Adapters[b] /\ devices' <= PerAdapter[b]
    <3>1. adapters < Adapters[b] /\ devices <= PerAdapter[b]
      BY <1>0, <2>1, <2>4 DEF TypeOK
    <3>2. adapters \in Nat /\ devices \in Nat /\ adapters * PerAdapter[b] + devices < i
      BY <1>0, <2>1, <2>4 DEF CountInv
    <3>3. machine.devs[b] \in Seq(AttrsOf(b))
      BY <2>1, <2>2, CodecAssumption
    <3>4. /\ Kept(b, Len(machine.devs[b])) <= Adapters[b] * PerAdapter[b]
          /\ Kept(b, Len(machine.devs[b])) \in Nat
      <4>1. Len(machine.devs[b]) \in Nat /\ b \in Bus /\ b \in Adapted
        BY <1>0, <2>2, <2>4, <3>3, LenProperties
      <4> QED
        BY <4>1, KeptBound, Zenon
    <3> DEFINE one == IF b \in Adapted /\ ~IsController(b, d) THEN 1 ELSE 0
    <3>5. one = 0 \/ one = 1
      OBVIOUS
    <3>6. devices' = Place(b)[2] + one
      BY <2>3
    <3> HIDE DEF one, b, d
    <3>7. CASE devices >= PerAdapter[b]
      <4>1. Place(b) = <<adapters + 1, 0>>
        BY <2>4, <3>7 DEF Place
      <4>2. PerAdapter[b] \in Nat \ {0} /\ Adapters[b] \in Nat \ {0}
        BY <1>0, <2>4
      <4>3. devices = PerAdapter[b]
        BY <3>1, <3>2, <3>7, <4>2
      <4> DEFINE p == adapters * PerAdapter[b]
                 q == Adapters[b] * PerAdapter[b]
                 r == (adapters + 1) * PerAdapter[b]
      <4>4. p \in Nat /\ q \in Nat /\ r = p + PerAdapter[b]
        BY <3>2, <4>2
      <4> HIDE DEF p, q, r
      <4>5. p + devices < i /\ i <= q
        <5>1. p + devices < i
          BY <3>2 DEF p
        <5>2. Kept(b, Len(machine.devs[b])) <= q
          BY <3>4 DEF q
        <5> QED
          BY <1>0, <2>3, <3>4, <4>4, <5>1, <5>2
      <4>6. r < q
        BY <1>0, <3>2, <4>2, <4>3, <4>4, <4>5
      <4>7. adapters + 1 < Adapters[b]
        BY <3>2, <4>2, <4>6, AdapterBound DEF q, r
      <4> QED
        BY <2>3, <3>5, <3>6, <4>1, <4>2, <4>7
    <3>8. CASE ~(devices >= PerAdapter[b])
      <4>1. Place(b) = <<adapters, devices>>
        BY <3>8 DEF Place
      <4>2. PerAdapter[b] \in Nat
        BY <1>0, <2>4
      <4> QED
        BY <2>3, <3>1, <3>2, <3>5, <3>6, <3>8, <4>1, <4>2
    <3> QED
      BY <3>7, <3>8
  <2> QED
    <3>1. i' \in Nat /\ array' \in 0..(Len(Slices[type]') + 1) /\ machine' \in Machines \cup {<<>>}
      BY <1>0, <2>1
    <3>2. b' \in Several => adapters' < Adapters[b'] /\ devices' <= PerAdapter[b']
      BY <2>2, <2>4
    <3>3. fields' \subseteq [key: Key, text: Text]
      BY <1>2, DeviceFields
    <3> QED
      BY <3>1, <3>2, <3>3 DEF EncodeType
<1>3. CASE NextArray
  <2>1. /\ array \in 1..Len(Slices[type]) /\ array' = array + 1 /\ i' = 1
        /\ adapters' = 0 /\ devices' = 0 /\ UNCHANGED <<type, machine, fields>>
    BY <1>3 DEF NextArray, AtArray
  <2> QED
    BY <1>0, <2>1 DEF EncodeType, encoded
<1>4. CASE EncodeEnds
  <2>1. UNCHANGED <<type, machine, array, i, fields>> /\ pc' = "load"
    BY <1>4 DEF EncodeEnds, encodeVars
  <2> QED
    BY <1>0, <2>1 DEF EncodeType, TypeOK
<1>5. CASE Decode /\ UNCHANGED encodeVars
  <2>1. UNCHANGED <<type, machine, array, i, fields>> /\ pc' # "encode"
    BY <1>5, DecoderSteps
  <2> QED
    BY <1>0, <2>1 DEF EncodeType, TypeOK
<1>6. CASE WriteField
  <2>1. UNCHANGED <<type, pc, machine, array, i, adapters, devices>> /\ fields' \subseteq fields
    BY <1>6 DEF WriteField
  <2> QED
    BY <1>0, <2>1 DEF EncodeType, TypeOK, encoded
<1> QED
  BY <1>1, <1>2, <1>3, <1>4, <1>5, <1>6 DEF CodecNext

(* The variables keep their types.                                         *)
LEMMA TypeStep ==
  ASSUME TypeOK, StartInv, CountInv, FillInv, EndInv, CodecNext
  PROVE  TypeOK'
<1>0. /\ type \in DOMAIN Slices /\ lines \in Seq(Line) /\ n \in 1..(Len(lines) + 1)
      /\ DOMAIN vmx \subseteq Key /\ (\A k \in DOMAIN vmx : vmx[k] \in Text)
      /\ slice \in 1..(Len(Slices[type]) + 1) /\ seen \subseteq Seq(Nat)
      /\ (leaves # <<>> => DOMAIN leaves = Leaves[type])
      /\ DOMAIN devs = Bus /\ DOMAIN slack = Bus
      /\ (\A b \in Bus : devs[b] \in Seq([at: Seq(Nat), attrs: AttrsOf(b)])
                         /\ slack[b] \in AttrsOf(b))
      /\ failed \in BOOLEAN /\ pc \in {"encode", "load", "slice", "done"}
      /\ result \in {"none", "ok", "error", "panic"} /\ mac \in Text
  BY DEF TypeOK
<1>00. Len(lines) \in Nat /\ Len(Slices[type]) \in Nat /\ DOMAIN Slices[type] = 1..Len(Slices[type])
  BY <1>0, SlicesOnce
<1>e. EncodeType'
  BY EncodeTypeStep
<1>a. \A b : AttrsOf(b)' = AttrsOf(b)
  BY DEF AttrsOf, Values
<1> DEFINE Decoding ==
      /\ type \in DOMAIN Slices /\ lines \in Seq(Line) /\ n \in 1..(Len(lines) + 1)
      /\ DOMAIN vmx \subseteq Key /\ (\A k \in DOMAIN vmx : vmx[k] \in Text)
      /\ slice \in 1..(Len(Slices[type]) + 1) /\ seen \subseteq Seq(Nat)
      /\ (leaves # <<>> => DOMAIN leaves = Leaves[type])
      /\ DOMAIN devs = Bus /\ DOMAIN slack = Bus
      /\ (\A b \in Bus : devs[b] \in Seq([at: Seq(Nat), attrs: AttrsOf(b)])
                         /\ slack[b] \in AttrsOf(b))
      /\ failed \in BOOLEAN /\ pc \in {"encode", "load", "slice", "done"}
      /\ result \in {"none", "ok", "error", "panic"} /\ mac \in Text
<1>1. SUFFICES Decoding'
  BY <1>e DEF TypeOK, EncodeType
<1>2. CASE EncodeLeaves \/ EncodeDevice \/ WriteField \/ NextArray \/ EncodeEnds
  <2>1. /\ UNCHANGED <<type, n, vmx, slice, seen, leaves, devs, slack, failed, result, mac>>
        /\ pc' \in {"encode", "load"} /\ pc = "encode"
    BY <1>2, EncoderSteps DEF decodeVars
  <2>2. n = 1
    BY <2>1 DEF StartInv
  <2>3. lines' \in Seq(Line)
    <3>1. CASE WriteField
      <4> DEFINE f == CHOOSE f \in fields : TRUE
      <4>1. f \in fields /\ lines' = lines \o LinesOfField(f)
        BY <3>1 DEF WriteField
      <4> HIDE DEF f
      <4>2. LinesOfField(f) \in Seq(Line)
        BY <4>1, FieldLines DEF TypeOK
      <4> QED
        BY <1>0, <4>1, <4>2
    <3>2. CASE EncodeLeaves \/ EncodeDevice \/ NextArray \/ EncodeEnds
      BY <1>0, <3>2 DEF EncodeLeaves, EncodeDevice, NextArray, EncodeEnds
    <3> QED
      BY <1>2, <3>1, <3>2
  <2>4. n' \in 1..(Len(lines') + 1)
    BY <2>1, <2>2, <2>3
  <2> QED
    BY <1>0, <2>1, <2>3, <2>4, <1>a
<1>3. CASE SkipLine /\ UNCHANGED encodeVars
  <2>1. /\ UNCHANGED <<type, lines, pc, vmx, slice, seen, leaves, devs, slack, failed, result, mac>>
        /\ n' = n + 1 /\ n <= Len(lines)
    BY <1>3 DEF SkipLine, Scan
  <2>2. n' \in 1..(Len(lines') + 1)
    BY <1>0, <1>00, <2>1
  <2> QED
    BY <1>0, <2>1, <2>2, <1>a
<1>4. CASE PutLine /\ UNCHANGED encodeVars
  <2>1. /\ UNCHANGED <<type, lines, pc, slice, seen, leaves, devs, slack, failed, result, mac>>
        /\ n' = n + 1 /\ n <= Len(lines) /\ lines[n].kind = "entry"
        /\ vmx' = Put(lines[n].key, TextOf(lines[n]))
    BY <1>4 DEF PutLine, Scan
  <2>2. n' \in 1..(Len(lines') + 1) /\ lines[n] \in Line
    BY <1>0, <1>00, <2>1
  <2>3. lines[n].key \in Key /\ lines[n].text \in Text
    BY <2>1, <2>2 DEF Line
  <2>4. TextOf(lines[n]) \in Text
    <3>1. Unquote \in [Text -> Text]
      BY ConstantsAssumption
    <3> QED
      BY <2>3, <3>1 DEF TextOf
  <2>5. DOMAIN vmx' \subseteq Key /\ \A k \in DOMAIN vmx' : vmx'[k] \in Text
    BY <1>0, <2>1, <2>3, <2>4 DEF Put
  <2> QED
    BY <1>0, <2>1, <2>2, <2>5, <1>a
<1>5. CASE (BrokenLine \/ LongLine) /\ UNCHANGED encodeVars
  <2>1. /\ UNCHANGED <<type, lines, n, vmx, slice, seen, leaves, devs, slack, failed, mac>>
        /\ pc' = "done" /\ result' \in {"error", "panic"}
    BY <1>5 DEF BrokenLine, LongLine, Stop
  <2> QED
    BY <1>0, <2>1, <1>a
<1>6. CASE DecodeLeaves /\ UNCHANGED encodeVars
  <2>1. /\ UNCHANGED <<type, lines, n, vmx, slice, seen, devs, slack, result, mac>>
        /\ pc' = "slice" /\ failed' \in BOOLEAN /\ DOMAIN leaves' = Leaves[type]
    BY <1>6 DEF DecodeLeaves
  <2> QED
    BY <1>0, <2>1, <1>a
<1>7. CASE DecodeDevice /\ UNCHANGED encodeVars
  <2> DEFINE b == bus
  <2>1. /\ UNCHANGED <<type, lines, n, vmx, slice, leaves, pc, result, mac>>
        /\ slice \in DOMAIN Slices[type]
    BY <1>7, <1>0, <1>00 DEF DecodeDevice, AtSlice
  <2>2. b \in Bus
    BY <1>0, <2>1, SlicesOnce DEF bus
  <2> DEFINE ok(at) == \A a \in DOMAIN Attrs[b] : ~Fails(Attrs[b][a], Value(b, at, a))
             d(at)  == Decoded(b, at, slack[b])
  <2>3. PICK at \in Indexes(b) \ seen :
          /\ seen' = seen \cup {at}
          /\ devs' = IF ok(at) THEN [devs EXCEPT ![b] = Append(@, [at |-> at, attrs |-> d(at)])]
                               ELSE devs
          /\ slack' = [slack EXCEPT ![b] = IF ok(at) THEN ZeroDevice(b) ELSE d(at)]
          /\ failed' = (failed \/ ~ok(at))
    BY <1>7 DEF DecodeDevice
  <2>4. at \in Seq(Nat)
    BY <1>0, <2>3 DEF Indexes, Key
  <2>5. d(at) \in AttrsOf(b) /\ ZeroDevice(b) \in AttrsOf(b)
    BY <1>0, <2>2, DecodedType, ZeroType
  <2>6. failed' \in BOOLEAN /\ seen' \subseteq Seq(Nat)
    BY <1>0, <2>3, <2>4
  <2> HIDE DEF b, ok, d
  <2>7. DOMAIN devs' = Bus /\ DOMAIN slack' = Bus
    BY <1>0, <2>3
  <2>8. ASSUME NEW c \in Bus
        PROVE  devs'[c] \in Seq([at: Seq(Nat), attrs: AttrsOf(c)]) /\ slack'[c] \in AttrsOf(c)
    <3>1. CASE c = b
      <4>1. [at |-> at, attrs |-> d(at)] \in [at: Seq(Nat), attrs: AttrsOf(c)]
        BY <2>4, <2>5, <3>1
      <4>2. devs'[c] = devs[c] \/ devs'[c] = Append(devs[c], [at |-> at, attrs |-> d(at)])
        BY <1>0, <2>3, <3>1
      <4>3. slack'[c] = ZeroDevice(b) \/ slack'[c] = d(at)
        BY <1>0, <2>2, <2>3, <3>1
      <4>4. devs[c] \in Seq([at: Seq(Nat), attrs: AttrsOf(c)])
        BY <1>0
      <4>5. devs'[c] \in Seq([at: Seq(Nat), attrs: AttrsOf(c)])
        <5> DEFINE E == [at: Seq(Nat), attrs: AttrsOf(c)]
                   e == [at |-> at, attrs |-> d(at)]
        <5>1. e \in E /\ devs[c] \in Seq(E) /\ (devs'[c] = devs[c] \/ devs'[c] = Append(devs[c], e))
          BY <4>1, <4>2, <4>4
        <5> HIDE DEF E, e
        <5>2. Append(devs[c], e) \in Seq(E)
          BY <5>1, AppendProperties
        <5>3. devs'[c] \in Seq(E)
          BY <5>1, <5>2, Zenon
        <5> QED
          BY <5>3 DEF E
      <4> QED
        BY <2>5, <3>1, <4>3, <4>5
    <3>2. CASE c # b
      <4>1. devs'[c] = devs[c] /\ slack'[c] = slack[c]
        BY <1>0, <2>3, <3>2
      <4> QED
        BY <1>0, <4>1
    <3> QED
      BY <3>1, <3>2
  <2> QED
    BY <1>0, <2>1, <2>6, <2>7, <2>8, <1>a
<1>8. CASE NextSlice /\ UNCHANGED encodeVars
  <2>1. /\ UNCHANGED <<type, lines, n, vmx, leaves, devs, slack, failed, pc, result, mac>>
        /\ slice' = slice + 1 /\ seen' = {} /\ slice <= Len(Slices[type])
    BY <1>8 DEF NextSlice, AtSlice
  <2>2. slice' \in 1..(Len(Slices[type'])+ 1)
    BY <1>0, <1>00, <2>1
  <2> QED
    BY <1>0, <2>1, <2>2, <1>a
<1>9. CASE DecodeEnds /\ UNCHANGED encodeVars
  <2>1. /\ UNCHANGED <<type, lines, n, vmx, slice, seen, leaves, devs, slack, failed>>
        /\ pc' = "done" /\ result' \in {"error", "ok"}
        /\ mac' = MACOf(devs["ethernet"]) \/ mac' = mac
    BY <1>9 DEF DecodeEnds, Stop
  <2>2. mac' \in Text
    BY <1>0, <2>1, MACType DEF Bus
  <2> QED
    BY <1>0, <2>1, <2>2, <1>a
<1> QED
  BY <1>2, <1>3, <1>4, <1>5, <1>6, <1>7, <1>8, <1>9 DEF CodecNext, Decode
-----------------------------------------------------------------------------
(* What is read from the map changes only with the map.                    *)
LEMMA MapKept ==
  ASSUME UNCHANGED <<vmx, type>>
  PROVE  /\ \A of, at, attr : Value(of, at, attr)' = Value(of, at, attr)
         /\ \A b : Indexes(b)' = Indexes(b)
         /\ \A b, at : Made(b, at)' = Made(b, at)
         /\ \A b, S : Bad(b, S)' <=> Bad(b, S)
         /\ BadLeaf' <=> BadLeaf
<1>1. \A of, at, attr : Value(of, at, attr)' = Value(of, at, attr)
  <2>1. vmx' = vmx
    OBVIOUS
  <2> QED
    BY <2>1, Zenon DEF Value
<1>2. \A b : Indexes(b)' = Indexes(b)
  BY DEF Indexes
<1>3. \A b, at : Made(b, at)' = Made(b, at)
  BY <1>1 DEF Made
<1>4. \A b, S : Bad(b, S)' <=> Bad(b, S)
  BY <1>1 DEF Bad
<1>5. BadLeaf' <=> BadLeaf
  BY <1>1 DEF BadLeaf
<1> QED
  BY <1>1, <1>2, <1>3, <1>4, <1>5

(* What a sequence holds when one element is appended.                     *)
LEMMA AppendSet ==
  ASSUME NEW S, NEW s \in Seq(S), NEW e
  PROVE  ToSet(Append(s, e)) = ToSet(s) \cup {e} /\ Len(Append(s, e)) = Len(s) + 1
<1>1. /\ DOMAIN Append(s, e) = 1..(Len(s) + 1) /\ DOMAIN s = 1..Len(s) /\ Len(s) \in Nat
      /\ Len(Append(s, e)) = Len(s) + 1
  OBVIOUS
<1>2. \A k \in DOMAIN s : Append(s, e)[k] = s[k]
  OBVIOUS
<1>3. Append(s, e)[Len(s) + 1] = e
  OBVIOUS
<1>4. 1..(Len(s) + 1) = (1..Len(s)) \cup {Len(s) + 1}
  BY <1>1
<1> QED
  BY <1>1, <1>2, <1>3, <1>4 DEF ToSet

(* A device that decodes is the one that is meant, in memory left clean.   *)
LEMMA DecodedFresh ==
  ASSUME NEW b \in Bus, NEW at,
         \A a \in DOMAIN Attrs[b] : ~Fails(Attrs[b][a], Value(b, at, a))
  PROVE  [at |-> at, attrs |-> Decoded(b, at, ZeroDevice(b))] = Made(b, at)
<1>1. \A a \in DOMAIN Attrs[b] :
        Reflected(Attrs[b][a], Value(b, at, a), Zero(Attrs[b][a])) = Meant(Attrs[b][a], Value(b, at, a))
  BY AttrTypes, FreshField
<1> QED
  BY <1>1 DEF Decoded, ZeroDevice, Made

(* The leaves are decoded, and nothing else yet.                           *)
LEMMA FillLeaves ==
  ASSUME TypeOK, StartInv, DecodeLeaves
  PROVE  FillInv'
<1>1. /\ UNCHANGED <<type, lines, n, vmx, slice, seen, devs, slack>>
      /\ leaves' = [l \in Leaves[type] |->
                      Reflected(l.type, Value(l.of, <<>>, l.attr), Zero(l.type))]
      /\ failed' = \E l \in Leaves[type] : Fails(l.type, Value(l.of, <<>>, l.attr))
  BY DEF DecodeLeaves
<1>2. /\ slice = 1 /\ seen = {}
      /\ \A b \in Bus : devs[b] = <<>> /\ slack[b] = ZeroDevice(b)
  BY DEF StartInv, DecodeLeaves
<1>3. /\ type \in DOMAIN Slices /\ DOMAIN Slices[type] = 1..Len(Slices[type])
      /\ \A s \in DOMAIN Slices[type] : s \in Nat /\ s >= 1 /\ Slices[type][s] \in Bus
  BY SlicesOnce DEF TypeOK
<1>4. \A s \in DOMAIN Slices[type] : Done(s)' = {}
  BY <1>1, <1>2, <1>3 DEF Done
<1>5. leaves' = [l \in Leaves[type]' |->
                   Reflected(l.type, Value(l.of, <<>>, l.attr)', Zero(l.type))]
  BY <1>1, MapKept
<1>6. failed' <=> BadLeaf'
  BY <1>1, MapKept DEF BadLeaf
<1>7. \A s \in DOMAIN Slices[type] : ~Bad(Slices[type][s], Done(s))'
  BY <1>4 DEF Bad
<1>8. \A s \in DOMAIN Slices[type] :
        Done(s)' \subseteq Indexes(Slices[type][s])' /\ IsFiniteSet(Done(s)')
  BY <1>4, FS_EmptySet
<1>9. ASSUME NEW s \in DOMAIN Slices[type]
      PROVE  Filled(Slices[type][s], Done(s))'
  <2> DEFINE b == Slices[type][s]
  <2>1. slack'[b] = ZeroDevice(b) /\ devs'[b] = <<>>
    BY <1>1, <1>2, <1>3
  <2>2. Done(s)' = {} /\ Cardinality({}) = 0
    BY <1>4, FS_EmptySet
  <2> HIDE DEF b
  <2>3. ToSet(devs'[b]) = {} /\ Len(devs'[b]) = 0
    BY <2>1 DEF ToSet
  <2>4. {Made(b, at)' : at \in Done(s)'} = {}
    BY <2>2
  <2> QED
    <3>1. Slices[type'][s] = b
      BY <1>1 DEF b
    <3> QED
      BY <2>1, <2>2, <2>3, <2>4, <3>1 DEF Filled, ZeroDevice
<1> QED
  BY <1>1, <1>5, <1>6, <1>7, <1>8, <1>9 DEF FillInv

(* One device more.                                                        *)
LEMMA FillDevice ==
  ASSUME TypeOK, FillInv, Loaded, DecodeDevice
  PROVE  FillInv'
<1> DEFINE b == bus
           ok(at) == \A a \in DOMAIN Attrs[b] : ~Fails(Attrs[b][a], Value(b, at, a))
           d(at)  == Decoded(b, at, slack[b])
<1>0. /\ type \in DOMAIN Slices /\ DOMAIN devs = Bus /\ DOMAIN slack = Bus
      /\ DOMAIN Slices[type] = 1..Len(Slices[type]) /\ Len(Slices[type]) \in Nat
      /\ slice \in 1..(Len(Slices[type]) + 1)
  BY SlicesOnce DEF TypeOK
<1>1. /\ UNCHANGED <<type, lines, n, vmx, slice, leaves>>
      /\ slice \in DOMAIN Slices[type]
  BY <1>0 DEF DecodeDevice, AtSlice
<1>2. PICK at \in Indexes(b) \ seen :
        /\ seen' = seen \cup {at}
        /\ devs' = IF ok(at) THEN [devs EXCEPT ![b] = Append(@, [at |-> at, attrs |-> d(at)])]
                             ELSE devs
        /\ slack' = [slack EXCEPT ![b] = IF ok(at) THEN ZeroDevice(b) ELSE d(at)]
        /\ failed' = (failed \/ ~ok(at))
  BY DEF DecodeDevice
<1>3. b = Slices[type][slice] /\ b \in Bus /\ b' = b
  BY <1>0, <1>1, SlicesOnce DEF bus
<1> HIDE DEF b
<1>4. /\ Done(slice) = seen
      /\ Done(slice)' = Done(slice) \cup {at}
      /\ \A s \in DOMAIN Slices[type] : s # slice => Done(s)' = Done(s) /\ Slices[type][s] # b
  <2>1. \A s : Indexes(Slices[type][s])' = Indexes(Slices[type][s])
    BY <1>1, MapKept
  <2>2. slice \in Nat /\ \A s \in DOMAIN Slices[type] : s \in Nat
    BY <1>0
  <2>3. \A s \in DOMAIN Slices[type] : s # slice => Slices[type][s] # b
    BY <1>0, <1>1, <1>3, SlicesOnce
  <2> QED
    BY <1>1, <1>2, <2>1, <2>2, <2>3 DEF Done
<1>5. leaves' = [l \in Leaves[type]' |->
                   Reflected(l.type, Value(l.of, <<>>, l.attr)', Zero(l.type))]
  BY <1>1, MapKept DEF FillInv
<1>6. failed' <=> BadLeaf' \/ \E s \in DOMAIN Slices[type] : Bad(Slices[type][s], Done(s))'
  <2>1. Bad(b, Done(slice))' <=> Bad(b, Done(slice)) \/ ~ok(at)
    <3>1. Bad(b, Done(slice))' <=> \E x \in Done(slice)' : ~ok(x)
      <4>1. \A c, x, a : Fails(Attrs[c][a], Value(c, x, a))' <=> Fails(Attrs[c][a], Value(c, x, a))
        BY <1>1, MapKept
      <4> QED
        BY <1>3, <4>1 DEF Bad
    <3> QED
      BY <1>4, <3>1 DEF Bad
  <2>2. \A s \in DOMAIN Slices[type] :
          s # slice => (Bad(Slices[type][s], Done(s))' <=> Bad(Slices[type][s], Done(s)))
    BY <1>1, <1>4, MapKept DEF Bad
  <2>3. failed <=> BadLeaf \/ \E s \in DOMAIN Slices[type] : Bad(Slices[type][s], Done(s))
    BY DEF FillInv
  <2>4. BadLeaf' <=> BadLeaf
    BY <1>1, MapKept
  <2>5. Bad(Slices[type][slice], Done(slice))' <=> Bad(Slices[type][slice], Done(slice)) \/ ~ok(at)
    BY <1>1, <1>3, <2>1 DEF Bad
  <2>6. failed' <=> failed \/ ~ok(at)
    BY <1>2
  <2> HIDE DEF ok
  <2> QED
    BY <1>1, <2>2, <2>3, <2>4, <2>5, <2>6, Zenon
<1>7. \A s \in DOMAIN Slices[type] :
        Done(s)' \subseteq Indexes(Slices[type][s])' /\ IsFiniteSet(Done(s)')
  <2>1. \A s \in DOMAIN Slices[type] :
          /\ Done(s) \subseteq Indexes(Slices[type][s]) /\ IsFiniteSet(Done(s))
          /\ Indexes(Slices[type][s])' = Indexes(Slices[type][s])
    BY <1>1, MapKept DEF FillInv
  <2>2. Done(slice)' \subseteq Indexes(b) /\ IsFiniteSet(Done(slice)')
    BY <1>1, <1>2, <1>3, <1>4, <2>1, FS_AddElement
  <2> QED
    BY <1>1, <1>3, <1>4, <2>1, <2>2
<1>8. ASSUME ~failed', NEW s \in DOMAIN Slices[type]
      PROVE  Filled(Slices[type][s], Done(s))'
  <2> DEFINE c == Slices[type][s]
  <2>1. ~failed /\ ok(at)
    BY <1>2, <1>8
  <2>2. /\ slack[c] = ZeroDevice(c) /\ ToSet(devs[c]) = {Made(c, x) : x \in Done(s)}
        /\ Len(devs[c]) = Cardinality(Done(s)) /\ IsFiniteSet(Done(s))
    BY <2>1 DEF FillInv, Filled
  <2>3. c \in Bus
    BY <1>0, SlicesOnce
  <2>4. CASE s = slice
    <3> DEFINE e == [at |-> at, attrs |-> d(at)]
    <3>1. c = b
      BY <1>3, <2>4
    <3>2. slack'[c] = ZeroDevice(c) /\ devs'[c] = Append(devs[c], e)
      BY <1>0, <1>2, <2>1, <2>3, <3>1
    <3>3. e = Made(c, at)
      BY <2>1, <2>2, <2>3, <3>1, DecodedFresh
    <3>4. devs[c] \in Seq([at: Seq(Nat), attrs: AttrsOf(c)])
      BY <2>3 DEF TypeOK
    <3> HIDE DEF e, c
    <3>5. ToSet(devs'[c]) = ToSet(devs[c]) \cup {e} /\ Len(devs'[c]) = Len(devs[c]) + 1
      BY <3>2, <3>4, AppendSet
    <3>6. Done(s)' = Done(s) \cup {at} /\ at \notin Done(s)
      BY <1>1, <1>2, <1>4, <2>4
    <3>7. Cardinality(Done(s)') = Cardinality(Done(s)) + 1
      BY <2>2, <3>6, FS_AddElement
    <3>8. \A x : Made(c, x)' = Made(c, x)
      <4>1. \A u, x : Made(u, x)' = Made(u, x)
        BY <1>1, MapKept
      <4>2. c' = c
        BY <1>1 DEF c
      <4> QED
        BY <4>1, <4>2
    <3>9. ToSet(devs'[c]) = {Made(c, x) : x \in Done(s)'}
      BY <2>2, <3>3, <3>5, <3>6
    <3>10. /\ slack'[c] = ZeroDevice(c) /\ ToSet(devs'[c]) = {Made(c, x)' : x \in Done(s)'}
           /\ Len(devs'[c]) = Cardinality(Done(s)')
      BY <2>2, <3>2, <3>5, <3>7, <3>8, <3>9
    <3>11. Slices[type'][s] = c /\ c' = c
      BY <1>1 DEF c
    <3> QED
      BY <3>10, <3>11 DEF Filled, ZeroDevice
  <2>5. CASE s # slice
    <3>1. c # b /\ Done(s)' = Done(s)
      BY <1>4, <2>5
    <3>2. slack'[c] = slack[c] /\ devs'[c] = devs[c]
      BY <1>0, <1>2, <2>1, <2>3, <3>1
    <3>3. \A u, x : Made(u, x)' = Made(u, x)
      BY <1>1, MapKept
    <3>4. Slices[type'][s] = c
      BY <1>1
    <3> HIDE DEF c
    <3> QED
      BY <2>2, <3>1, <3>2, <3>3, <3>4 DEF Filled, ZeroDevice
  <2> QED
    BY <2>4, <2>5
<1> HIDE DEF ok, d
<1>9. type' = type
  BY <1>1
<1> QED
  BY <1>5, <1>6, <1>7, <1>8, <1>9 DEF FillInv
(* A step that changes nothing of it keeps what is decoded.                *)
LEMMA FillSame ==
  ASSUME FillInv, Loaded,
         UNCHANGED <<type, lines, n, vmx, slice, seen, leaves, devs, slack, failed>>
  PROVE  FillInv'
<1>1. \A s : Done(s)' = Done(s)
  BY MapKept DEF Done
<1>2. leaves' = [l \in Leaves[type]' |->
                   Reflected(l.type, Value(l.of, <<>>, l.attr)', Zero(l.type))]
  BY MapKept DEF FillInv
<1>3. /\ BadLeaf' <=> BadLeaf
      /\ \A s : /\ Bad(Slices[type][s], Done(s))' <=> Bad(Slices[type][s], Done(s))
                /\ Indexes(Slices[type][s])' = Indexes(Slices[type][s])
  BY <1>1, MapKept DEF Bad
<1>4. \A s : Filled(Slices[type][s], Done(s)) => Filled(Slices[type][s], Done(s))'
  <2>1. \A u, x : Made(u, x)' = Made(u, x)
    BY MapKept
  <2> QED
    BY <1>1, <2>1 DEF Filled, ZeroDevice
<1> QED
  BY <1>1, <1>2, <1>3, <1>4 DEF FillInv

(* The next slice: the devices of this one are all decoded.                *)
LEMMA FillNext ==
  ASSUME TypeOK, FillInv, Loaded, NextSlice
  PROVE  FillInv'
<1>0. /\ type \in DOMAIN Slices /\ DOMAIN Slices[type] = 1..Len(Slices[type])
      /\ Len(Slices[type]) \in Nat /\ slice \in Nat
  BY SlicesOnce DEF TypeOK
<1>1. /\ UNCHANGED <<type, lines, n, vmx, leaves, devs, slack, failed>>
      /\ slice \in DOMAIN Slices[type] /\ slice' = slice + 1 /\ seen' = {}
      /\ Indexes(bus) \subseteq seen
  BY <1>0 DEF NextSlice, AtSlice, TypeOK
<1>2. \A s \in DOMAIN Slices[type] : Done(s)' = Done(s)
  <2>1. Indexes(Slices[type][slice]) = seen
    <3>1. Done(slice) = seen
      BY <1>0 DEF Done
    <3> QED
      BY <1>1, <3>1 DEF bus, FillInv
  <2>2. \A s \in DOMAIN Slices[type] : Indexes(Slices[type][s])' = Indexes(Slices[type][s])
    BY <1>1, MapKept
  <2>3. \A s \in DOMAIN Slices[type] : s \in Nat
    BY <1>0
  <2> QED
    BY <1>0, <1>1, <2>1, <2>2, <2>3 DEF Done
<1>3. leaves' = [l \in Leaves[type]' |->
                   Reflected(l.type, Value(l.of, <<>>, l.attr)', Zero(l.type))]
  BY <1>1, MapKept DEF FillInv
<1>4. /\ BadLeaf' <=> BadLeaf
      /\ \A s \in DOMAIN Slices[type] :
           /\ Bad(Slices[type][s], Done(s))' <=> Bad(Slices[type][s], Done(s))
           /\ Indexes(Slices[type][s])' = Indexes(Slices[type][s])
  BY <1>1, <1>2, MapKept DEF Bad
<1>5. \A s \in DOMAIN Slices[type] :
        Filled(Slices[type][s], Done(s)) => Filled(Slices[type][s], Done(s))'
  <2>1. \A u, x : Made(u, x)' = Made(u, x)
    BY <1>1, MapKept
  <2> QED
    BY <1>1, <1>2, <2>1 DEF Filled, ZeroDevice
<1> QED
  BY <1>1, <1>2, <1>3, <1>4, <1>5 DEF FillInv

(* The structure holds what has been decoded.                              *)
LEMMA FillStep ==
  ASSUME TypeOK, StartInv, FillInv, EndInv, CodecNext
  PROVE  FillInv'
<1>1. CASE EncodeLeaves \/ EncodeDevice \/ WriteField \/ NextArray \/ EncodeEnds
  BY <1>1, EncoderSteps DEF FillInv, Loaded
<1>2. CASE SkipLine \/ PutLine
  <2>1. pc' = "load"
    BY <1>2 DEF SkipLine, PutLine, Scan
  <2> QED
    BY <2>1 DEF FillInv, Loaded
<1>3. CASE BrokenLine \/ LongLine
  <2>1. n <= Len(lines) /\ UNCHANGED <<n, lines>> /\ n \in Nat /\ Len(lines) \in Nat
    BY <1>3 DEF BrokenLine, LongLine, Scan, TypeOK
  <2>2. ~Loaded'
    BY <2>1 DEF Loaded
  <2> QED
    BY <2>2 DEF FillInv
<1>4. CASE DecodeLeaves
  BY <1>4, FillLeaves
<1>5. CASE DecodeDevice
  <2>1. Loaded
    BY <1>5 DEF DecodeDevice, AtSlice, Loaded, EndInv
  <2> QED
    BY <1>5, <2>1, FillDevice
<1>6. CASE NextSlice
  <2>1. Loaded
    BY <1>6 DEF NextSlice, AtSlice, Loaded, EndInv
  <2> QED
    BY <1>6, <2>1, FillNext
<1>7. CASE DecodeEnds
  <2>1. Loaded
    BY <1>7 DEF DecodeEnds, Loaded, EndInv
  <2>2. UNCHANGED <<type, lines, n, vmx, slice, seen, leaves, devs, slack, failed>>
    BY <1>7 DEF DecodeEnds
  <2> QED
    BY <2>1, <2>2, FillSame
<1> QED
  BY <1>1, <1>2, <1>3, <1>4, <1>5, <1>6, <1>7 DEF CodecNext, Decode

(* How the program stops, and with which address.                          *)
LEMMA EndStep ==
  ASSUME TypeOK, EndInv, CodecNext
  PROVE  EndInv'
<1>1. CASE EncodeLeaves \/ EncodeDevice \/ WriteField \/ NextArray \/ EncodeEnds
  BY <1>1, EncoderSteps DEF EndInv, decodeVars
<1>2. CASE SkipLine \/ PutLine
  <2>1. pc = "load" /\ pc' = "load" /\ mac' = mac
    BY <1>2 DEF SkipLine, PutLine, Scan
  <2> QED
    BY <2>1 DEF EndInv
<1>3. CASE BrokenLine \/ LongLine
  <2>1. /\ n <= Len(lines) /\ UNCHANGED <<n, lines>> /\ n \in Nat /\ Len(lines) \in Nat /\ pc' = "done"
        /\ \/ lines[n].kind = "broken" /\ result' = "panic"
           \/ lines[n].kind = "long" /\ result' = "error"
    BY <1>3 DEF BrokenLine, LongLine, Scan, Stop, TypeOK
  <2>2. ~(n > Len(lines))
    BY <2>1
  <2> QED
    BY <2>1, <2>2 DEF EndInv
<1>4. CASE DecodeLeaves
  <2>1. pc = "load" /\ n > Len(lines) /\ UNCHANGED <<n, lines, mac>> /\ pc' = "slice"
    BY <1>4 DEF DecodeLeaves
  <2> QED
    BY <2>1 DEF EndInv
<1>5. CASE DecodeDevice \/ NextSlice
  <2>1. pc = "slice" /\ UNCHANGED <<n, lines, mac, pc>>
    BY <1>5 DEF DecodeDevice, NextSlice, AtSlice
  <2> QED
    BY <2>1 DEF EndInv
<1>6. CASE DecodeEnds
  <2>1. /\ pc = "slice" /\ slice > Len(Slices[type]) /\ pc' = "done"
        /\ UNCHANGED <<type, lines, n, slice, devs, failed>>
        /\ result' = IF failed THEN "error" ELSE "ok"
        /\ ~failed /\ type = "VMXFile" => mac' = MACOf(devs["ethernet"])
    BY <1>6 DEF DecodeEnds, Stop
  <2>2. n > Len(lines) /\ n \in Nat /\ Len(lines) \in Nat
    BY <2>1 DEF EndInv, TypeOK
  <2>3. ~(n <= Len(lines))
    BY <2>2
  <2>4. MACOf(devs["ethernet"])' = MACOf(devs["ethernet"])
    <3>1. devs' = devs
      BY <2>1
    <3> QED
      BY <3>1 DEF MACOf, MAC
  <2> QED
    BY <2>1, <2>2, <2>3, <2>4 DEF EndInv
<1> QED
  BY <1>1, <1>2, <1>3, <1>4, <1>5, <1>6 DEF CodecNext, Decode

(* A step that changes nothing keeps the invariant.                        *)
LEMMA Stutter ==
  ASSUME Inv, UNCHANGED allVars
  PROVE  Inv'
<1>1. /\ UNCHANGED <<type, lines, pc, n, vmx, slice, seen, leaves, devs, slack>>
      /\ UNCHANGED <<failed, result, mac, machine, array, i, adapters, devices, fields>>
  BY DEF allVars, vars, decodeVars, encodeVars
<1>2. TypeOK'
  BY <1>1 DEF Inv, TypeOK, encoded
<1>3. StartInv' /\ CountInv'
  BY <1>1 DEF Inv, StartInv, CountInv, encoded
<1>4. LoadInv'
  BY <1>1 DEF Inv, LoadInv, Puts, TextOf
<1>5. FillInv'
  <2>1. CASE Loaded
    BY <1>1, <2>1, FillSame DEF Inv
  <2>2. CASE ~Loaded
    BY <1>1, <2>2 DEF FillInv, Loaded
  <2> QED
    BY <2>1, <2>2
<1>6. EndInv'
  <2>1. MACOf(devs["ethernet"])' = MACOf(devs["ethernet"])
    BY <1>1 DEF MACOf, MAC
  <2> QED
    BY <1>1, <2>1 DEF Inv, EndInv
<1> QED
  BY <1>2, <1>3, <1>4, <1>5, <1>6 DEF Inv

(* Every reachable state satisfies the invariant.                          *)
THEOREM Invariant == CodecSpec => []Inv
<1>1. Inv /\ [CodecNext]_allVars => Inv'
  <2> SUFFICES ASSUME Inv, [CodecNext]_allVars PROVE Inv'
    OBVIOUS
  <2>1. CASE CodecNext
    <3>1. TypeOK' /\ StartInv' /\ CountInv'
      BY <2>1, TypeStep, StartStep, CountStep DEF Inv
    <3>2. LoadInv' /\ FillInv' /\ EndInv'
      BY <2>1, LoadStep, FillStep, EndStep DEF Inv
    <3> QED
      BY <3>1, <3>2 DEF Inv
  <2>2. CASE UNCHANGED allVars
    BY <2>2, Stutter
  <2> QED
    BY <2>1, <2>2
<1> QED
  BY <1>1, InitInv, PTL DEF CodecSpec
(* The variables keep their types, and the adapter and the device an      *)
(* encoder is at, the bounds of the hardware.                              *)
THEOREM TypeCorrect == CodecSpec => []TypeOK
<1>1. Inv => TypeOK
  BY DEF Inv
<1> QED
  BY <1>1, Invariant, PTL
-----------------------------------------------------------------------------
(* When all lines are loaded, the map says what the lines say.             *)
LEMMA LoadedAsWritten ==
  ASSUME TypeOK, LoadInv, n > Len(lines)
  PROVE  /\ \A of, at, attr : Value(of, at, attr) = Written(of, at, attr)
         /\ \A b : Indexes(b) = DevicesIn(b)
         /\ Stops = {}
<1>1. /\ n \in Nat /\ Len(lines) \in Nat /\ n = Len(lines) + 1 /\ DOMAIN lines = 1..(n - 1)
      /\ \A j \in DOMAIN lines : j \in Nat
  BY DEF TypeOK
<1>2. ASSUME NEW of, NEW at, NEW attr
      PROVE  Value(of, at, attr) = Written(of, at, attr)
  <2> DEFINE k == [of |-> of, at |-> at, attr |-> attr]
             found == LinesOf(of, at, attr)
  <2>1. found = {j \in DOMAIN lines : Puts(j, k)}
    BY DEF LinesOf, Puts
  <2>2. /\ Value(of, at, attr) = IF k \in DOMAIN vmx THEN vmx[k] ELSE Blank
        /\ Written(of, at, attr) =
             IF found = {} THEN Blank ELSE TextOf(lines[CHOOSE j \in found : \A l \in found : l <= j])
    BY Zenon DEF Value, Written, Blank
  <2> HIDE DEF k, found
  <2>3. CASE k \in DOMAIN vmx
    <3>1. PICK j \in 1..(n - 1) : /\ Puts(j, k) /\ vmx[k] = TextOf(lines[j])
                                  /\ \A l \in 1..(n - 1) : Puts(l, k) => l <= j
      BY <2>3 DEF LoadInv
    <3>2. j \in found /\ \A l \in found : l <= j
      BY <1>1, <2>1, <3>1
    <3>3. \A m \in found : (\A l \in found : l <= m) => m = j
      BY <1>1, <2>1, <3>2
    <3>4. (CHOOSE m \in found : \A l \in found : l <= m) = j
      BY <3>2, <3>3
    <3> QED
      BY <2>2, <2>3, <3>1, <3>2, <3>4
  <2>4. CASE k \notin DOMAIN vmx
    <3>1. found = {}
      BY <1>1, <2>1, <2>4 DEF LoadInv, Puts
    <3> QED
      BY <2>2, <2>4, <3>1
  <2> QED
    BY <2>3, <2>4
<1>3. ASSUME NEW b
      PROVE  Indexes(b) = DevicesIn(b)
  <2>1. ASSUME NEW k \in DOMAIN vmx, k.of = b
        PROVE  k.at \in DevicesIn(b)
    <3>1. PICK j \in 1..(n - 1) : Puts(j, k)
      BY DEF LoadInv
    <3> QED
      BY <1>1, <2>1, <3>1 DEF DevicesIn, Puts
  <2>2. ASSUME NEW j \in DOMAIN lines, lines[j].kind = "entry", lines[j].key.of = b
        PROVE  lines[j].key.at \in Indexes(b)
    <3>1. lines[j].key \in DOMAIN vmx
      BY <1>1, <2>2 DEF LoadInv
    <3> QED
      BY <2>2, <3>1 DEF Indexes
  <2> QED
    BY <2>1, <2>2 DEF Indexes, DevicesIn
<1>4. Stops = {}
  BY <1>1 DEF LoadInv, Stops
<1> QED
  BY <1>2, <1>3, <1>4

(* The decoder that ends without an error has decoded what is written.     *)
LEMMA EndedAsWritten ==
  ASSUME Inv, pc = "done", n > Len(lines)
  PROVE  /\ failed <=> ~Sound
         /\ ~failed => DecodedAsWritten
<1>1. /\ \A of, at, attr : Value(of, at, attr) = Written(of, at, attr)
      /\ \A b : Indexes(b) = DevicesIn(b)
  BY LoadedAsWritten DEF Inv
<1>2. /\ type \in DOMAIN Slices /\ slice \in Nat /\ Len(Slices[type]) \in Nat
      /\ DOMAIN Slices[type] = 1..Len(Slices[type])
      /\ slice > Len(Slices[type])
  BY SlicesOnce DEF Inv, EndInv, TypeOK
<1>3. \A s \in DOMAIN Slices[type] : Done(s) = DevicesIn(Slices[type][s])
  BY <1>1, <1>2 DEF Done
<1>4. Loaded
  BY DEF Loaded
<1>5. failed <=> ~Sound
  <2>1. failed <=> BadLeaf \/ \E s \in DOMAIN Slices[type] : Bad(Slices[type][s], Done(s))
    BY <1>4 DEF Inv, FillInv
  <2>2. BadLeaf <=> \E l \in Leaves[type] : Fails(l.type, Written(l.of, <<>>, l.attr))
    BY <1>1 DEF BadLeaf
  <2>3. \A s \in DOMAIN Slices[type] :
          Bad(Slices[type][s], Done(s)) <=>
            LET b == Slices[type][s]
            IN  \E at \in DevicesIn(b) : \E a \in DOMAIN Attrs[b] : Fails(Attrs[b][a], Written(b, at, a))
    BY <1>1, <1>3 DEF Bad
  <2> QED
    BY <2>1, <2>2, <2>3 DEF Sound, BusesOf
<1>6. ASSUME ~failed
      PROVE  DecodedAsWritten
  <2>1. /\ leaves = [l \in Leaves[type] |->
                       Reflected(l.type, Value(l.of, <<>>, l.attr), Zero(l.type))]
        /\ \A s \in DOMAIN Slices[type] : Filled(Slices[type][s], Done(s))
    BY <1>4, <1>6 DEF Inv, FillInv
  <2>2. ASSUME NEW l \in Leaves[type]
        PROVE  leaves[l] = Meant(l.type, Written(l.of, <<>>, l.attr))
    <3>1. ~Fails(l.type, Written(l.of, <<>>, l.attr)) /\ l.type \in FieldTypes
      BY <1>2, <1>5, <1>6, LeafTypes DEF Sound
    <3>2. leaves[l] = Reflected(l.type, Written(l.of, <<>>, l.attr), Zero(l.type))
      BY <1>1, <2>1
    <3> QED
      BY <3>1, <3>2, FreshField
  <2>3. ASSUME NEW s \in DOMAIN Slices[type]
        PROVE  LET b == Slices[type][s]
               IN  /\ ToSet(devs[b]) =
                        {[at |-> at, attrs |-> [a \in DOMAIN Attrs[b] |->
                                                  Meant(Attrs[b][a], Written(b, at, a))]] :
                           at \in DevicesIn(b)}
                   /\ Len(devs[b]) = Cardinality(DevicesIn(b))
    <3> DEFINE b == Slices[type][s]
    <3>1. /\ ToSet(devs[b]) = {Made(b, at) : at \in DevicesIn(b)}
          /\ Len(devs[b]) = Cardinality(DevicesIn(b))
      BY <1>3, <2>1 DEF Filled
    <3>2. \A at : Made(b, at) = [at |-> at, attrs |-> [a \in DOMAIN Attrs[b] |->
                                   Meant(Attrs[b][a], Written(b, at, a))]]
      BY <1>1 DEF Made
    <3> HIDE DEF b
    <3>3. ToSet(devs[b]) = {[at |-> at, attrs |-> [a \in DOMAIN Attrs[b] |->
                                                  Meant(Attrs[b][a], Written(b, at, a))]] :
                           at \in DevicesIn(b)}
      BY <3>1, <3>2, Zenon
    <3> QED
      BY <3>1, <3>3 DEF b
  <2> QED
    BY <2>2, <2>3 DEF DecodedAsWritten, BusesOf
<1> QED
  BY <1>5, <1>6
-----------------------------------------------------------------------------
(* A file is refused, or makes the program panic, exactly as its lines say,*)
(* whatever order its devices are met in.                                  *)
THEOREM Outcomes == CodecSpec => []OutcomeOfFile
<1>1. Inv => OutcomeOfFile
  <2> SUFFICES ASSUME Inv, pc = "done"
               PROVE  result = IF Stops # {}
                               THEN IF lines[FirstStop].kind = "broken" THEN "panic" ELSE "error"
                               ELSE IF Sound THEN "ok" ELSE "error"
    BY DEF OutcomeOfFile
  <2>1. n \in Nat /\ n >= 1 /\ Len(lines) \in Nat /\ DOMAIN lines = 1..Len(lines)
    BY DEF Inv, TypeOK
  <2>2. CASE n <= Len(lines)
    <3>1. \/ lines[n].kind = "broken" /\ result = "panic"
          \/ lines[n].kind = "long" /\ result = "error"
      BY <2>2 DEF Inv, EndInv
    <3>2. n \in Stops
      BY <2>1, <2>2, <3>1 DEF Stops
    <3>3. \A j \in Stops : n <= j /\ j \in Nat
      BY <2>1 DEF Inv, LoadInv, Stops
    <3>4. FirstStop = n
      <4>1. \A m \in Stops : (\A j \in Stops : m <= j) => m = n
        BY <2>1, <3>2, <3>3
      <4> QED
        BY <3>2, <3>3, <4>1 DEF FirstStop
    <3> QED
      BY <3>1, <3>2, <3>4
  <2>3. CASE n > Len(lines)
    <3>1. Stops = {}
      BY <2>3, LoadedAsWritten DEF Inv
    <3>2. result = IF failed THEN "error" ELSE "ok"
      BY <2>3 DEF Inv, EndInv
    <3>3. failed <=> ~Sound
      BY <2>3, EndedAsWritten
    <3> QED
      BY <3>1, <3>2, <3>3
  <2> QED
    BY <2>1, <2>2, <2>3
<1> QED
  BY <1>1, Invariant, PTL

(* Without an error, all lines are loaded and every value is decoded.      *)
LEMMA OkDecoded ==
  ASSUME Inv, pc = "done", result = "ok"
  PROVE  n > Len(lines) /\ ~failed /\ DecodedAsWritten
<1>1. n \in Nat /\ Len(lines) \in Nat
  BY DEF Inv, TypeOK
<1>2. ~(n <= Len(lines))
  BY DEF Inv, EndInv
<1>3. n > Len(lines)
  BY <1>1, <1>2
<1>4. ~failed
  BY <1>3 DEF Inv, EndInv
<1> QED
  BY <1>3, <1>4, EndedAsWritten

(* A structure decoded without an error holds what the file says: every    *)
(* device once, with its own values and nothing left over from another,    *)
(* although each is decoded into memory that another may have used.        *)
THEOREM Decoding == CodecSpec => []DecodedAsWritten
<1>1. Inv => DecodedAsWritten
  BY OkDecoded DEF DecodedAsWritten
<1> QED
  BY <1>1, Invariant, PTL

(* The address of one network device of the file, Blank for none.          *)
AddressOf(at) ==
  CASE Written("ethernet", at, "addresstype") = "generated" ->
         Written("ethernet", at, "generatedaddress")
    [] Written("ethernet", at, "addresstype") = "static" -> Written("ethernet", at, "address")
    [] OTHER -> Blank

(* The addresses in the file are those of its network devices.             *)
LEMMA AddressesIn ==
  /\ \A at \in DevicesIn("ethernet") : AddressOf(at) # Blank => AddressOf(at) \in MACsIn
  /\ \A x \in MACsIn : \E at \in DevicesIn("ethernet") : x = AddressOf(at) /\ x # Blank
<1> DEFINE W(at) == CASE Written("ethernet", at, "addresstype") = "generated" ->
                           {Written("ethernet", at, "generatedaddress")}
                      [] Written("ethernet", at, "addresstype") = "static" ->
                           {Written("ethernet", at, "address")}
                      [] OTHER -> {}
<1>1. \A x : x \in MACsIn <=> x # Blank /\ \E at \in DevicesIn("ethernet") : x \in W(at)
  <2>1. MACsIn = (UNION {W(at) : at \in DevicesIn("ethernet")}) \ {Blank}
    BY Zenon DEF MACsIn, Blank
  <2> DEFINE U == {W(at) : at \in DevicesIn("ethernet")}
  <2>2. \A w : w \in U <=> \E at \in DevicesIn("ethernet") : w = W(at)
    <3> HIDE DEF W
    <3> QED
      OBVIOUS
  <2> HIDE DEF W
  <2>3. MACsIn = (UNION U) \ {Blank}
    BY <2>1
  <2> HIDE DEF U
  <2>4. \A x : x \in MACsIn <=> x # Blank /\ \E w \in U : x \in w
    BY <2>3
  <2> QED
    BY <2>2, <2>4
<1>2. \A at : /\ AddressOf(at) # Blank => W(at) = {AddressOf(at)}
              /\ \A x \in W(at) : x = AddressOf(at)
  BY DEF AddressOf
<1> HIDE DEF W
<1>3. ASSUME NEW at \in DevicesIn("ethernet"), AddressOf(at) # Blank
      PROVE  AddressOf(at) \in MACsIn
  <2>1. AddressOf(at) \in W(at)
    BY <1>2, <1>3
  <2> QED
    BY <1>1, <1>3, <2>1
<1>4. ASSUME NEW x \in MACsIn
      PROVE  \E at \in DevicesIn("ethernet") : x = AddressOf(at) /\ x # Blank
  <2>1. PICK at \in DevicesIn("ethernet") : x \in W(at)
    BY <1>1
  <2> QED
    BY <1>1, <1>2, <2>1
<1> QED
  BY <1>3, <1>4

(* The address of a network device that is decoded as it is written.       *)
LEMMA AddressDecoded ==
  ASSUME NEW at, NEW nic,
         nic.attrs = [a \in DOMAIN Attrs["ethernet"] |->
                        Meant(Attrs["ethernet"][a], Written("ethernet", at, a))]
  PROVE  MAC(nic) = AddressOf(at)
<1>1. Attrs["ethernet"] = Ethernet
  BY DEF Attrs, Bus
<1>2. /\ {"addresstype", "address", "generatedaddress"} \subseteq DOMAIN Ethernet
      /\ \A a \in {"addresstype", "address", "generatedaddress"} : Ethernet[a] = "text"
  BY DEF Ethernet
<1>3. \A v : Meant("text", v) = v
  BY Zenon DEF Meant, Zero
<1>4. \A a \in {"addresstype", "address", "generatedaddress"} :
        nic.attrs[a] = Written("ethernet", at, a)
  BY <1>1, <1>2, <1>3
<1>5. /\ nic.attrs.addresstype = Written("ethernet", at, "addresstype")
      /\ nic.attrs.address = Written("ethernet", at, "address")
      /\ nic.attrs.generatedaddress = Written("ethernet", at, "generatedaddress")
  BY <1>4
<1> QED
  BY <1>5, Zenon DEF MAC, AddressOf, Blank

(* The MAC address is one that the file gives a network device; there is   *)
(* none only when the file gives none.                                     *)
THEOREM MACs == CodecSpec => []MACAsWritten
<1>1. Inv => MACAsWritten
  <2> SUFFICES ASSUME Inv, pc = "done", result = "ok", type = "VMXFile"
               PROVE  (MACsIn = {} => mac = Blank) /\ (MACsIn # {} => mac \in MACsIn)
    BY Zenon DEF MACAsWritten, Blank
  <2> DEFINE nics == devs["ethernet"]
             Attributes(at) == [a \in DOMAIN Attrs["ethernet"] |->
                                  Meant(Attrs["ethernet"][a], Written("ethernet", at, a))]
  <2>1. mac = MACOf(nics) /\ DecodedAsWritten
    BY OkDecoded DEF Inv, EndInv
  <2>2. nics \in Seq([at: Seq(Nat), attrs: AttrsOf("ethernet")])
    BY DEF Inv, TypeOK, Bus
  <2>3. "ethernet" \in BusesOf
    <3>1. Slices[type] = <<"ide", "scsi", "sata", "nvme", "ethernet">>
      BY DEF Slices
    <3>2. 5 \in DOMAIN Slices[type] /\ Slices[type][5] = "ethernet"
      BY <3>1
    <3> QED
      BY <3>2 DEF BusesOf
  <2>4. ToSet(nics) = {[at |-> at, attrs |-> Attributes(at)] : at \in DevicesIn("ethernet")}
    BY <2>1, <2>3 DEF DecodedAsWritten
  <2>5. \A at, nic : nic.attrs = Attributes(at) => MAC(nic) = AddressOf(at)
    BY AddressDecoded
  <2> HIDE DEF nics, Attributes
  <2>6. \A k \in DOMAIN nics : \E at \in DevicesIn("ethernet") : MAC(nics[k]) = AddressOf(at)
    <3>1. \A k \in DOMAIN nics : nics[k] \in ToSet(nics)
      BY DEF ToSet
    <3>2. \A at : [at |-> at, attrs |-> Attributes(at)].attrs = Attributes(at)
      OBVIOUS
    <3> QED
      BY <2>4, <2>5, <3>1, <3>2
  <2>7. \A at \in DevicesIn("ethernet") : \E k \in DOMAIN nics : MAC(nics[k]) = AddressOf(at)
    <3>1. \A at : [at |-> at, attrs |-> Attributes(at)].attrs = Attributes(at)
      OBVIOUS
    <3>2. \A x \in ToSet(nics) : \E k \in DOMAIN nics : nics[k] = x
      BY DEF ToSet
    <3> QED
      BY <2>4, <2>5, <3>1, <3>2
  <2>8. \/ mac = Blank /\ \A k \in DOMAIN nics : MAC(nics[k]) = Blank
        \/ \E k \in DOMAIN nics : mac = MAC(nics[k]) /\ MAC(nics[k]) # Blank
    BY <2>1, <2>2, MACChosen
  <2> QED
    BY <2>6, <2>7, <2>8, AddressesIn
<1> QED
  BY <1>1, Invariant, PTL
-----------------------------------------------------------------------------
(* What is written and read back.  The elements before element k of bus b  *)
(* that take a place on an adapter, ...                                    *)
Taken(b, k) == Cardinality({j \in 1..(k - 1) : ~IsController(b, machine.devs[b][j])})

(* ... the place it gets, and the numbers in its key.                      *)
PlaceOf(b, k) ==
  IF b \in Several THEN <<Taken(b, k) \div PerAdapter[b], Taken(b, k) % PerAdapter[b]>>
                   ELSE <<0, IF b = "usb" THEN Taken(b, k) ELSE 0>>
At(b, k) == Address(b, machine.devs[b][k], k, PlaceOf(b, k))

Held(b) == Kept(b, Len(machine.devs[b]))

(* The elements of the s-th slice that are written.                        *)
Passed(s) ==
  IF s < array THEN Held(Slices[type][s]) ELSE IF s = array THEN i - 1 ELSE 0

(* The line of a field whose text fits into one.                           *)
LineOf(f) == [kind |-> "entry", key |-> f.key, text |-> f.text, quoted |-> TRUE]
WrittenLine(of, at, attr, v) ==
  [kind |-> "entry", key |-> [of |-> of, at |-> at, attr |-> attr], text |-> v, quoted |-> TRUE]
LineOfLeaf(l) == WrittenLine(l.of, <<>>, l.attr, machine.leaves[l])
LineOfAttr(b, k, a) == WrittenLine(b, At(b, k), a, machine.devs[b][k][a])

LeafWritten(l) == array > 0 /\ ~LeftOut(l.attr, l.type, machine.leaves[l])
AttrWritten(b, k, a) == ~LeftOut(a, Attrs[b][a], machine.devs[b][k][a])

(* The counters tell where the next element goes.                          *)
Placed(b, k) ==
  IF b \in Several THEN adapters * PerAdapter[b] + devices = Taken(b, k)
                   ELSE adapters = 0 /\ devices = IF b = "usb" THEN Taken(b, k) ELSE 0

PlaceInv ==
  pc = "encode" /\ array \in DOMAIN Slices[type] => i <= Held(encoded) + 1 /\ Placed(encoded, i)

(* The lines, there or to be written, are those of the fields and of the   *)
(* elements passed.                                                        *)
IsWritten(x) ==
  \/ \E l \in Leaves[type] : LeafWritten(l) /\ x = LineOfLeaf(l)
  \/ \E s \in DOMAIN Slices[type] : \E k \in 1..Passed(s) : \E a \in DOMAIN Attrs[Slices[type][s]] :
       AttrWritten(Slices[type][s], k, a) /\ x = LineOfAttr(Slices[type][s], k, a)

LinesInv ==
  type = "VirtualMachine" =>
    /\ machine \in Machines
    /\ pc # "encode" => array > Len(Slices[type]) /\ fields = {}
    /\ OneLines =>
         /\ \A f \in fields : OneLine(f.text)
         /\ \A x : IsWritten(x) <=> \/ \E j \in DOMAIN lines : lines[j] = x
                                    \/ \E f \in fields : LineOf(f) = x
-----------------------------------------------------------------------------
(* The numbers below m that are not in C.                                  *)
Below(C, m) == {x \in 1..(m - 1) : x \notin C}

(* One more number below, if it is not in C.                               *)
LEMMA CountBelow ==
  ASSUME NEW C, NEW k \in Nat \ {0}
  PROVE  /\ IsFiniteSet(Below(C, k)) /\ Cardinality(Below(C, k)) \in Nat
         /\ Cardinality(Below(C, k)) <= k - 1
         /\ Cardinality(Below(C, k + 1)) = Cardinality(Below(C, k)) + (IF k \in C THEN 0 ELSE 1)
<1>1. IsFiniteSet(1..(k - 1)) /\ Cardinality(1..(k - 1)) = k - 1
  BY FS_Interval
<1>2. Below(C, k) \subseteq 1..(k - 1)
  BY DEF Below
<1>3. /\ IsFiniteSet(Below(C, k)) /\ Cardinality(Below(C, k)) \in Nat
      /\ Cardinality(Below(C, k)) <= k - 1
  BY <1>1, <1>2, FS_Subset, FS_CardinalityType
<1>4. CASE k \in C
  <2>1. Below(C, k + 1) = Below(C, k)
    BY <1>4 DEF Below
  <2> QED
    BY <1>3, <1>4, <2>1
<1>5. CASE k \notin C
  <2>1. Below(C, k + 1) = Below(C, k) \cup {k} /\ k \notin Below(C, k)
    BY <1>5 DEF Below
  <2> QED
    BY <1>3, <1>5, <2>1, FS_AddElement
<1> QED
  BY <1>4, <1>5

(* The count grows past a number that is not in C.                         *)
LEMMA CountGrows ==
  ASSUME NEW C, NEW j \in Nat \ {0}, NEW k \in Nat \ {0}, j < k, j \notin C
  PROVE  Cardinality(Below(C, j)) < Cardinality(Below(C, k))
<1>1. /\ IsFiniteSet(Below(C, k)) /\ Cardinality(Below(C, k)) \in Nat
      /\ Cardinality(Below(C, j)) \in Nat
      /\ Cardinality(Below(C, j + 1)) = Cardinality(Below(C, j)) + 1
  BY CountBelow
<1>2. Below(C, j + 1) \subseteq Below(C, k)
  BY DEF Below
<1>3. Cardinality(Below(C, j + 1)) <= Cardinality(Below(C, k))
  BY <1>1, <1>2, FS_Subset
<1> QED
  BY <1>1, <1>3

(* The places taken before an element.                                     *)
LEMMA TakenCount ==
  ASSUME NEW b, NEW k \in Nat \ {0}
  PROVE  /\ Taken(b, k) \in Nat /\ Taken(b, k) <= k - 1
         /\ Taken(b, k + 1) = Taken(b, k) + (IF IsController(b, machine.devs[b][k]) THEN 0 ELSE 1)
         /\ \A j \in Nat \ {0} :
              j < k /\ ~IsController(b, machine.devs[b][j]) => Taken(b, j) < Taken(b, k)
<1> DEFINE C == {j \in Nat : IsController(b, machine.devs[b][j])}
<1>1. ASSUME NEW m \in Nat \ {0} PROVE Taken(b, m) = Cardinality(Below(C, m))
  <2>1. {j \in 1..(m - 1) : ~IsController(b, machine.devs[b][j])} = Below(C, m)
    BY DEF Below
  <2> QED
    BY <2>1 DEF Taken
<1>2. \A j \in Nat \ {0} : IsController(b, machine.devs[b][j]) <=> j \in C
  OBVIOUS
<1> HIDE DEF C
<1>3. Taken(b, k) = Cardinality(Below(C, k)) /\ Taken(b, k + 1) = Cardinality(Below(C, k + 1))
  BY <1>1
<1>4. /\ Cardinality(Below(C, k)) \in Nat /\ Cardinality(Below(C, k)) <= k - 1
      /\ Cardinality(Below(C, k + 1)) = Cardinality(Below(C, k)) + (IF k \in C THEN 0 ELSE 1)
  BY CountBelow
<1>5. \A j \in Nat \ {0} : j < k /\ j \notin C => Cardinality(Below(C, j)) < Cardinality(Below(C, k))
  BY CountGrows
<1> QED
  BY <1>1, <1>2, <1>3, <1>4, <1>5

(* Quotients and remainders of numbers of places.                          *)
LEMMA Divided ==
  ASSUME NEW P \in Nat \ {0}, NEW q \in Nat, NEW r \in Nat, r < P
  PROVE  (q * P + r) \div P = q /\ (q * P + r) % P = r
OBVIOUS

(* A number is known by its quotient and its remainder.                    *)
LEMMA DividedApart ==
  ASSUME NEW P \in Nat \ {0}, NEW c \in Nat, NEW d \in Nat, c \div P = d \div P, c % P = d % P
  PROVE  c = d
OBVIOUS

-----------------------------------------------------------------------------
(* Where an element goes depends on the virtual machine only.              *)
LEMMA SameMachine ==
  ASSUME UNCHANGED <<type, machine>>
  PROVE  /\ \A b, k : Taken(b, k)' = Taken(b, k)
         /\ \A b : Held(b)' = Held(b)
         /\ \A l : LineOfLeaf(l)' = LineOfLeaf(l)
         /\ \A b, k, a : /\ LineOfAttr(b, k, a)' = LineOfAttr(b, k, a)
                        /\ AttrWritten(b, k, a)' = AttrWritten(b, k, a)
         /\ OneLines' = OneLines
<1>1. \A b, k : Taken(b, k)' = Taken(b, k)
  BY DEF Taken, IsController
<1>2. \A b, k : At(b, k)' = At(b, k)
  <2> SUFFICES ASSUME NEW b, NEW k PROVE At(b, k)' = At(b, k)
    OBVIOUS
  <2>1. PlaceOf(b, k)' = PlaceOf(b, k)
    BY <1>1 DEF PlaceOf
  <2>2. \A d : IsController(b, d)' = IsController(b, d)
    BY DEF IsController
  <2> QED
    BY <2>1, <2>2 DEF At, Address, IsController
<1>3. \A b, k, a : LineOfAttr(b, k, a)' = LineOfAttr(b, k, a)
  BY <1>2 DEF LineOfAttr, WrittenLine
<1>4. \A b, k, a : AttrWritten(b, k, a)' = AttrWritten(b, k, a)
  BY DEF AttrWritten, LeftOut
<1>5. OneLines' = OneLines
  <2>1. \A b : Encoded(b)' = Encoded(b)
    BY DEF Encoded, Kept
  <2> QED
    BY <2>1 DEF OneLines, BusesOf, OneLine, LeftOut
<1> QED
  BY <1>1, <1>3, <1>4, <1>5 DEF Held, Kept, LineOfLeaf, WrittenLine

(* The counters hold the place of the next element.                        *)
LEMMA NextPlaced ==
  ASSUME NEW P \in Nat \ {0}, NEW a \in Nat, NEW d \in Nat, d <= P
  PROVE  LET c == a * P + d
         IN  /\ d >= P => c \div P = a + 1 /\ c % P = 0 /\ (a + 1) * P = c
             /\ ~(d >= P) => c \div P = a /\ c % P = d
<1>1. CASE d >= P
  <2>1. d = P /\ (a + 1) * P = a * P + d
    BY <1>1
  <2>2. a + 1 \in Nat /\ 0 < P /\ 0 \in Nat
    OBVIOUS
  <2> DEFINE q == a + 1
  <2>3. q \in Nat
    OBVIOUS
  <2> HIDE DEF q
  <2>4. (q * P + 0) \div P = q /\ (q * P + 0) % P = 0
    BY <2>2, <2>3, Divided
  <2>5. q * P + 0 = a * P + d
    BY <2>1 DEF q
  <2> QED
    BY <1>1, <2>1, <2>4, <2>5 DEF q
<1>2. CASE ~(d >= P)
  BY <1>2, Divided
<1> QED
  BY <1>1, <1>2

(* The element that is encoded goes where PlaceOf says, and the counters   *)
(* then hold the next place.                                               *)
LEMMA EncodedPlace ==
  ASSUME TypeOK, StartInv, CountInv, PlaceInv, EncodeDevice
  PROVE  LET b == encoded
         IN  /\ Address(b, machine.devs[b][i], i, Place(b)) = At(b, i)
             /\ IF b \in Several
                THEN adapters' * PerAdapter[b] + devices' = Taken(b, i + 1)
                ELSE adapters' = 0 /\ devices' = IF b = "usb" THEN Taken(b, i + 1) ELSE 0
<1> DEFINE b == encoded
           d == machine.devs[b][i]
           step == IF b \in Adapted /\ ~IsController(b, d) THEN 1 ELSE 0
           c == Taken(b, i)
<1>1. /\ pc = "encode" /\ type = "VirtualMachine" /\ type \in DOMAIN Slices
      /\ array \in DOMAIN Slices[type] /\ array > 0 /\ array <= Len(Slices[type])
      /\ i \in Nat \ {0} /\ adapters \in Nat /\ devices \in Nat
  BY SlicesOnce DEF EncodeDevice, AtArray, TypeOK, StartInv, CountInv
<1>2. b \in Bus
  BY <1>1, SlicesOnce DEF encoded
<1>3. adapters' = Place(b)[1] /\ devices' = Place(b)[2] + step
  BY DEF EncodeDevice
<1>4. c \in Nat /\ Taken(b, i + 1) = c + (IF IsController(b, d) THEN 0 ELSE 1)
  BY <1>1, TakenCount
<1>p. Placed(b, i)
  BY <1>1 DEF PlaceInv
<1>5. CASE b \in Several
  <2> DEFINE P == PerAdapter[b]
  <2>1. P \in Nat \ {0} /\ b \in Adapted
    BY <1>5, CodecAssumption DEF Several
  <2>2. adapters * P + devices = c
    BY <1>p, <1>5 DEF Placed
  <2>9. devices <= P
    BY <1>1, <1>5 DEF TypeOK
  <2>3. step = IF IsController(b, d) THEN 0 ELSE 1
    BY <2>1
  <2>4. Place(b) = IF devices >= P THEN <<adapters + 1, 0>> ELSE <<adapters, devices>>
    BY <1>5 DEF Place
  <2>5. PlaceOf(b, i) = <<c \div P, c % P>>
    BY <1>5 DEF PlaceOf
  <2> HIDE DEF P, step, c, d, b
  <2>6. /\ devices >= P => c \div P = adapters + 1 /\ c % P = 0 /\ (adapters + 1) * P = c
        /\ ~(devices >= P) => c \div P = adapters /\ c % P = devices
    <3> DEFINE e == adapters * P + devices
    <3>1. /\ devices >= P => e \div P = adapters + 1 /\ e % P = 0 /\ (adapters + 1) * P = e
          /\ ~(devices >= P) => e \div P = adapters /\ e % P = devices
      BY <1>1, <2>1, <2>9, NextPlaced
    <3>2. e = c
      BY <2>2
    <3> HIDE DEF e
    <3> QED
      BY <3>1, <3>2
  <2>7. Place(b) = PlaceOf(b, i)
    BY <2>4, <2>5, <2>6
  <2>8. adapters' * P + devices' = c + step
    <3>1. step \in Nat
      BY <2>3
    <3>2. CASE devices >= P
      <4>1. adapters' = adapters + 1 /\ devices' = 0 + step
        BY <1>3, <2>4, <3>2
      <4>2. (adapters + 1) * P = c
        BY <1>1, <1>4, <2>1, <2>6, <3>2
      <4> QED
        BY <1>4, <3>1, <4>1, <4>2
    <3>3. CASE ~(devices >= P)
      <4>1. adapters' = adapters /\ devices' = devices + step
        BY <1>3, <2>4, <3>3
      <4> DEFINE p == adapters * P
      <4>2. p \in Nat /\ p + devices = c
        BY <1>1, <2>1, <2>2
      <4>3. adapters' * P = p
        BY <4>1
      <4> HIDE DEF p
      <4> QED
        BY <1>1, <3>1, <4>1, <4>2, <4>3
    <3> QED
      BY <3>2, <3>3
  <2>10. adapters' * P + devices' = Taken(b, i + 1)
    BY <1>4, <2>3, <2>8
  <2>11. Address(b, machine.devs[b][i], i, Place(b)) = At(b, i)
    BY <2>7 DEF At
  <2> QED
    BY <1>5, <2>10, <2>11 DEF b, P
<1>6. CASE b = "usb"
  <2>1. adapters = 0 /\ devices = c /\ b \in Adapted /\ b \notin Several
    BY <1>1, <1>p, <1>6 DEF Placed, Adapted, Several
  <2>2. Place(b) = <<0, c>> /\ PlaceOf(b, i) = <<0, c>>
    BY <1>6, <2>1 DEF Place, PlaceOf
  <2>3. step = IF IsController(b, d) THEN 0 ELSE 1
    BY <2>1
  <2> HIDE DEF step, c
  <2>4. adapters' = 0 /\ devices' = Taken(b, i + 1)
    BY <1>3, <1>4, <2>2, <2>3
  <2>5. Place(b) = PlaceOf(b, i)
    BY <2>2
  <2> HIDE DEF b
  <2> QED
    BY <1>6, <2>1, <2>4, <2>5 DEF At, b
<1>7. CASE b \notin Several /\ b # "usb"
  <2>1. adapters = 0 /\ devices = 0 /\ b \notin Adapted
    BY <1>1, <1>p, <1>7 DEF Placed, Adapted, Several
  <2>2. Place(b) = <<0, 0>> /\ PlaceOf(b, i) = <<0, 0>> /\ step = 0
    BY <1>7, <2>1 DEF Place, PlaceOf
  <2> HIDE DEF b, step
  <2>3. adapters' = 0 /\ devices' = 0
    BY <1>3, <2>2
  <2> QED
    BY <1>7, <2>2, <2>3 DEF At, b
<1> QED
  BY <1>5, <1>6, <1>7

(* The counters keep up with the elements.                                 *)
LEMMA PlaceStep ==
  ASSUME TypeOK, StartInv, CountInv, PlaceInv, CodecNext
  PROVE  PlaceInv'
<1>0. type \in DOMAIN Slices /\ Len(Slices[type]) \in Nat /\ DOMAIN Slices[type] = 1..Len(Slices[type])
  BY SlicesOnce DEF TypeOK
<1>1. ASSUME NEW s \in DOMAIN Slices[type], machine \in Machines, UNCHANGED <<type, machine>>,
             array' = s, i' = 1, adapters' = 0, devices' = 0
      PROVE  PlaceInv'
  <2>0. Slices[type][s] \in Bus
    BY <1>0, SlicesOnce
  <2>00. PICK b \in Bus : b = Slices[type][s]
    BY <2>0
  <2>1. encoded' = b
    BY <1>1, <2>00 DEF encoded
  <2>2. machine.devs[b] \in Seq(AttrsOf(b))
    BY <1>1, <2>1, CodecAssumption
  <2>3. Held(b) \in Nat
    BY <2>1, <2>2, KeptBound DEF Held
  <2>4. Taken(b, 1)' = Taken(b, 1) /\ Held(b)' = Held(b)
    BY <1>1, SameMachine
  <2>5. Taken(b, 1) = 0
    BY TakenCount
  <2>6. i' <= Held(b)' + 1
    BY <1>1, <2>3, <2>4
  <2>7. b \in Several => PerAdapter[b] \in Nat
    BY CodecAssumption DEF Several
  <2>8. Placed(b, 1)'
    BY <1>1, <2>4, <2>5, <2>7 DEF Placed
  <2> QED
    BY <1>1, <2>1, <2>6, <2>8 DEF PlaceInv
<1>2. CASE EncodeLeaves
  <2>1. /\ array = 0 /\ pc = "encode" /\ array' = 1
        /\ UNCHANGED <<type, machine, i, adapters, devices>>
    BY <1>2 DEF EncodeLeaves
  <2>2. i = 1 /\ adapters = 0 /\ devices = 0 /\ machine \in Machines /\ type = "VirtualMachine"
    BY <2>1 DEF CountInv, StartInv
  <2>3. 1 \in DOMAIN Slices[type]
    BY <1>0, <2>2 DEF Slices
  <2> QED
    BY <1>1, <2>1, <2>2, <2>3
<1>3. CASE EncodeDevice
  <2> DEFINE b == encoded
  <2>1. /\ UNCHANGED <<type, pc, array, machine>> /\ i' = i + 1 /\ i <= Held(b)
        /\ pc = "encode" /\ array \in DOMAIN Slices[type] /\ i \in Nat \ {0} /\ machine \in Machines
    BY <1>0, <1>3 DEF EncodeDevice, AtArray, CountInv, StartInv, Held
  <2>2. b \in Bus /\ b' = b
    BY <1>0, <2>1, SlicesOnce DEF encoded
  <2>3. IF b \in Several THEN adapters' * PerAdapter[b] + devices' = Taken(b, i + 1)
        ELSE adapters' = 0 /\ devices' = IF b = "usb" THEN Taken(b, i + 1) ELSE 0
    BY <1>3, EncodedPlace
  <2>4. /\ \A k : Taken(b, k)' = Taken(b, k)
        /\ Held(b)' = Held(b)
    BY <2>1, <2>2, SameMachine
  <2>5. machine.devs[b] \in Seq(AttrsOf(b))
    BY <2>1, <2>2, CodecAssumption
  <2>6. Held(b) \in Nat
    BY <2>2, <2>5, KeptBound DEF Held
  <2>7. Placed(encoded, i)'
    <3>1. (IF b \in Several THEN adapters * PerAdapter[b] + devices = Taken(b, i)
           ELSE adapters = 0 /\ devices = IF b = "usb" THEN Taken(b, i) ELSE 0)'
      BY <2>1, <2>2, <2>3, <2>4
    <3> QED
      BY <3>1 DEF Placed
  <2>8. i' <= Held(b)' + 1
    BY <2>1, <2>4, <2>6
  <2> QED
    BY <2>2, <2>7, <2>8 DEF PlaceInv
<1>4. CASE NextArray
  <2>1. /\ array' = array + 1 /\ i' = 1 /\ adapters' = 0 /\ devices' = 0
        /\ UNCHANGED <<type, machine>> /\ machine \in Machines
    BY <1>4 DEF NextArray, AtArray, StartInv
  <2>2. CASE array + 1 \in DOMAIN Slices[type]
    BY <1>1, <2>1, <2>2
  <2>3. CASE array + 1 \notin DOMAIN Slices[type]
    BY <2>1, <2>3 DEF PlaceInv
  <2> QED
    BY <2>2, <2>3
<1>5. CASE EncodeEnds
  BY <1>5 DEF EncodeEnds, PlaceInv
<1>6. CASE Decode /\ UNCHANGED encodeVars
  BY <1>6, DecoderSteps DEF PlaceInv
<1>7. CASE WriteField
  <2>1. UNCHANGED <<type, pc, machine, array, i, adapters, devices>>
    BY <1>7 DEF WriteField
  <2>2. /\ \A b, k : Taken(b, k)' = Taken(b, k)
        /\ \A b : Held(b)' = Held(b)
    BY <2>1, SameMachine
  <2>3. encoded' = encoded
    BY <2>1 DEF encoded
  <2>4. Placed(encoded, i)' <=> Placed(encoded, i)
    BY <2>1, <2>2, <2>3 DEF Placed
  <2> QED
    BY <2>1, <2>2, <2>3, <2>4 DEF PlaceInv
<1> QED
  BY <1>2, <1>3, <1>4, <1>5, <1>6, <1>7 DEF CodecNext

(* What the encoder has written is what it has passed.                     *)
LEMMA LinesStep ==
  ASSUME TypeOK, StartInv, CountInv, PlaceInv, LinesInv, CodecNext
  PROVE  LinesInv'
<1> SUFFICES ASSUME type' = "VirtualMachine" PROVE LinesInv'
  BY DEF LinesInv
<1>0. /\ type = "VirtualMachine" /\ type \in DOMAIN Slices /\ UNCHANGED <<type, machine>>
      /\ Len(Slices[type]) \in Nat /\ DOMAIN Slices[type] = 1..Len(Slices[type])
      /\ machine \in Machines /\ machine' \in Machines
  BY SlicesOnce, EncoderSteps, DecoderSteps DEF TypeOK, LinesInv, CodecNext
<1>1. /\ \A b : Held(b)' = Held(b)
      /\ \A l : LineOfLeaf(l)' = LineOfLeaf(l)
      /\ \A b, k, a : /\ LineOfAttr(b, k, a)' = LineOfAttr(b, k, a)
                     /\ AttrWritten(b, k, a)' = AttrWritten(b, k, a)
      /\ OneLines' = OneLines
      /\ \A f : LineOf(f)' = LineOf(f) /\ OneLine(f.text)' = OneLine(f.text)
  BY <1>0, SameMachine DEF LineOf, OneLine
<1>2. CASE EncodeLeaves
  <2> DEFINE S == {k \in Leaves[type] : ~LeftOut(k.attr, k.type, machine.leaves[k])}
  <2>1. /\ array = 0 /\ array' = 1 /\ i = 1 /\ i' = 1 /\ pc = "encode" /\ pc' = "encode"
        /\ lines' = lines
    BY <1>2 DEF EncodeLeaves, CountInv
  <2>2. fields' = {Field(l.of, <<>>, l.attr, machine.leaves[l]) : l \in S}
    BY <1>2 DEF EncodeLeaves
  <2>3. ASSUME NEW l PROVE LineOf(Field(l.of, <<>>, l.attr, machine.leaves[l])) = LineOfLeaf(l)
    BY DEF LineOf, Field, LineOfLeaf, WrittenLine
  <2>4. \A s \in DOMAIN Slices[type] : (~\E k \in 1..Passed(s)' : TRUE) /\ ~\E k \in 1..Passed(s) : TRUE
    BY <1>0, <2>1 DEF Passed
  <2>5. \A x : ~IsWritten(x)
    BY <1>0, <2>1, <2>4 DEF IsWritten, LeafWritten
  <2>6. \A x : IsWritten(x)' <=> \E l \in Leaves[type] : LeafWritten(l)' /\ x = LineOfLeaf(l)
    BY <1>0, <1>1, <2>4 DEF IsWritten
  <2>7. \A l : LeafWritten(l)' <=> ~LeftOut(l.attr, l.type, machine.leaves[l])
    BY <1>0, <2>1 DEF LeafWritten, LeftOut
  <2>8. \A l : l \in S <=> l \in Leaves[type] /\ LeafWritten(l)'
    BY <2>7
  <2> HIDE DEF S
  <2>9. \A x : IsWritten(x)' <=> \E f \in fields' : LineOf(f) = x
    BY <2>2, <2>3, <2>6, <2>8
  <2>10. ASSUME OneLines
         PROVE  /\ \A f \in fields' : OneLine(f.text)
                /\ ~\E j \in DOMAIN lines : TRUE
    <3>1. \A l \in S : OneLine(Field(l.of, <<>>, l.attr, machine.leaves[l]).text)
      BY <2>8, <2>10 DEF OneLines, Field
    <3>2. \A f \in fields' : OneLine(f.text)
      BY <2>2, <3>1
    <3>3. \A j \in DOMAIN lines : IsWritten(lines[j])
      BY <1>0, <2>10 DEF LinesInv
    <3> QED
      BY <2>5, <3>2, <3>3
  <2> QED
    BY <1>0, <1>1, <2>1, <2>9, <2>10 DEF LinesInv
<1>3. CASE EncodeDevice
  <2>0. encoded \in Bus
    BY <1>0, <1>3, SlicesOnce DEF EncodeDevice, AtArray, encoded
  <2>00. PICK b \in Bus : b = encoded
    BY <2>0
  <2> DEFINE S == {a \in DOMAIN Attrs[b] : AttrWritten(b, i, a)}
             F(a) == Field(b, At(b, i), a, machine.devs[b][i][a])
  <2>1. /\ UNCHANGED <<pc, array, lines>> /\ i' = i + 1 /\ i <= Held(b) /\ pc = "encode"
        /\ array \in DOMAIN Slices[type] /\ i \in Nat \ {0} /\ b = Slices[type][array]
        /\ fields = {}
    BY <1>0, <1>3, <2>00 DEF EncodeDevice, AtArray, CountInv, Held, encoded
  <2>2. machine.devs[b] \in Seq(AttrsOf(b))
    BY <1>0, CodecAssumption
  <2>3. i \in DOMAIN machine.devs[b]
    BY <2>1, <2>2, KeptBound DEF Held
  <2>4. DOMAIN machine.devs[b][i] = DOMAIN Attrs[b]
    <3>1. machine.devs[b][i] \in AttrsOf(b)
      BY <2>2, <2>3
    <3> QED
      BY <3>1 DEF AttrsOf
  <2>5. Address(b, machine.devs[b][i], i, Place(b)) = At(b, i)
    BY <1>3, <2>00, EncodedPlace
  <2>6. fields' = {F(a) : a \in S}
    <3>1. {c \in DOMAIN machine.devs[b][i] : ~LeftOut(c, Attrs[b][c], machine.devs[b][i][c])} = S
      BY <2>4 DEF AttrWritten
    <3> HIDE DEF S
    <3> QED
      BY <1>3, <2>00, <2>5, <3>1 DEF EncodeDevice
  <2>7. ASSUME NEW a PROVE LineOf(F(a)) = LineOfAttr(b, i, a) /\ F(a).text = machine.devs[b][i][a]
    BY DEF LineOf, Field, LineOfAttr, WrittenLine
  <2> DEFINE New(x) == \E a \in DOMAIN Attrs[b] : AttrWritten(b, i, a) /\ x = LineOfAttr(b, i, a)
  <2>8. \A x : New(x) <=> \E f \in fields' : LineOf(f) = x
    <3> HIDE DEF F
    <3> QED
      BY <2>6, <2>7
  <2>9. OneLines => \A f \in fields' : OneLine(f.text)
    <3> SUFFICES ASSUME OneLines, NEW a \in S PROVE OneLine(machine.devs[b][i][a])
      <4> HIDE DEF F, S
      <4> QED
        BY <2>6, <2>7
    <3>1. Held(b) \in Nat /\ Held(b) <= Len(machine.devs[b])
      BY <2>2, KeptBound DEF Held
    <3>2. DOMAIN Encoded(b) = 1..Held(b) /\ Encoded(b)[i] = machine.devs[b][i]
      <4>1. Encoded(b) = SubSeq(machine.devs[b], 1, Held(b))
        BY DEF Encoded, Held
      <4> QED
        BY <2>1, <2>2, <3>1, <4>1
    <3>3. b \in BusesOf
      BY <2>1 DEF BusesOf
    <3>4. i \in DOMAIN Encoded(b)
      BY <2>1, <3>1, <3>2
    <3> QED
      BY <3>2, <3>3, <3>4 DEF OneLines, AttrWritten
  <2> HIDE DEF S, F
  <2>11. ASSUME NEW s \in DOMAIN Slices[type]
         PROVE  IF s = array THEN 1..Passed(s)' = (1..Passed(s)) \cup {i} ELSE Passed(s)' = Passed(s)
    BY <1>0, <1>1, <2>1 DEF Passed
  <2>12. \A l : LeafWritten(l)' <=> LeafWritten(l)
    BY <1>0, <2>1 DEF LeafWritten, LeftOut
  <2>13. ASSUME NEW x
         PROVE  IsWritten(x)' <=> IsWritten(x) \/ New(x)
    <3> DEFINE Q(s, k) == \E a \in DOMAIN Attrs[Slices[type][s]] :
                 AttrWritten(Slices[type][s], k, a) /\ x = LineOfAttr(Slices[type][s], k, a)
    <3>1. New(x) <=> Q(array, i)
      BY <2>1
    <3>2. IsWritten(x) <=> \/ \E l \in Leaves[type] : LeafWritten(l) /\ x = LineOfLeaf(l)
                           \/ \E s \in DOMAIN Slices[type] : \E k \in 1..Passed(s) : Q(s, k)
      BY DEF IsWritten
    <3>3. IsWritten(x)' <=> \/ \E l \in Leaves[type] : LeafWritten(l) /\ x = LineOfLeaf(l)
                            \/ \E s \in DOMAIN Slices[type] : \E k \in 1..Passed(s)' : Q(s, k)
      BY <1>0, <1>1, <2>12 DEF IsWritten
    <3> HIDE DEF Q, New
    <3> QED
      BY <2>1, <2>11, <3>1, <3>2, <3>3
  <2> HIDE DEF New
  <2> QED
    BY <1>0, <1>1, <2>1, <2>8, <2>9, <2>13 DEF LinesInv
<1>4. ASSUME \A s \in DOMAIN Slices[type] : Passed(s)' = Passed(s), (array > 0) <=> (array > 0)'
      PROVE  \A x : IsWritten(x)' <=> IsWritten(x)
  <2>1. \A l : LeafWritten(l)' <=> LeafWritten(l)
    BY <1>0, <1>4 DEF LeafWritten, LeftOut
  <2> QED
    BY <1>0, <1>1, <1>4, <2>1 DEF IsWritten
<1>5. CASE NextArray
  <2>1. /\ array' = array + 1 /\ i' = 1 /\ UNCHANGED <<lines, pc, fields>> /\ pc = "encode"
        /\ array \in DOMAIN Slices[type] /\ i > Held(encoded) /\ i \in Nat
    BY <1>0, <1>5 DEF NextArray, AtArray, Held, TypeOK
  <2>2. encoded \in Bus
    BY <1>0, <2>1, SlicesOnce DEF encoded
  <2>3. machine.devs[encoded] \in Seq(AttrsOf(encoded))
    BY <1>0, <2>2, CodecAssumption
  <2>4. Held(encoded) \in Nat
    BY <2>2, <2>3, KeptBound DEF Held
  <2>5. i - 1 = Held(encoded)
    BY <2>1, <2>4 DEF PlaceInv
  <2>6. \A s \in DOMAIN Slices[type] : Passed(s)' = Passed(s)
    BY <1>0, <1>1, <2>1, <2>5 DEF Passed, encoded
  <2>7. \A x : IsWritten(x)' <=> IsWritten(x)
    BY <1>0, <1>4, <2>1, <2>6
  <2> QED
    BY <1>0, <1>1, <2>1, <2>7 DEF LinesInv
<1>6. CASE EncodeEnds
  <2>1. UNCHANGED <<lines, array, i, fields>> /\ array > Len(Slices[type]) /\ fields = {}
    BY <1>6 DEF EncodeEnds, encodeVars
  <2>2. \A s \in DOMAIN Slices[type] : Passed(s)' = Passed(s)
    BY <1>0, <1>1, <2>1 DEF Passed
  <2>3. \A x : IsWritten(x)' <=> IsWritten(x)
    BY <1>4, <2>1, <2>2
  <2> QED
    BY <1>0, <1>1, <2>1, <2>3 DEF LinesInv
<1>7. CASE Decode /\ UNCHANGED encodeVars
  <2>1. UNCHANGED <<lines, array, i, fields>> /\ pc # "encode"
    BY <1>7, DecoderSteps
  <2>2. \A s \in DOMAIN Slices[type] : Passed(s)' = Passed(s)
    BY <1>0, <1>1, <2>1 DEF Passed
  <2>3. \A x : IsWritten(x)' <=> IsWritten(x)
    BY <1>4, <2>1, <2>2
  <2> QED
    BY <1>0, <1>1, <2>1, <2>3 DEF LinesInv
<1>8. CASE WriteField
  <2> DEFINE f == CHOOSE f \in fields : TRUE
  <2>1. /\ f \in fields /\ fields' = fields \ {f} /\ lines' = lines \o LinesOfField(f)
        /\ UNCHANGED <<array, i, pc>> /\ pc = "encode"
    BY <1>8 DEF WriteField
  <2>2. \A s \in DOMAIN Slices[type] : Passed(s)' = Passed(s)
    BY <1>0, <1>1, <2>1 DEF Passed
  <2>3. \A x : IsWritten(x)' <=> IsWritten(x)
    BY <1>4, <2>1, <2>2
  <2> HIDE DEF f
  <2>4. ASSUME OneLines
        PROVE  /\ \A g \in fields' : OneLine(g.text)
               /\ \A x : IsWritten(x)' <=> \/ \E j \in DOMAIN lines' : lines'[j] = x
                                           \/ \E g \in fields' : LineOf(g) = x
    <3>1. LinesOfField(f) = <<LineOf(f)>> /\ LineOf(f) \in Line
      <4>1. OneLine(f.text) /\ f \in [key: Key, text: Text]
        BY <1>0, <2>1, <2>4 DEF LinesInv, TypeOK
      <4> QED
        BY <4>1, FieldLines DEF LineOf, Line
    <3>2. lines \in Seq(Line) /\ lines' = lines \o <<LineOf(f)>>
      BY <2>1, <3>1 DEF TypeOK
    <3>3. /\ DOMAIN lines = 1..Len(lines) /\ Len(lines) \in Nat
          /\ DOMAIN lines' = 1..(Len(lines) + 1) /\ lines'[Len(lines) + 1] = LineOf(f)
          /\ \A j \in 1..Len(lines) : lines'[j] = lines[j]
      BY <3>1, <3>2
    <3>4. \A x : (\E j \in DOMAIN lines' : lines'[j] = x)
                    <=> x = LineOf(f) \/ \E j \in DOMAIN lines : lines[j] = x
      <4>1. DOMAIN lines' = DOMAIN lines \cup {Len(lines) + 1}
        BY <3>3
      <4> QED
        BY <3>3, <4>1
    <3> QED
      BY <1>0, <2>1, <2>3, <2>4, <3>4 DEF LinesInv
  <2> QED
    BY <1>0, <1>1, <2>1, <2>4 DEF LinesInv
<1> QED
  BY <1>2, <1>3, <1>5, <1>6, <1>7, <1>8 DEF CodecNext
-----------------------------------------------------------------------------
(* The encoder begins with no line and no element.                         *)
LEMMA WrittenInit ==
  ASSUME CodecInit
  PROVE  PlaceInv /\ LinesInv
<1>1. array = 0 /\ i = 1
  BY DEF CodecInit
<1>2. PlaceInv
  <2>1. type \in DOMAIN Slices
    BY DEF CodecInit, Slices
  <2>2. array \notin DOMAIN Slices[type]
    BY <1>1, <2>1, SlicesOnce
  <2> QED
    BY <2>2 DEF PlaceInv
<1>3. ASSUME type = "VirtualMachine" PROVE LinesInv
  <2>1. lines = <<>> /\ pc = "encode" /\ machine \in Machines /\ fields = {}
    BY <1>3 DEF CodecInit
  <2>2. type \in DOMAIN Slices /\ \A s \in DOMAIN Slices[type] : s > 0
    <3>1. type \in DOMAIN Slices
      BY <1>3 DEF Slices
    <3> QED
      BY <3>1, SlicesOnce
  <2>3. \A s \in DOMAIN Slices[type] : ~\E k \in 1..Passed(s) : TRUE
    <3> SUFFICES ASSUME NEW s \in DOMAIN Slices[type] PROVE Passed(s) = 0
      OBVIOUS
    <3>1. s \in Nat /\ ~(s < 0) /\ s # 0
      BY <2>2, SlicesOnce
    <3> QED
      BY <1>1, <3>1 DEF Passed
  <2>4. \A x : ~IsWritten(x)
    BY <1>1, <2>3 DEF IsWritten, LeafWritten
  <2> QED
    BY <2>1, <2>4 DEF LinesInv
<1> QED
  BY <1>2, <1>3 DEF LinesInv

(* A step that changes nothing leaves places and lines as they are.        *)
LEMMA WrittenStutter ==
  ASSUME PlaceInv, LinesInv, UNCHANGED allVars
  PROVE  PlaceInv' /\ LinesInv'
<1>1. UNCHANGED <<type, lines, pc, machine, array, i, adapters, devices, fields>>
  BY DEF allVars, vars, encodeVars
<1>2. /\ \A b, k : Taken(b, k)' = Taken(b, k)
      /\ \A b : Held(b)' = Held(b)
      /\ \A l : LineOfLeaf(l)' = LineOfLeaf(l)
      /\ \A b, k, a : /\ LineOfAttr(b, k, a)' = LineOfAttr(b, k, a)
                     /\ AttrWritten(b, k, a)' = AttrWritten(b, k, a)
      /\ OneLines' = OneLines
      /\ \A f : LineOf(f)' = LineOf(f) /\ OneLine(f.text)' = OneLine(f.text)
  BY <1>1, SameMachine DEF LineOf, OneLine
<1>3. PlaceInv'
  <2>1. encoded' = encoded
    BY <1>1 DEF encoded
  <2>2. Placed(encoded, i)' <=> Placed(encoded, i)
    BY <1>1, <1>2, <2>1 DEF Placed
  <2> QED
    BY <1>1, <1>2, <2>1, <2>2 DEF PlaceInv
<1>4. LinesInv'
  <2>1. \A s : Passed(s)' = Passed(s)
    BY <1>1, <1>2 DEF Passed
  <2>2. \A l : LeafWritten(l)' <=> LeafWritten(l)
    BY <1>1 DEF LeafWritten, LeftOut
  <2>3. \A x : IsWritten(x)' <=> IsWritten(x)
    BY <1>1, <1>2, <2>1, <2>2 DEF IsWritten
  <2> QED
    BY <1>1, <1>2, <2>3 DEF LinesInv
<1> QED
  BY <1>3, <1>4

(* The encoder has written what it has passed, and nothing else, in every  *)
(* reachable state.                                                        *)
THEOREM WrittenInvariant == CodecSpec => [](Inv /\ PlaceInv /\ LinesInv)
<1>1. ASSUME Inv, PlaceInv, LinesInv, [CodecNext]_allVars
      PROVE  PlaceInv' /\ LinesInv'
  <2>1. CASE CodecNext
    BY <1>1, <2>1, PlaceStep, LinesStep DEF Inv
  <2>2. CASE UNCHANGED allVars
    BY <1>1, <2>2, WrittenStutter
  <2> QED
    BY <1>1, <2>1, <2>2
<1>2. CodecInit => PlaceInv /\ LinesInv
  BY WrittenInit
<1> QED
  BY <1>1, <1>2, Invariant, PTL DEF CodecSpec
-----------------------------------------------------------------------------
(* The fields of a virtual machine are told apart by their names.          *)
LEMMA LeavesApart ==
  ASSUME NEW l \in Leaves["VirtualMachine"]
  PROVE  /\ \A k \in Leaves["VirtualMachine"] : k.of = l.of /\ k.attr = l.attr => k = l
         /\ l.attr # "generatedaddress"
         /\ l.of \in Bus => l.of = "usb" /\ l.attr = "present" /\ l.type = "bool"
<1>1. \A of, attr, ty : /\ Leaf(of, attr, ty).type = ty /\ Leaf(of, attr, ty).of = of
                        /\ Leaf(of, attr, ty).attr = attr
  BY DEF Leaf
<1> DEFINE l1 == Leaf("displayname", Blank, "text")
           l2 == Leaf("numvcpus", Blank, "uint")
           l3 == Leaf("softpoweroff", Blank, "bool")
           l4 == Leaf("usb", "present", "bool")
<1>2. Leaves["VirtualMachine"] = {l1, l2, l3, l4}
  <2>1. "VirtualMachine" # "VMXFile"
    OBVIOUS
  <2>2. Leaves["VirtualMachine"] = {Leaf("displayname", "", "text"), Leaf("numvcpus", "", "uint"),
                               Leaf("softpoweroff", "", "bool"), Leaf("usb", "present", "bool")}
    BY DEF Leaves
  <2> QED
    BY <2>2, Zenon DEF Blank
<1>3. Blank # "generatedaddress" /\ Blank # "present"
  BY Zenon DEF Blank
<1>4. /\ l1.of = "displayname" /\ l1.attr = Blank /\ l2.of = "numvcpus" /\ l2.attr = Blank
      /\ l3.of = "softpoweroff" /\ l3.attr = Blank
      /\ l4.of = "usb" /\ l4.attr = "present" /\ l4.type = "bool"
  BY <1>1
<1> HIDE DEF l1, l2, l3, l4
<1>5. \A k \in Leaves["VirtualMachine"] : k = l1 \/ k = l2 \/ k = l3 \/ k = l4
  BY <1>2
<1>6. /\ \A k \in Leaves["VirtualMachine"] : k.of = l.of /\ k.attr = l.attr => k = l
      /\ l.attr # "generatedaddress"
  BY <1>3, <1>4, <1>5
<1>7. l.of \in Bus => l = l4
  BY <1>4, <1>5 DEF Bus
<1> QED
  BY <1>4, <1>6, <1>7

(* Each device has the attribute present, and the address that VMware      *)
(* generates is a text.                                                    *)
LEMMA SomeAttrs ==
  ASSUME NEW b \in Bus
  PROVE  /\ "present" \in DOMAIN Attrs[b] /\ Attrs[b]["present"] = "bool"
         /\ "generatedaddress" \in DOMAIN Attrs[b] => Attrs[b]["generatedaddress"] = "text"
<1>1. Attrs[b] = CASE b \in {"ide", "sata", "nvme"} -> Device
                   [] b = "scsi"     -> SCSIDevice
                   [] b = "ethernet" -> Ethernet
                   [] b = "usb"      -> USBDevice
  BY DEF Attrs
<1>2. CASE b \in {"ide", "sata", "nvme"}
  <2>1. Attrs[b] = Device
    BY <1>1, <1>2
  <2> QED
    BY <2>1 DEF Device
<1>3. CASE b = "scsi"
  <2>1. Attrs[b] = SCSIDevice
    BY <1>1, <1>3
  <2> QED
    BY <2>1 DEF SCSIDevice
<1>4. CASE b = "ethernet"
  <2>1. Attrs[b] = Ethernet
    BY <1>1, <1>4
  <2> QED
    BY <2>1 DEF Ethernet
<1>5. CASE b = "usb"
  <2>1. Attrs[b] = USBDevice
    BY <1>1, <1>5
  <2> QED
    BY <2>1 DEF USBDevice
<1> QED
  BY <1>2, <1>3, <1>4, <1>5 DEF Bus

(* A value of a field is read back as it was written, but for what Go      *)
(* makes of a text in quotes; and so is one that is left out.              *)
LEMMA TripValue ==
  ASSUME NEW ty \in FieldTypes, NEW v \in Values(ty)
  PROVE  /\ ~Fails(ty, Unquote[v]) /\ ~Fails(ty, Blank)
         /\ Meant(ty, Unquote[v]) = (IF ty = "text" THEN Unquote[v] ELSE v)
         /\ Meant(ty, Blank) = Zero(ty)
         /\ v = Zero(ty) => (IF ty = "text" THEN Unquote[v] ELSE v) = Zero(ty)
<1>1. /\ \A t \in Number \cup {Blank, "true", "false"} : Unquote[t] = t
      /\ Unsigned \subseteq Number /\ Blank \notin Number
  BY ConstantsAssumption, Zenon DEF Blank
<1>2. /\ Blank # "true" /\ Blank # "false"
      /\ Zero("text") = Blank /\ Zero("bool") = "false"
      /\ "true" \in True /\ "false" \in False /\ "false" \notin True
  BY Zenon DEF Blank, Zero, True, False
<1>3. \A t, w : Fails(t, w) <=> w # Blank /\ ~Parses(t, w)
  BY Zenon DEF Fails, Blank
<1>4. \A t, w : Meant(t, w) = IF w = Blank THEN Zero(t)
                              ELSE IF w \in True /\ t = "bool" THEN "true"
                              ELSE IF t = "bool" THEN "false" ELSE w
  BY Zenon DEF Meant, Blank
<1>5. CASE ty = "bool"
  <2>1. v = "true" \/ v = "false"
    BY <1>5 DEF Values
  <2>2. Parses(ty, v) /\ Unquote[v] = v /\ v # Blank
    BY <1>1, <1>2, <1>5, <2>1 DEF Parses
  <2> QED
    BY <1>2, <1>3, <1>4, <1>5, <2>1, <2>2
<1>6. CASE ty = "int" \/ ty = "uint"
  <2>1. v \in Number /\ Parses(ty, v)
    BY <1>1, <1>6 DEF Values, Parses
  <2>2. Unquote[v] = v /\ v # Blank /\ ty # "bool" /\ ty # "text"
    BY <1>1, <1>6, <2>1
  <2> QED
    BY <1>3, <1>4, <2>1, <2>2
<1>7. CASE ty = "text"
  <2>1. \A w : Parses(ty, w)
    BY <1>7 DEF Parses
  <2>2. Unquote[Blank] = Blank
    BY <1>1
  <2> QED
    BY <1>2, <1>3, <1>4, <1>7, <2>1, <2>2
<1> QED
  BY <1>5, <1>6, <1>7 DEF FieldTypes

(* The lines of the virtual machine are all there, and each is one.        *)
Complete == TypeOK /\ LinesInv /\ OneLines /\ pc = "done" /\ type = "VirtualMachine"

(* What the lines say of a key is what the encoder wrote of it, if it did. *)
LEMMA WrittenSome ==
  ASSUME Complete, NEW of, NEW at, NEW attr
  PROVE  LET k == [of |-> of, at |-> at, attr |-> attr]
         IN  \/ Written(of, at, attr) = Blank /\ \A x : IsWritten(x) => x.key # k
             \/ \E x : IsWritten(x) /\ x.key = k /\ Written(of, at, attr) = Unquote[x.text]
<1> DEFINE k == [of |-> of, at |-> at, attr |-> attr]
           found == LinesOf(of, at, attr)
           last == CHOOSE m \in found : \A l \in found : l <= m
<1>1. \A x : IsWritten(x) => x.kind = "entry" /\ x.quoted
  BY DEF IsWritten, LineOfLeaf, LineOfAttr, WrittenLine
<1>2. \A x : IsWritten(x) <=> \E j \in DOMAIN lines : lines[j] = x
  BY DEF Complete, LinesInv
<1>3. found = {j \in DOMAIN lines : lines[j].key = k}
  BY <1>1, <1>2 DEF LinesOf
<1>4. Written(of, at, attr) = IF found = {} THEN Blank ELSE TextOf(lines[last])
  BY Zenon DEF Written, Blank
<1>5. Len(lines) \in Nat /\ DOMAIN lines = 1..Len(lines)
  BY DEF Complete, TypeOK
<1> HIDE DEF k, found
<1>6. CASE found = {}
  BY <1>2, <1>3, <1>4, <1>6 DEF k
<1>7. CASE found # {}
  <2>1. last \in found
    <3>1. \E m \in found : \A l \in found : l <= m
      BY <1>3, <1>5, <1>7, Greatest
    <3> QED
      BY <3>1
  <2> HIDE DEF last
  <2>2. IsWritten(lines[last]) /\ lines[last].key = k
    BY <1>2, <1>3, <2>1
  <2>3. TextOf(lines[last]) = Unquote[lines[last].text]
    BY <1>1, <2>2 DEF TextOf
  <2> QED
    BY <1>4, <1>7, <2>2, <2>3 DEF k
<1> QED
  BY <1>6, <1>7
-----------------------------------------------------------------------------
(* A virtual machine has a slice of each bus.                              *)
LEMMA AllBuses ==
  ASSUME type = "VirtualMachine"
  PROVE  /\ type \in DOMAIN Slices
         /\ BusesOf = Bus
         /\ \A b \in Bus : \E s \in DOMAIN Slices[type] : Slices[type][s] = b
<1>1. Slices[type] = <<"ethernet", "ide", "scsi", "sata", "nvme", "usb">>
  BY DEF Slices
<1>2. DOMAIN Slices[type] = 1..6
  BY <1>1
<1>3. type \in DOMAIN Slices
  BY DEF Slices
<1>4. \A b \in Bus : \E s \in DOMAIN Slices[type] : Slices[type][s] = b
  <2>1. {1, 2, 3, 4, 5, 6} \subseteq DOMAIN Slices[type]
    BY <1>2
  <2> QED
    BY <1>1, <2>1 DEF Bus
<1>5. \A s \in DOMAIN Slices[type] : Slices[type][s] \in Bus
  BY <1>3, SlicesOnce
<1> QED
  BY <1>3, <1>4, <1>5 DEF BusesOf

(* The elements that are written.                                          *)
LEMMA HeldElements ==
  ASSUME machine \in Machines, NEW b \in Bus
  PROVE  /\ Held(b) \in Nat /\ Held(b) <= Len(machine.devs[b])
         /\ machine.devs[b] \in Seq(AttrsOf(b))
         /\ \A k \in 1..Held(b) :
              /\ machine.devs[b][k] \in AttrsOf(b)
              /\ DOMAIN machine.devs[b][k] = DOMAIN Attrs[b]
              /\ \A a \in DOMAIN Attrs[b] : machine.devs[b][k][a] \in Values(Attrs[b][a])
<1>1. machine.devs[b] \in Seq(AttrsOf(b))
  BY CodecAssumption
<1>2. Held(b) \in Nat /\ Held(b) <= Len(machine.devs[b])
  BY <1>1, KeptBound DEF Held
<1>3. \A k \in 1..Held(b) : machine.devs[b][k] \in AttrsOf(b)
  BY <1>1, <1>2
<1>4. \A d \in AttrsOf(b) : DOMAIN d = DOMAIN Attrs[b] /\ \A a \in DOMAIN Attrs[b] : d[a] \in Values(Attrs[b][a])
  BY DEF AttrsOf
<1> QED
  BY <1>1, <1>2, <1>3, <1>4

(* When the encoder has ended, each field and each attribute that is not   *)
(* left out has its line.                                                  *)
LEMMA EndLines ==
  ASSUME TypeOK, LinesInv, pc = "done", type = "VirtualMachine", NEW x
  PROVE  IsWritten(x) <=>
           \/ \E l \in Leaves[type] : ~LeftOut(l.attr, l.type, machine.leaves[l]) /\ x = LineOfLeaf(l)
           \/ \E b \in Bus : \E k \in 1..Held(b) : \E a \in DOMAIN Attrs[b] :
                AttrWritten(b, k, a) /\ x = LineOfAttr(b, k, a)
<1> DEFINE Q(b) == \E k \in 1..Held(b) : \E a \in DOMAIN Attrs[b] :
                     AttrWritten(b, k, a) /\ x = LineOfAttr(b, k, a)
<1>1. type \in DOMAIN Slices /\ array > Len(Slices[type])
  BY AllBuses DEF LinesInv
<1>2. Len(Slices[type]) \in Nat /\ DOMAIN Slices[type] = 1..Len(Slices[type])
      /\ \A s \in DOMAIN Slices[type] : Slices[type][s] \in Bus
  BY <1>1, SlicesOnce
<1>3. Len(Slices[type]) = 6
  <2>1. Slices[type] = <<"ethernet", "ide", "scsi", "sata", "nvme", "usb">>
    BY DEF Slices
  <2> QED
    BY <2>1
<1>4. array > 0 /\ \A s \in DOMAIN Slices[type] : Passed(s) = Held(Slices[type][s])
  <2>1. array > 6 /\ array \in Nat
    BY <1>1, <1>3 DEF TypeOK
  <2>2. array > 0 /\ \A s \in 1..6 : s < array
    BY <2>1
  <2> QED
    BY <1>2, <1>3, <2>2 DEF Passed
<1>5. IsWritten(x) <=>
        \/ \E l \in Leaves[type] : ~LeftOut(l.attr, l.type, machine.leaves[l]) /\ x = LineOfLeaf(l)
        \/ \E s \in DOMAIN Slices[type] : Q(Slices[type][s])
  BY <1>4 DEF IsWritten, LeafWritten
<1> HIDE DEF Q
<1>6. (\E s \in DOMAIN Slices[type] : Q(Slices[type][s])) <=> \E b \in Bus : Q(b)
  BY <1>2, AllBuses
<1> QED
  BY <1>5, <1>6 DEF Q

(* The key of an element has a number in it.                               *)
LEMMA PlaceNumbered ==
  ASSUME NEW b, NEW k
  PROVE  At(b, k) # <<>>
<1>1. PlaceOf(b, k) # <<>>
  BY DEF PlaceOf
<1> QED
  BY <1>1, Zenon DEF At, Address

(* The elements that are written, as the property lists them.              *)
LEMMA KeptElements ==
  ASSUME machine \in Machines, NEW b \in Bus
  PROVE  /\ DOMAIN Encoded(b) = 1..Held(b)
         /\ \A k \in 1..Held(b) : Encoded(b)[k] = machine.devs[b][k]
<1>1. Held(b) \in Nat /\ Held(b) <= Len(machine.devs[b]) /\ machine.devs[b] \in Seq(AttrsOf(b))
  BY HeldElements
<1>2. Encoded(b) = SubSeq(machine.devs[b], 1, Held(b))
  BY DEF Encoded, Held
<1> QED
  BY <1>1, <1>2

(* The key of a controller has the number of its adapter, and no other.    *)
LEMMA ControllerPlace ==
  ASSUME machine \in Machines, NEW b \in Bus, NEW k \in 1..Held(b),
         IsController(b, machine.devs[b][k])
  PROVE  At(b, k) = <<AdapterOf(Encoded(b), k)>>
<1>1. b = "scsi" /\ b \in Several
  BY DEF IsController, Several, Adapted
<1>2. Held(b) \in Nat
  BY HeldElements
<1>3. {l \in 1..(k - 1) : ~IsController("scsi", Encoded(b)[l])}
        = {l \in 1..(k - 1) : ~IsController(b, machine.devs[b][l])}
  <2>1. \A l \in 1..(k - 1) : l \in 1..Held(b)
    BY <1>2
  <2> QED
    BY <1>1, <2>1, KeptElements
<1>4. AdapterOf(Encoded(b), k) = Taken(b, k) \div PerAdapter[b]
  BY <1>1, <1>3 DEF AdapterOf, Taken
<1>5. PlaceOf(b, k) = <<Taken(b, k) \div PerAdapter[b], Taken(b, k) % PerAdapter[b]>>
  BY <1>1 DEF PlaceOf
<1>6. At(b, k) = <<PlaceOf(b, k)[1]>>
  BY DEF At, Address
<1> QED
  BY <1>4, <1>5, <1>6

(* An element that is alone has its place for itself: the adapters and the *)
(* places on them do not overlap.                                          *)
LEMMA PlacesApart ==
  ASSUME machine \in Machines, NEW b \in Bus,
         NEW j \in 1..Held(b), NEW k \in 1..Held(b), j # k, Alone(b, Encoded(b), k)
  PROVE  At(b, j) # At(b, k)
<1> DEFINE C(m) == IsController(b, machine.devs[b][m])
<1>1. Held(b) \in Nat
  BY HeldElements
<1>2. j \in Nat \ {0} /\ k \in Nat \ {0}
  BY <1>1
<1>3. /\ Taken(b, j) \in Nat /\ Taken(b, k) \in Nat
      /\ j < k /\ ~C(j) => Taken(b, j) < Taken(b, k)
      /\ k < j /\ ~C(k) => Taken(b, k) < Taken(b, j)
  BY <1>2, TakenCount
<1>4. ~C(j) /\ ~C(k) => Taken(b, j) # Taken(b, k)
  BY <1>2, <1>3
<1> DEFINE P == PerAdapter[b]
           cj == Taken(b, j)
           ck == Taken(b, k)
<1>5. b \in Several => P \in Nat \ {0}
  BY CodecAssumption DEF Several
<1>6. \A m : At(b, m) = IF C(m) THEN <<PlaceOf(b, m)[1]>>
                        ELSE CASE b = "usb"        -> <<PlaceOf(b, m)[2]>>
                               [] b \in Several   -> PlaceOf(b, m)
                               [] OTHER            -> <<m - 1>>
  BY DEF At, Address
<1>7. b # "scsi" => \A m : ~C(m)
  BY DEF IsController
<1>8. CASE b \in Several
  <2>1. PlaceOf(b, j) = <<cj \div P, cj % P>> /\ PlaceOf(b, k) = <<ck \div P, ck % P>>
    BY <1>8 DEF PlaceOf
  <2>2. b # "usb"
    BY <1>8 DEF Several
  <2>3. CASE C(j) /\ C(k)
    <3>1. /\ IsController(b, Encoded(b)[j]) /\ IsController(b, Encoded(b)[k])
          /\ j \in DOMAIN Encoded(b)
      BY <2>3, KeptElements
    <3>2. AdapterOf(Encoded(b), j) # AdapterOf(Encoded(b), k)
      BY <3>1 DEF Alone
    <3> DEFINE aj == AdapterOf(Encoded(b), j)
               ak == AdapterOf(Encoded(b), k)
    <3>3. At(b, j) = <<aj>> /\ At(b, k) = <<ak>>
      BY <2>3, ControllerPlace
    <3>4. aj # ak
      BY <3>2
    <3> HIDE DEF aj, ak
    <3> QED
      BY <3>3, <3>4
  <2>4. CASE C(j) /\ ~C(k)
    <3> HIDE DEF C, P, cj, ck
    <3>1. At(b, j) = <<cj \div P>> /\ At(b, k) = <<ck \div P, ck % P>>
      BY <1>6, <1>8, <2>1, <2>2, <2>4
    <3> QED
      BY <3>1
  <2>5. CASE ~C(j) /\ C(k)
    <3> HIDE DEF C, P, cj, ck
    <3>1. At(b, j) = <<cj \div P, cj % P>> /\ At(b, k) = <<ck \div P>>
      BY <1>6, <1>8, <2>1, <2>2, <2>5
    <3> QED
      BY <3>1
  <2>6. CASE ~C(j) /\ ~C(k)
    <3> HIDE DEF C, P
    <3>1. cj \in Nat /\ ck \in Nat /\ cj # ck
      BY <1>3, <1>4, <2>6
    <3> HIDE DEF cj, ck
    <3>2. At(b, j) = <<cj \div P, cj % P>> /\ At(b, k) = <<ck \div P, ck % P>>
      BY <1>6, <1>8, <2>1, <2>2, <2>6
    <3>3. ~(cj \div P = ck \div P /\ cj % P = ck % P)
      BY <1>5, <1>8, <3>1, DividedApart
    <3> QED
      BY <3>2, <3>3
  <2> QED
    BY <2>3, <2>4, <2>5, <2>6
<1>9. CASE b = "usb"
  <2>1. ~C(j) /\ ~C(k) /\ b \notin Several
    BY <1>7, <1>9 DEF Several
  <2>2. PlaceOf(b, j)[2] = cj /\ PlaceOf(b, k)[2] = ck
    BY <1>9, <2>1 DEF PlaceOf
  <2>3. cj # ck
    BY <1>4, <2>1
  <2> HIDE DEF C, cj, ck
  <2>4. At(b, j) = <<cj>> /\ At(b, k) = <<ck>>
    BY <1>6, <1>9, <2>1, <2>2
  <2> QED
    BY <2>3, <2>4
<1>10. CASE b \notin Several /\ b # "usb"
  <2>1. ~C(j) /\ ~C(k)
    BY <1>7, <1>10 DEF Several, Adapted
  <2> HIDE DEF C
  <2>2. At(b, j) = <<j - 1>> /\ At(b, k) = <<k - 1>>
    BY <1>6, <1>10, <2>1
  <2> QED
    BY <1>2, <2>2
<1> QED
  BY <1>8, <1>9, <1>10
-----------------------------------------------------------------------------
(* A field that is no slice is read back as it was.                        *)
LEMMA LeafRead ==
  ASSUME Complete, NEW l \in Leaves[type]
  PROVE  LET v == machine.leaves[l]
             w == Written(l.of, <<>>, l.attr)
         IN  ~Fails(l.type, w) /\ Meant(l.type, w) = IF l.type = "text" THEN Unquote[v] ELSE v
<1> DEFINE v == machine.leaves[l]
           k == [of |-> l.of, at |-> <<>>, attr |-> l.attr]
           w == Written(l.of, <<>>, l.attr)
<1>1. /\ TypeOK /\ LinesInv /\ pc = "done" /\ type = "VirtualMachine" /\ type \in DOMAIN Slices
      /\ machine \in Machines
  BY AllBuses DEF Complete, LinesInv
<1>2. l.type \in FieldTypes
  BY <1>1, LeafTypes
<1>3. v \in Values(l.type)
  BY <1>1, CodecAssumption
<1>4. \/ w = Blank /\ \A x : IsWritten(x) => x.key # k
      \/ \E x : IsWritten(x) /\ x.key = k /\ w = Unquote[x.text]
  BY <1>1, WrittenSome
<1>5. CASE w = Blank /\ \A x : IsWritten(x) => x.key # k
  <2>1. LineOfLeaf(l).key = k
    BY DEF LineOfLeaf, WrittenLine
  <2>2. ~IsWritten(LineOfLeaf(l))
    BY <1>5, <2>1
  <2>3. LeftOut(l.attr, l.type, machine.leaves[l])
    BY <1>1, <2>2, EndLines
  <2>4. v = Zero(l.type)
    BY <1>1, <2>3, LeavesApart DEF LeftOut
  <2> HIDE DEF v, w
  <2> QED
    BY <1>2, <1>3, <1>5, <2>4, TripValue DEF v, w
<1>6. ASSUME NEW x, IsWritten(x), x.key = k, w = Unquote[x.text]
      PROVE  w = Unquote[v]
  <2>1. CASE \E b \in Bus : \E j \in 1..Held(b) : \E a \in DOMAIN Attrs[b] : x = LineOfAttr(b, j, a)
    <3>1. PICK b \in Bus : \E j \in 1..Held(b) : \E a \in DOMAIN Attrs[b] : x = LineOfAttr(b, j, a)
      BY <2>1
    <3>2. PICK j, a : x = LineOfAttr(b, j, a)
      BY <3>1
    <3>3. x.key.at = At(b, j)
      BY <3>2 DEF LineOfAttr, WrittenLine
    <3> QED
      BY <1>6, <3>3, PlaceNumbered
  <2>2. CASE \E m \in Leaves[type] : x = LineOfLeaf(m)
    <3>1. PICK m \in Leaves[type] : x = LineOfLeaf(m)
      BY <2>2
    <3>2. x.key.of = m.of /\ x.key.attr = m.attr /\ x.text = machine.leaves[m]
      BY <3>1 DEF LineOfLeaf, WrittenLine
    <3>3. m = l
      BY <1>1, <1>6, <3>2, LeavesApart
    <3> QED
      BY <1>6, <3>2, <3>3
  <2> QED
    BY <1>1, <1>6, <2>1, <2>2, EndLines
<1>7. CASE w = Unquote[v]
  <2> HIDE DEF v, w
  <2> QED
    BY <1>2, <1>3, <1>7, TripValue DEF v, w
<1> QED
  BY <1>4, <1>5, <1>6, <1>7

(* A line of bus b is of an element, or says whether there is USB.         *)
LEMMA LineOfBus ==
  ASSUME Complete, NEW b \in Bus, NEW x, IsWritten(x), x.key.of = b
  PROVE  \/ /\ b = "usb" /\ x.key.at = <<>> /\ x.key.attr = "present"
            /\ x.text \in Values("bool")
         \/ \E k \in 1..Held(b) : \E a \in DOMAIN Attrs[b] :
              x.key.at = At(b, k) /\ x.key.attr = a /\ x.text = machine.devs[b][k][a]
<1>1. /\ TypeOK /\ LinesInv /\ pc = "done" /\ type = "VirtualMachine" /\ machine \in Machines
  BY DEF Complete, LinesInv
<1>2. CASE \E l \in Leaves[type] : x = LineOfLeaf(l)
  <2>1. PICK l \in Leaves[type] : x = LineOfLeaf(l)
    BY <1>2
  <2>2. x.key.of = l.of /\ x.key.at = <<>> /\ x.key.attr = l.attr /\ x.text = machine.leaves[l]
    BY <2>1 DEF LineOfLeaf, WrittenLine
  <2>3. l.of = "usb" /\ l.attr = "present" /\ l.type = "bool"
    BY <1>1, <2>2, LeavesApart
  <2>4. machine.leaves[l] \in Values(l.type)
    BY <1>1, CodecAssumption
  <2> QED
    BY <2>2, <2>3, <2>4
<1>3. CASE \E c \in Bus : \E k \in 1..Held(c) : \E a \in DOMAIN Attrs[c] : x = LineOfAttr(c, k, a)
  <2>1. PICK c \in Bus : \E k \in 1..Held(c) : \E a \in DOMAIN Attrs[c] : x = LineOfAttr(c, k, a)
    BY <1>3
  <2>2. PICK k \in 1..Held(c) : \E a \in DOMAIN Attrs[c] : x = LineOfAttr(c, k, a)
    BY <2>1
  <2>3. PICK a \in DOMAIN Attrs[c] : x = LineOfAttr(c, k, a)
    BY <2>2
  <2>4. /\ x.key.of = c /\ x.key.at = At(c, k) /\ x.key.attr = a
        /\ x.text = machine.devs[c][k][a]
    BY <2>3 DEF LineOfAttr, WrittenLine
  <2> QED
    BY <2>4
<1> QED
  BY <1>1, <1>2, <1>3, EndLines

(* Nothing that the encoder has written fails to parse.                    *)
LEMMA NothingFails ==
  ASSUME Complete, NEW b \in Bus, NEW at, NEW a \in DOMAIN Attrs[b]
  PROVE  ~Fails(Attrs[b][a], Written(b, at, a))
<1> DEFINE k == [of |-> b, at |-> at, attr |-> a]
           w == Written(b, at, a)
<1>1. /\ TypeOK /\ LinesInv /\ type = "VirtualMachine" /\ machine \in Machines
  BY DEF Complete, LinesInv
<1>2. Attrs[b][a] \in FieldTypes
  BY AttrTypes
<1>3. \A v \in Values(Attrs[b][a]) : ~Fails(Attrs[b][a], Unquote[v]) /\ ~Fails(Attrs[b][a], Blank)
  BY <1>2, TripValue
<1>4. ~Fails(Attrs[b][a], Blank)
  BY <1>2, <1>3, FieldType
<1>5. ASSUME NEW x, IsWritten(x), x.key = k
      PROVE  x.text \in Values(Attrs[b][a])
  <2>1. x.key.of = b /\ x.key.attr = a
    BY <1>5
  <2>2. CASE b = "usb" /\ x.key.attr = "present" /\ x.text \in Values("bool")
    <3>1. Attrs[b]["present"] = "bool"
      BY SomeAttrs
    <3> QED
      BY <2>1, <2>2, <3>1
  <2>3. CASE \E j \in 1..Held(b) : \E c \in DOMAIN Attrs[b] :
               x.key.attr = c /\ x.text = machine.devs[b][j][c]
    BY <1>1, <2>1, <2>3, HeldElements
  <2> QED
    BY <1>5, <2>1, <2>2, <2>3, LineOfBus
<1>6. \/ w = Blank
      \/ \E x : IsWritten(x) /\ x.key = k /\ w = Unquote[x.text]
  BY <1>1, WrittenSome
<1> HIDE DEF w, k
<1>7. ~Fails(Attrs[b][a], w)
  BY <1>3, <1>4, <1>5, <1>6
<1> QED
  BY <1>7 DEF w

(* An element that has its place for itself is read back.                  *)
LEMMA ElementRead ==
  ASSUME Complete, NEW b \in Bus, NEW k \in 1..Held(b), NEW a \in DOMAIN Attrs[b],
         \A j \in 1..Held(b) : At(b, j) = At(b, k) => j = k
  PROVE  Meant(Attrs[b][a], Written(b, At(b, k), a)) = AfterTrip(b, machine.devs[b][k])[a]
<1> DEFINE at == At(b, k)
           v == machine.devs[b][k][a]
           ty == Attrs[b][a]
           y == [of |-> b, at |-> at, attr |-> a]
           w == Written(b, at, a)
           c == IF ty = "text" THEN Unquote[v] ELSE v
<1>1. /\ TypeOK /\ LinesInv /\ pc = "done" /\ type = "VirtualMachine" /\ machine \in Machines
  BY DEF Complete, LinesInv
<1>2. ty \in FieldTypes
  BY AttrTypes
<1>3. v \in Values(ty) /\ DOMAIN machine.devs[b][k] = DOMAIN Attrs[b]
  BY <1>1, HeldElements
<1>4. AfterTrip(b, machine.devs[b][k])[a] = IF a = "generatedaddress" THEN Blank ELSE c
  BY <1>3, Zenon DEF AfterTrip, Blank
<1>5. a = "generatedaddress" => ty = "text"
  BY SomeAttrs
<1>6. \/ w = Blank /\ \A x : IsWritten(x) => x.key # y
      \/ \E x : IsWritten(x) /\ x.key = y /\ w = Unquote[x.text]
  BY <1>1, WrittenSome
<1>7. LineOfAttr(b, k, a).key = y /\ LineOfAttr(b, k, a).text = v
  BY DEF LineOfAttr, WrittenLine
<1>8. AttrWritten(b, k, a) <=> ~LeftOut(a, ty, v)
  BY DEF AttrWritten
<1>9. ASSUME NEW x, IsWritten(x), x.key = y
      PROVE  x.text = v /\ AttrWritten(b, k, a)
  <2>1. x.key.of = b /\ x.key.at = at /\ x.key.attr = a /\ at # <<>>
    BY <1>9, PlaceNumbered
  <2>2. \A l : LineOfLeaf(l).key.at = <<>>
    BY DEF LineOfLeaf, WrittenLine
  <2>3. PICK e \in Bus : \E j \in 1..Held(e) : \E d \in DOMAIN Attrs[e] :
               AttrWritten(e, j, d) /\ x = LineOfAttr(e, j, d)
    BY <1>1, <1>9, <2>1, <2>2, EndLines
  <2>4. PICK j \in 1..Held(e) : \E d \in DOMAIN Attrs[e] : AttrWritten(e, j, d) /\ x = LineOfAttr(e, j, d)
    BY <2>3
  <2>5. PICK d \in DOMAIN Attrs[e] : AttrWritten(e, j, d) /\ x = LineOfAttr(e, j, d)
    BY <2>4
  <2>6. /\ x.key.of = e /\ x.key.at = At(e, j) /\ x.key.attr = d
        /\ x.text = machine.devs[e][j][d]
    BY <2>5 DEF LineOfAttr, WrittenLine
  <2>7. e = b /\ d = a
    BY <2>1, <2>6
  <2>8. j = k
    BY <2>1, <2>6, <2>7
  <2> QED
    BY <2>5, <2>6, <2>7, <2>8
<1>10. CASE LeftOut(a, ty, v)
  <2>1. w = Blank
    BY <1>6, <1>8, <1>9, <1>10
  <2>2. a = "generatedaddress" \/ v = Zero(ty)
    BY <1>10 DEF LeftOut
  <2>3. Zero("text") = Blank
    BY Zenon DEF Zero, Blank
  <2> HIDE DEF w, c, ty, v
  <2>4. Meant(ty, w) = Zero(ty) /\ (v = Zero(ty) => c = Zero(ty))
    BY <1>2, <1>3, <2>1, TripValue DEF c
  <2>5. Meant(ty, w) = IF a = "generatedaddress" THEN Blank ELSE c
    BY <1>5, <2>2, <2>3, <2>4
  <2> QED
    BY <1>4, <2>5 DEF w, ty
<1>11. CASE ~LeftOut(a, ty, v)
  <2>1. IsWritten(LineOfAttr(b, k, a))
    BY <1>1, <1>8, <1>11, EndLines
  <2>2. w = Unquote[v]
    BY <1>6, <1>7, <1>9, <2>1
  <2>3. a # "generatedaddress"
    BY <1>11 DEF LeftOut
  <2> HIDE DEF w, c, ty, v
  <2>4. Meant(ty, w) = c
    BY <1>2, <1>3, <2>2, TripValue DEF c
  <2> QED
    BY <1>4, <2>3, <2>4 DEF w, ty
<1> QED
  BY <1>10, <1>11
-----------------------------------------------------------------------------
(* The USB device that is made of usb.present.                             *)
USBOf == [ZeroDevice("usb") EXCEPT !.present = machine.leaves[Leaf("usb", "present", "bool")]]

(* It is in the file, under a key without a number, and is read as it is.  *)
LEMMA USBRead ==
  ASSUME Complete
  PROVE  /\ <<>> \in DevicesIn("usb")
         /\ [a \in DOMAIN Attrs["usb"] |-> Meant(Attrs["usb"][a], Written("usb", <<>>, a))] = USBOf
<1> DEFINE l == Leaf("usb", "present", "bool")
           A == Attrs["usb"]
<1>1. /\ TypeOK /\ LinesInv /\ pc = "done" /\ type = "VirtualMachine" /\ machine \in Machines
      /\ "usb" \in Bus
  BY DEF Complete, LinesInv, Bus
<1>2. l \in Leaves[type] /\ l.of = "usb" /\ l.attr = "present" /\ l.type = "bool"
  BY <1>1 DEF Leaves, Leaf
<1>3. "present" \in DOMAIN A /\ A["present"] = "bool"
  BY <1>1, SomeAttrs
<1>4. Meant(A["present"], Written("usb", <<>>, "present")) = machine.leaves[l]
  <2>1. LET v == machine.leaves[l]
            w == Written(l.of, <<>>, l.attr)
        IN  ~Fails(l.type, w) /\ Meant(l.type, w) = IF l.type = "text" THEN Unquote[v] ELSE v
    BY <1>2, LeafRead
  <2> HIDE DEF l
  <2> QED
    BY <1>2, <1>3, <2>1
<1>5. ASSUME NEW a \in DOMAIN A, a # "present"
      PROVE  Meant(A[a], Written("usb", <<>>, a)) = Zero(A[a])
  <2> DEFINE k == [of |-> "usb", at |-> <<>>, attr |-> a]
  <2>1. \A x : IsWritten(x) => x.key # k
    <3> SUFFICES ASSUME NEW x, IsWritten(x), x.key = k PROVE FALSE
      OBVIOUS
    <3>1. x.key.of = "usb" /\ x.key.at = <<>> /\ x.key.attr = a
      OBVIOUS
    <3> QED
      BY <1>1, <1>5, <3>1, LineOfBus, PlaceNumbered
  <2>2. Written("usb", <<>>, a) = Blank
    BY <1>1, <2>1, WrittenSome
  <2>3. A[a] \in FieldTypes
    BY <1>1, AttrTypes
  <2>4. \A v \in Values(A[a]) : Meant(A[a], Blank) = Zero(A[a])
    BY <2>3, TripValue
  <2> QED
    BY <2>2, <2>3, <2>4, FieldType
<1>6. <<>> \in DevicesIn("usb")
  <2>1. IsWritten(LineOfLeaf(l))
    <3>1. ~LeftOut(l.attr, l.type, machine.leaves[l])
      BY <1>2 DEF LeftOut
    <3> QED
      BY <1>1, <1>2, <3>1, EndLines
  <2>2. PICK j \in DOMAIN lines : lines[j] = LineOfLeaf(l)
    BY <1>1, <2>1 DEF Complete, LinesInv
  <2>3. lines[j].kind = "entry" /\ lines[j].key.of = "usb" /\ lines[j].key.at = <<>>
    BY <1>2, <2>2 DEF LineOfLeaf, WrittenLine
  <2> QED
    BY <2>3 DEF DevicesIn
<1>7. USBOf = [a \in DOMAIN A |-> IF a = "present" THEN machine.leaves[l] ELSE Zero(A[a])]
  BY <1>3 DEF USBOf, ZeroDevice
<1> HIDE DEF A, l
<1>8. [a \in DOMAIN A |-> Meant(A[a], Written("usb", <<>>, a))] = USBOf
  BY <1>4, <1>5, <1>7
<1> QED
  BY <1>6, <1>8 DEF A

(* The devices in the file are the elements that are written, and for USB  *)
(* one more.                                                               *)
LEMMA DevicesWritten ==
  ASSUME Complete, NEW b \in Bus
  PROVE  DevicesIn(b) = {At(b, k) : k \in 1..Held(b)} \cup (IF b = "usb" THEN {<<>>} ELSE {})
<1>1. /\ TypeOK /\ LinesInv /\ pc = "done" /\ type = "VirtualMachine" /\ machine \in Machines
      /\ \A x : IsWritten(x) <=> \E j \in DOMAIN lines : lines[j] = x
  BY DEF Complete, LinesInv
<1>2. ASSUME NEW j \in DOMAIN lines, lines[j].kind = "entry", lines[j].key.of = b
      PROVE  \/ \E k \in 1..Held(b) : lines[j].key.at = At(b, k)
             \/ b = "usb" /\ lines[j].key.at = <<>>
  <2>1. IsWritten(lines[j])
    BY <1>1
  <2> QED
    BY <1>2, <2>1, LineOfBus
<1>3. ASSUME NEW k \in 1..Held(b)
      PROVE  At(b, k) \in DevicesIn(b)
  <2>1. "present" \in DOMAIN Attrs[b] /\ AttrWritten(b, k, "present")
    BY SomeAttrs DEF AttrWritten, LeftOut
  <2>2. IsWritten(LineOfAttr(b, k, "present"))
    BY <1>1, <2>1, EndLines
  <2>3. PICK j \in DOMAIN lines : lines[j] = LineOfAttr(b, k, "present")
    BY <1>1, <2>2
  <2>4. lines[j].kind = "entry" /\ lines[j].key.of = b /\ lines[j].key.at = At(b, k)
    BY <2>3 DEF LineOfAttr, WrittenLine
  <2> QED
    BY <2>4 DEF DevicesIn
<1>4. b = "usb" => <<>> \in DevicesIn(b)
  BY USBRead
<1>5. \A at : at \in DevicesIn(b) <=>
        \E j \in DOMAIN lines : lines[j].kind = "entry" /\ lines[j].key.of = b /\ at = lines[j].key.at
  BY DEF DevicesIn
<1> QED
  BY <1>2, <1>3, <1>4, <1>5

(* What is written is read without an error.                               *)
LEMMA EncodedReadable ==
  ASSUME Inv, LinesInv, OneLines, pc = "done", type = "VirtualMachine"
  PROVE  result = "ok" /\ DecodedAsWritten /\ Complete
<1>1. Complete
  BY DEF Complete, Inv
<1>2. \A j \in DOMAIN lines : lines[j].kind = "entry"
  <2>1. \A x : IsWritten(x) => x.kind = "entry"
    BY DEF IsWritten, LineOfLeaf, LineOfAttr, WrittenLine
  <2> QED
    BY <2>1 DEF LinesInv
<1>3. n \in Nat /\ n >= 1 /\ Len(lines) \in Nat /\ DOMAIN lines = 1..Len(lines)
  BY DEF Inv, TypeOK
<1>4. n > Len(lines)
  <2> SUFFICES ASSUME n <= Len(lines) PROVE FALSE
    BY <1>3
  <2>1. n \in DOMAIN lines
    BY <1>3
  <2>2. lines[n].kind = "broken" \/ lines[n].kind = "long"
    BY DEF Inv, EndInv
  <2> QED
    BY <1>2, <2>1, <2>2
<1>5. Sound
  <2>1. \A l \in Leaves[type] : ~Fails(l.type, Written(l.of, <<>>, l.attr))
    BY <1>1, LeafRead
  <2>2. \A b \in Bus : \A at \in DevicesIn(b) : \A a \in DOMAIN Attrs[b] :
          ~Fails(Attrs[b][a], Written(b, at, a))
    BY <1>1, NothingFails
  <2> QED
    BY <2>1, <2>2, AllBuses DEF Sound
<1>6. ~failed /\ DecodedAsWritten
  BY <1>4, <1>5, EndedAsWritten
<1> QED
  BY <1>1, <1>4, <1>6 DEF Inv, EndInv
-----------------------------------------------------------------------------
(* The elements of a bus that are alone, and the others. *)
AloneOf(b)  == {k \in DOMAIN Encoded(b) : Alone(b, Encoded(b), k)}
SharedOf(b) == DOMAIN Encoded(b) \ AloneOf(b)

(* The members of two sets that have none in common.                       *)
LEMMA DisjointUnion ==
  ASSUME NEW A, NEW B, IsFiniteSet(A), IsFiniteSet(B), A \cap B = {}
  PROVE  IsFiniteSet(A \cup B) /\ Cardinality(A \cup B) = Cardinality(A) + Cardinality(B)
<1>1. Cardinality(A \cap B) = 0
  BY FS_EmptySet
<1>2. /\ IsFiniteSet(A \cup B)
      /\ Cardinality(A \cup B) = Cardinality(A) + Cardinality(B) - Cardinality(A \cap B)
  BY FS_Union
<1>3. Cardinality(A) \in Nat /\ Cardinality(B) \in Nat
  BY FS_CardinalityType
<1> QED
  BY <1>1, <1>2, <1>3

(* The devices of a bus have an address for each element that is alone,    *)
(* one for each adapter that others share, and for USB one more.           *)
LEMMA DevicesCounted ==
  ASSUME Complete, NEW b \in Bus
  PROVE  Cardinality(DevicesIn(b)) =
           Cardinality(AloneOf(b)) + Cardinality({AdapterOf(Encoded(b), k) : k \in SharedOf(b)})
             + IF b = "usb" THEN 1 ELSE 0
<1> DEFINE H == Held(b)
           G == AloneOf(b)
           R == SharedOf(b)
           A == {At(b, k) : k \in G}
           N == {AdapterOf(Encoded(b), k) : k \in R}
           S == {<<m>> : m \in N}
           U == IF b = "usb" THEN {<<>>} ELSE {}
           f == [k \in G |-> At(b, k)]
           g == [m \in N |-> <<m>>]
           h == [k \in R |-> AdapterOf(Encoded(b), k)]
<1>1. machine \in Machines
  BY DEF Complete, LinesInv
<1>2. /\ G \cup R = 1..H /\ G \cap R = {} /\ DOMAIN Encoded(b) = 1..H
      /\ \A k \in 1..H : Encoded(b)[k] = machine.devs[b][k]
  BY <1>1, KeptElements DEF AloneOf, SharedOf
<1>3. IsFiniteSet(G) /\ IsFiniteSet(R)
  <2>1. Held(b) \in Nat
    BY <1>1, HeldElements
  <2>2. IsFiniteSet(1..H)
    BY <2>1, FS_Interval
  <2> HIDE DEF G, R
  <2> QED
    BY <1>2, <2>2, FS_Subset
<1>4. \A k \in R : At(b, k) = <<AdapterOf(Encoded(b), k)>>
  <2> SUFFICES ASSUME NEW k \in R PROVE At(b, k) = <<AdapterOf(Encoded(b), k)>>
    OBVIOUS
  <2>1. k \in 1..H /\ IsController(b, Encoded(b)[k])
    BY <1>2 DEF SharedOf, AloneOf, Alone
  <2> QED
    BY <1>1, <1>2, <2>1, ControllerPlace
<1>5. \A k \in G : \A j \in 1..H : j # k => At(b, j) # At(b, k)
  <2> SUFFICES ASSUME NEW k \in G, NEW j \in 1..H, j # k PROVE At(b, j) # At(b, k)
    OBVIOUS
  <2>1. k \in 1..H /\ Alone(b, Encoded(b), k)
    BY <1>2 DEF AloneOf
  <2> QED
    BY <1>1, <2>1, PlacesApart
<1>6. Cardinality(A) = Cardinality(G) /\ IsFiniteSet(A)
  <2>1. /\ f \in [G -> A] /\ (\A j, k \in G : f[j] = f[k] => j = k)
        /\ \A x \in A : \E k \in G : f[k] = x
    <3>1. G \subseteq 1..H
      BY <1>2
    <3> QED
      BY <1>5, <3>1
  <2> HIDE DEF f, A, G
  <2>2. f \in Bijection(G, A)
    BY <2>1 DEF Bijection, Injection, Surjection, IsInjective
  <2> QED
    BY <1>3, <2>2, FS_Bijection DEF ExistsBijection
<1>7. IsFiniteSet(N)
  <2>1. h \in Surjection(R, N)
    BY DEF Surjection
  <2> HIDE DEF h, N, R
  <2> QED
    BY <1>3, <2>1, FS_Surjection
<1>8. Cardinality(S) = Cardinality(N) /\ IsFiniteSet(S)
  <2>1. /\ g \in [N -> S] /\ (\A l, m \in N : g[l] = g[m] => l = m)
        /\ \A x \in S : \E m \in N : g[m] = x
    <3> HIDE DEF N
    <3> QED
      OBVIOUS
  <2> HIDE DEF g, S, N
  <2>2. g \in Bijection(N, S)
    BY <2>1 DEF Bijection, Injection, Surjection, IsInjective
  <2> QED
    BY <1>7, <2>2, FS_Bijection DEF ExistsBijection
<1>9. DevicesIn(b) = (A \cup S) \cup U
  <2>1. DevicesIn(b) = {At(b, k) : k \in 1..H} \cup U
    BY DevicesWritten
  <2>2. S = {At(b, k) : k \in R}
    <3> HIDE DEF R
    <3> QED
      BY <1>4
  <2> HIDE DEF G, R, U, S, H
  <2>3. {At(b, k) : k \in 1..H} = A \cup S
    BY <1>2, <2>2
  <2> QED
    BY <2>1, <2>3
<1>10. A \cap S = {}
  <2> SUFFICES ASSUME NEW k \in G, NEW j \in R, At(b, k) = <<AdapterOf(Encoded(b), j)>> PROVE FALSE
    OBVIOUS
  <2>1. j \in 1..H /\ j # k
    BY <1>2
  <2> QED
    BY <1>4, <1>5, <2>1
<1>11. U \cap (A \cup S) = {}
  <2>1. \A k : At(b, k) # <<>>
    BY PlaceNumbered
  <2>2. \A m : <<m>> # <<>>
    OBVIOUS
  <2> QED
    BY <2>1, <2>2
<1>12. IsFiniteSet(U) /\ Cardinality(U) = IF b = "usb" THEN 1 ELSE 0
  BY FS_EmptySet, FS_Singleton
<1> HIDE DEF A, S, U, G, N
<1>13. IsFiniteSet(A \cup S) /\ Cardinality(A \cup S) = Cardinality(A) + Cardinality(S)
  BY <1>6, <1>8, <1>10, DisjointUnion
<1>14. Cardinality((A \cup S) \cup U) = Cardinality(A \cup S) + Cardinality(U)
  BY <1>11, <1>12, <1>13, DisjointUnion
<1>15. Cardinality(DevicesIn(b)) = Cardinality(G) + Cardinality(N) + IF b = "usb" THEN 1 ELSE 0
  BY <1>6, <1>8, <1>9, <1>12, <1>13, <1>14, FS_CardinalityType
<1> QED
  BY <1>15 DEF G, N

(* The elements that are alone are read as they were written, each in a    *)
(* device of its own, and of what the others are read into there is one    *)
(* device for each adapter.                                                *)
LEMMA BusRead ==
  ASSUME Inv, LinesInv, OneLines, pc = "done", type = "VirtualMachine", NEW b \in Bus
  PROVE  /\ \E f \in Injection(AloneOf(b), DOMAIN devs[b]) :
              /\ \A k \in AloneOf(b) : devs[b][f[k]].attrs = AfterTrip(b, Encoded(b)[k])
              /\ b = "usb" => \E j \in DOMAIN devs[b] :
                   devs[b][j].attrs = USBOf /\ \A k \in AloneOf(b) : f[k] # j
         /\ Len(devs[b]) =
              Cardinality(AloneOf(b)) + Cardinality({AdapterOf(Encoded(b), k) : k \in SharedOf(b)})
                + IF b = "usb" THEN 1 ELSE 0
<1> DEFINE q == devs[b]
           G == AloneOf(b)
           Read(at) == [a \in DOMAIN Attrs[b] |-> Meant(Attrs[b][a], Written(b, at, a))]
           J(at) == CHOOSE j \in DOMAIN q : q[j] = [at |-> at, attrs |-> Read(at)]
           f == [k \in G |-> J(At(b, k))]
<1>1. machine \in Machines /\ Complete /\ DecodedAsWritten /\ result = "ok"
  BY EncodedReadable DEF LinesInv
<1>2. /\ ToSet(q) = {[at |-> at, attrs |-> Read(at)] : at \in DevicesIn(b)}
      /\ Len(q) = Cardinality(DevicesIn(b))
  BY <1>1, AllBuses DEF DecodedAsWritten
<1>3. DevicesIn(b) = {At(b, k) : k \in 1..Held(b)} \cup (IF b = "usb" THEN {<<>>} ELSE {})
  BY <1>1, DevicesWritten
<1>4. \A k \in G : k \in 1..Held(b) /\ Alone(b, Encoded(b), k) /\ Encoded(b)[k] = machine.devs[b][k]
  BY <1>1, KeptElements DEF AloneOf
<1> HIDE DEF q, G, Read
<1>5. ASSUME NEW at \in DevicesIn(b)
      PROVE  J(at) \in DOMAIN q /\ q[J(at)] = [at |-> at, attrs |-> Read(at)]
  <2>1. [at |-> at, attrs |-> Read(at)] \in ToSet(q)
    BY <1>2
  <2>2. \E j \in DOMAIN q : q[j] = [at |-> at, attrs |-> Read(at)]
    BY <2>1 DEF ToSet
  <2> QED
    BY <2>2
<1>6. \A at \in DevicesIn(b) : J(at) \in DOMAIN q /\ q[J(at)].at = at /\ q[J(at)].attrs = Read(at)
  BY <1>5
<1> HIDE DEF J
<1>7. \A k \in G : At(b, k) \in DevicesIn(b)
  BY <1>3, <1>4
<1>8. ASSUME NEW k \in G
      PROVE  Read(At(b, k)) = AfterTrip(b, Encoded(b)[k])
  <2>1. k \in 1..Held(b) /\ Encoded(b)[k] = machine.devs[b][k]
    BY <1>4
  <2>2. \A j \in 1..Held(b) : At(b, j) = At(b, k) => j = k
    BY <1>1, <1>4, PlacesApart
  <2>3. \A a \in DOMAIN Attrs[b] :
          Meant(Attrs[b][a], Written(b, At(b, k), a)) = AfterTrip(b, machine.devs[b][k])[a]
    BY <1>1, <2>1, <2>2, ElementRead
  <2>4. DOMAIN machine.devs[b][k] = DOMAIN Attrs[b]
    BY <1>1, <2>1, HeldElements
  <2>5. AfterTrip(b, machine.devs[b][k]) =
          [a \in DOMAIN Attrs[b] |-> AfterTrip(b, machine.devs[b][k])[a]]
    BY <2>4 DEF AfterTrip
  <2> QED
    BY <2>1, <2>3, <2>5 DEF Read
<1>9. f \in Injection(G, DOMAIN q)
  <2>1. f \in [G -> DOMAIN q]
    BY <1>6, <1>7
  <2>2. ASSUME NEW j \in G, NEW k \in G, f[j] = f[k] PROVE j = k
    <3>1. At(b, j) = At(b, k)
      BY <1>6, <1>7, <2>2
    <3> QED
      BY <1>1, <1>4, <3>1, PlacesApart
  <2> HIDE DEF f
  <2> QED
    BY <2>1, <2>2 DEF Injection, IsInjective
<1>10. \A k \in G : q[f[k]].attrs = AfterTrip(b, Encoded(b)[k])
  BY <1>6, <1>7, <1>8
<1>11. ASSUME b = "usb"
       PROVE  \E j \in DOMAIN q : q[j].attrs = USBOf /\ \A k \in G : f[k] # j
  <2>1. <<>> \in DevicesIn(b)
    BY <1>3, <1>11
  <2>2. Read(<<>>) = USBOf
    BY <1>1, <1>11, USBRead DEF Read
  <2>3. \A k \in G : At(b, k) # <<>>
    BY PlaceNumbered
  <2>4. J(<<>>) \in DOMAIN q /\ q[J(<<>>)].attrs = USBOf /\ \A k \in G : f[k] # J(<<>>)
    BY <1>6, <1>7, <2>1, <2>2, <2>3
  <2> QED
    BY <2>4
<1>12. Len(q) = Cardinality(AloneOf(b))
          + Cardinality({AdapterOf(Encoded(b), k) : k \in SharedOf(b)}) + IF b = "usb" THEN 1 ELSE 0
  BY <1>1, <1>2, DevicesCounted
<1> HIDE DEF f
<1> QED
  BY <1>9, <1>10, <1>11, <1>12 DEF q, G

(* A virtual machine that is written and read is the same again, for any   *)
(* virtual machine whose texts fit into a line each, with any number of    *)
(* controllers, any limits of the hardware and any order of the map.       *)
THEOREM RoundTrips == CodecSpec => []RoundTrip
<1>1. Inv /\ PlaceInv /\ LinesInv => RoundTrip
  <2> SUFFICES ASSUME Inv, LinesInv, OneLines, pc = "done", type = "VirtualMachine"
               PROVE  RoundTrip
    BY DEF RoundTrip
  <2>1. result = "ok" /\ DecodedAsWritten /\ Complete
    BY EncodedReadable
  <2>2. \A l \in Leaves[type] :
          leaves[l] = IF l.type = "text" THEN Unquote[machine.leaves[l]] ELSE machine.leaves[l]
    <3>1. \A l \in Leaves[type] : leaves[l] = Meant(l.type, Written(l.of, <<>>, l.attr))
      BY <2>1 DEF DecodedAsWritten
    <3> QED
      BY <2>1, <3>1, LeafRead
  <2>3. ASSUME NEW b \in BusesOf
        PROVE  LET kept  == Encoded(b)
                   alone == {k \in DOMAIN kept : Alone(b, kept, k)}
                   usb   == [ZeroDevice(b) EXCEPT !.present =
                               machine.leaves[Leaf("usb", "present", "bool")]]
               IN  /\ \E f \in Injection(alone, DOMAIN devs[b]) :
                         /\ \A k \in alone : devs[b][f[k]].attrs = AfterTrip(b, kept[k])
                         /\ b = "usb" => \E j \in DOMAIN devs[b] :
                              devs[b][j].attrs = usb /\ \A k \in alone : f[k] # j
                   /\ Len(devs[b]) = Cardinality(alone)
                        + Cardinality({AdapterOf(kept, k) : k \in DOMAIN kept \ alone})
                        + IF b = "usb" THEN 1 ELSE 0
    <3>1. b \in Bus
      BY <2>3, AllBuses
    <3>2. /\ \E f \in Injection(AloneOf(b), DOMAIN devs[b]) :
               /\ \A k \in AloneOf(b) : devs[b][f[k]].attrs = AfterTrip(b, Encoded(b)[k])
               /\ b = "usb" => \E j \in DOMAIN devs[b] :
                    devs[b][j].attrs = USBOf /\ \A k \in AloneOf(b) : f[k] # j
          /\ Len(devs[b]) =
               Cardinality(AloneOf(b)) + Cardinality({AdapterOf(Encoded(b), k) : k \in SharedOf(b)})
                 + IF b = "usb" THEN 1 ELSE 0
      BY <3>1, BusRead
    <3>3. b = "usb" => USBOf = [ZeroDevice(b) EXCEPT !.present =
                                  machine.leaves[Leaf("usb", "present", "bool")]]
      BY Zenon DEF USBOf
    <3>4. AloneOf(b) = {k \in DOMAIN Encoded(b) : Alone(b, Encoded(b), k)}
      BY Zenon DEF AloneOf
    <3>5. SharedOf(b) = DOMAIN Encoded(b) \ AloneOf(b)
      BY Zenon DEF SharedOf
    <3>6. PICK f \in Injection(AloneOf(b), DOMAIN devs[b]) :
            /\ \A k \in AloneOf(b) : devs[b][f[k]].attrs = AfterTrip(b, Encoded(b)[k])
            /\ b = "usb" => \E j \in DOMAIN devs[b] :
                 devs[b][j].attrs = USBOf /\ \A k \in AloneOf(b) : f[k] # j
      BY <3>2, Zenon
    <3>7. b = "usb" => \E j \in DOMAIN devs[b] :
            /\ devs[b][j].attrs = [ZeroDevice(b) EXCEPT !.present =
                                     machine.leaves[Leaf("usb", "present", "bool")]]
            /\ \A k \in AloneOf(b) : f[k] # j
      BY <3>3, <3>6, Zenon
    <3>8. \E g \in Injection(AloneOf(b), DOMAIN devs[b]) :
            /\ \A k \in AloneOf(b) : devs[b][g[k]].attrs = AfterTrip(b, Encoded(b)[k])
            /\ b = "usb" => \E j \in DOMAIN devs[b] :
                 /\ devs[b][j].attrs = [ZeroDevice(b) EXCEPT !.present =
                                          machine.leaves[Leaf("usb", "present", "bool")]]
                 /\ \A k \in AloneOf(b) : g[k] # j
      BY <3>6, <3>7, Zenon
    <3>9. Len(devs[b]) = Cardinality(AloneOf(b))
            + Cardinality({AdapterOf(Encoded(b), k) : k \in DOMAIN Encoded(b) \ AloneOf(b)})
            + IF b = "usb" THEN 1 ELSE 0
      BY <3>2, <3>5
    <3> DEFINE alone == {k \in DOMAIN Encoded(b) : Alone(b, Encoded(b), k)}
    <3>10. AloneOf(b) = alone
      BY <3>4
    <3> HIDE DEF alone
    <3>11. /\ \E g \in Injection(alone, DOMAIN devs[b]) :
                /\ \A k \in alone : devs[b][g[k]].attrs = AfterTrip(b, Encoded(b)[k])
                /\ b = "usb" => \E j \in DOMAIN devs[b] :
                     /\ devs[b][j].attrs = [ZeroDevice(b) EXCEPT !.present =
                                              machine.leaves[Leaf("usb", "present", "bool")]]
                     /\ \A k \in alone : g[k] # j
           /\ Len(devs[b]) = Cardinality(alone)
                + Cardinality({AdapterOf(Encoded(b), k) : k \in DOMAIN Encoded(b) \ alone})
                + IF b = "usb" THEN 1 ELSE 0
      BY <3>8, <3>9, <3>10
    <3> QED
      BY <3>11, Zenon DEF alone
  <2> QED
    BY <2>1, <2>2, <2>3, Zenon DEF RoundTrip
<1> QED
  BY <1>1, WrittenInvariant, PTL
=============================================================================

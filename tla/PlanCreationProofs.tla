------------------------- MODULE PlanCreationProofs -------------------------
(***************************************************************************)
(* Proofs about PlanCreation, for any storage, any order of the devices    *)
(* and any number of stat calls that take too long: what a plan holds.     *)
(***************************************************************************)
EXTENDS PlanCreation, TLAPS, FiniteSetTheorems, SequenceTheorems

(* A disk file belongs to one device of a virtual machine, as VMware locks *)
(* it, and none to a CD-ROM, whose image is an .iso file.                  *)
OwnDisks ==
  \A s \in Storages : \A k \in DOMAIN s : \A v \in DOMAIN s[k].vmx :
    LET devices == s[k].vmx[v].devices
    IN  /\ \A d, e \in devices : d.file = e.file /\ d.file # NoFile => d = e
        /\ \A d \in devices : d.type = "cdrom-image" => d.file \notin s[k].files

(* The disks found, for an entry of the plan or the one to come.           *)
FilesOf(p, e) == (IF p = NoDisk THEN {} ELSE {p.file}) \cup {e[j].file : j \in DOMAIN e}

(* The devices of directory k that are looked at.                          *)
Candidates(k) == {d \in DevicesOf(k) : Candidate(d)}

(* What the disks found make, whether all of the devices of directory k    *)
(* have been looked at or not.                                             *)
DisksOfOne(k, p, e) ==
  /\ FilesOf(p, e) \subseteq DisksOf(k) \ Dashed
  /\ p # NoDisk => Stem[p.file] = storage[k].name
  /\ \A j \in DOMAIN e : Stem[e[j].file] # storage[k].name
  /\ OwnDisks => \A j, l \in DOMAIN e : e[j].file = e[l].file => j = l

(* The files in the directory the loop is in, of the devices looked at: a  *)
(* disk of these is found, unless looking for one took too long.           *)
Looked == {d.file : d \in Candidates(i) \ ToSet(devs)} \cap item.files

ItemInv ==
  pc = "disk" =>
    /\ i <= Len(storage) /\ Selected /\ Parses
    /\ item.marked => i \in misled
    /\ \A j, l \in DOMAIN devs : devs[j] = devs[l] => j = l
    /\ ToSet(devs) \subseteq Candidates(i)
    /\ DisksOfOne(i, primary, extra)
    /\ FilesOf(primary, extra) \subseteq Looked
    /\ i \notin misled => Looked \subseteq FilesOf(primary, extra)

(* Directory k, as entry e of the plan has it.                             *)
PlannedAs(k, e) ==
  /\ e.name = storage[k].name /\ storage[k].vmx # <<>>
  /\ storage[k].kind = "dir" /\ vmDir \in {"", storage[k].name}
  /\ storage[k].marked => k \in misled
  /\ DisksOfOne(k, e.primary, e.extra) /\ e.primary # NoDisk
  /\ k \notin misled =>
       {d.file : d \in Candidates(k)} \cap storage[k].files \subseteq FilesOf(e.primary, e.extra)

(* Each entry is of a directory passed, in their order, and each wanted    *)
(* directory passed has one.                                               *)
PlanInv ==
  /\ \A n \in DOMAIN plan : \E k \in 1..(i - 1) : PlannedAs(k, plan[n])
  /\ \A m, n \in DOMAIN plan : \A k, l \in DOMAIN storage :
       m < n /\ plan[m].name = storage[k].name /\ plan[n].name = storage[l].name => k < l
  /\ \A k \in 1..(i - 1) : Wanted(k) => \E n \in DOMAIN plan : plan[n].name = storage[k].name

EndInv == result = "saved" => pc = "done" /\ i > Len(storage)

Inv == TypeOK /\ ItemInv /\ PlanInv /\ EndInv

-----------------------------------------------------------------------------
(* A sequence that lists a set, each element once.                         *)
Lists(s, S) ==
  s \in Seq(S) /\ ToSet(s) = S /\ \A j, l \in DOMAIN s : s[j] = s[l] => j = l

(* What the range over a map gives: each element once, in some order.      *)
LEMMA AnyOrder ==
  ASSUME NEW S, IsFiniteSet(S), NEW s \in SetToSeqs(S)
  PROVE  Lists(s, S)
<1> DEFINE n == Cardinality(S)
<1>1. n \in Nat
  BY FS_CardinalityType
<1>2. s \in [1..n -> S] /\ \A j, l \in 1..n : s[j] = s[l] => j = l
  BY DEF SetToSeqs
<1> HIDE DEF n
<1>3. s \in Injection(1..n, S)
  BY <1>2 DEF Injection, IsInjective
<1>4. Cardinality(1..n) = n
  BY <1>1, FS_Interval
<1>5. s \in Surjection(1..n, S)
  BY <1>3, <1>4, FS_Injection DEF n
<1>6. ToSet(s) = S
  BY <1>2, <1>5 DEF Surjection, ToSet
<1>7. s \in Seq(S)
  BY <1>1, <1>2, SeqDef
<1> QED
  BY <1>2, <1>6, <1>7 DEF Lists

(* One such list after another.                                            *)
LEMMA ListsBoth ==
  ASSUME NEW S, NEW T, S \cap T = {}, NEW s, NEW t, Lists(s, S), Lists(t, T)
  PROVE  Lists(s \o t, S \cup T)
<1> DEFINE u == s \o t
<1>1. s \in Seq(S \cup T) /\ t \in Seq(S \cup T)
  BY SeqDef DEF Lists
<1>2. /\ Len(s) \in Nat /\ Len(t) \in Nat /\ DOMAIN s = 1..Len(s) /\ DOMAIN t = 1..Len(t)
      /\ u \in Seq(S \cup T) /\ DOMAIN u = 1..(Len(s) + Len(t))
      /\ \A j \in 1..(Len(s) + Len(t)) : u[j] = IF j <= Len(s) THEN s[j] ELSE t[j - Len(s)]
  BY <1>1, ConcatProperties, LenProperties
<1> HIDE DEF u
<1>3. \A j \in DOMAIN u : \/ j \in DOMAIN s /\ u[j] = s[j]
                          \/ j - Len(s) \in DOMAIN t /\ u[j] = t[j - Len(s)] /\ j \notin DOMAIN s
  BY <1>2
<1>4. /\ \A j \in DOMAIN s : j \in DOMAIN u /\ u[j] = s[j] /\ s[j] \in S
      /\ \A j \in DOMAIN t : j + Len(s) \in DOMAIN u /\ u[j + Len(s)] = t[j] /\ t[j] \in T
  BY <1>2 DEF Lists, ToSet
<1>5. ToSet(u) = S \cup T
  <2>1. ToSet(u) \subseteq S \cup T
    BY <1>3, <1>4 DEF ToSet
  <2>2. S \subseteq ToSet(u)
    BY <1>4 DEF Lists, ToSet
  <2>3. T \subseteq ToSet(u)
    BY <1>4 DEF Lists, ToSet
  <2> QED
    BY <2>1, <2>2, <2>3
<1>6. ASSUME NEW j \in DOMAIN u, NEW l \in DOMAIN u, u[j] = u[l]
      PROVE  j = l
  <2>1. j \in Int /\ l \in Int /\ Len(s) \in Int
    BY <1>2
  <2>2. CASE j \in DOMAIN s /\ l \in DOMAIN s
    BY <1>4, <1>6, <2>2 DEF Lists
  <2>3. CASE j \notin DOMAIN s /\ l \notin DOMAIN s
    BY <1>3, <1>6, <2>1, <2>3 DEF Lists
  <2>4. CASE (j \in DOMAIN s) # (l \in DOMAIN s)
    BY <1>3, <1>4, <1>6, <2>4
  <2> QED
    BY <2>2, <2>3, <2>4
<1> QED
  BY <1>2, <1>5, <1>6 DEF Lists, u

(* Whatever order the map gives, the loops look at each candidate once.    *)
LEMMA OrdersList ==
  ASSUME NEW D \in SUBSET Device, IsFiniteSet(D), NEW s \in Orders(D)
  PROVE  Lists(s, {d \in D : Candidate(d)})
<1> DEFINE On(b) == {d \in D : d.bus = b /\ Candidate(d)}
<1>1. PICK s1 \in SetToSeqs(On("ide")), s2 \in SetToSeqs(On("sata")),
           s3 \in SetToSeqs(On("scsi")), s4 \in SetToSeqs(On("nvme")) :
        s = s1 \o s2 \o s3 \o s4
  <2>1. \E a \in OnBus(D, "ide"), b \in OnBus(D, "sata"), c \in OnBus(D, "scsi"), e \in OnBus(D, "nvme") :
          s = a \o b \o c \o e
    BY DEF Orders
  <2> QED
    BY <2>1 DEF OnBus
<1>2. \A b : IsFiniteSet(On(b))
  BY FS_Subset
<1>3. Lists(s1, On("ide")) /\ Lists(s2, On("sata")) /\ Lists(s3, On("scsi")) /\ Lists(s4, On("nvme"))
  <2> HIDE DEF On
  <2> QED
    BY <1>2, AnyOrder
<1>4. Lists(s1 \o s2, On("ide") \cup On("sata"))
  <2>1. On("ide") \cap On("sata") = {}
    OBVIOUS
  <2> HIDE DEF On
  <2> QED
    BY <1>3, <2>1, ListsBoth
<1>5. Lists((s1 \o s2) \o s3, (On("ide") \cup On("sata")) \cup On("scsi"))
  <2>1. (On("ide") \cup On("sata")) \cap On("scsi") = {}
    OBVIOUS
  <2> HIDE DEF On
  <2> QED
    BY <1>3, <1>4, <2>1, ListsBoth
<1>6. Lists(((s1 \o s2) \o s3) \o s4, ((On("ide") \cup On("sata")) \cup On("scsi")) \cup On("nvme"))
  <2>1. ((On("ide") \cup On("sata")) \cup On("scsi")) \cap On("nvme") = {}
    OBVIOUS
  <2> HIDE DEF On
  <2> QED
    BY <1>3, <1>5, <2>1, ListsBoth
<1>7. ((On("ide") \cup On("sata")) \cup On("scsi")) \cup On("nvme") = {d \in D : Candidate(d)}
  BY DEF Device, Bus
<1> QED
  BY <1>1, <1>6, <1>7

(* What is left to look at after the next device.                          *)
LEMMA Rest ==
  ASSUME NEW S, NEW s \in Seq(S), s # <<>>, \A j, l \in DOMAIN s : s[j] = s[l] => j = l
  PROVE  /\ Head(s) \in ToSet(s) /\ Head(s) \in S
         /\ Tail(s) \in Seq(S)
         /\ \A j, l \in DOMAIN Tail(s) : Tail(s)[j] = Tail(s)[l] => j = l
         /\ ToSet(Tail(s)) = ToSet(s) \ {Head(s)}
<1> DEFINE t == Tail(s)
           h == Head(s)
<1>1. /\ Len(s) \in Nat \ {0} /\ DOMAIN s = 1..Len(s) /\ h = s[1] /\ h \in S
      /\ t \in Seq(S) /\ DOMAIN t = 1..(Len(s) - 1)
      /\ \A j \in 1..(Len(s) - 1) : t[j] = s[j + 1]
  BY EmptySeq, LenProperties, HeadTailProperties
<1> HIDE DEF t, h
<1>2. \A j \in DOMAIN t : j + 1 \in DOMAIN s /\ t[j] = s[j + 1] /\ j + 1 # 1 /\ j \in Int
  BY <1>1
<1>3. \A j \in DOMAIN s : j = 1 \/ (j - 1 \in DOMAIN t /\ s[j] = t[j - 1])
  BY <1>1
<1>4. 1 \in DOMAIN s
  BY <1>1
<1>5. \A j, l \in DOMAIN t : t[j] = t[l] => j = l
  BY <1>2
<1>6. ToSet(t) = ToSet(s) \ {h}
  <2>1. ToSet(t) \subseteq ToSet(s) \ {h}
    BY <1>1, <1>2, <1>4 DEF ToSet
  <2>2. ToSet(s) \ {h} \subseteq ToSet(t)
    BY <1>1, <1>3 DEF ToSet
  <2> QED
    BY <2>1, <2>2
<1> QED
  BY <1>1, <1>4, <1>5, <1>6 DEF t, h, ToSet

(* What an entry of the storage is.                                        *)
LEMMA EntryType ==
  ASSUME TypeOK
  PROVE  /\ storage \in Seq(Item) /\ Len(storage) \in Nat /\ DOMAIN storage = 1..Len(storage)
         /\ DifferentNames(storage)
         /\ \A k \in DOMAIN storage :
              /\ storage[k] \in Item
              /\ storage[k].vmx # <<>> =>
                   /\ DevicesOf(k) \in SUBSET Device /\ IsFiniteSet(DevicesOf(k))
                   /\ \E v \in DOMAIN storage[k].vmx : DevicesOf(k) = storage[k].vmx[v].devices
<1>1. storage \in Seq(Item) /\ DifferentNames(storage)
  BY ConstantsAssumption DEF TypeOK
<1>2. /\ Len(storage) \in Nat /\ DOMAIN storage = 1..Len(storage)
      /\ \A k \in DOMAIN storage : storage[k] \in Item
  BY <1>1, LenProperties, ElementOfSeq
<1>3. ASSUME NEW k \in DOMAIN storage, storage[k].vmx # <<>>
      PROVE  /\ DevicesOf(k) \in SUBSET Device /\ IsFiniteSet(DevicesOf(k))
             /\ \E v \in DOMAIN storage[k].vmx : DevicesOf(k) = storage[k].vmx[v].devices
  <2> DEFINE s == storage[k].vmx
  <2>1. s \in Seq(VMX)
    BY <1>2 DEF Item
  <2>2. Len(s) \in Nat \ {0} /\ DOMAIN s = 1..Len(s)
    BY <1>3, <2>1, EmptySeq, LenProperties
  <2>3. Len(s) \in DOMAIN s /\ s[Len(s)] \in VMX
    BY <2>1, <2>2, ElementOfSeq
  <2>4. DevicesOf(k) = s[Len(s)].devices
    BY DEF DevicesOf, Last
  <2> HIDE DEF s
  <2>5. DevicesOf(k) \in {ds \in SUBSET Device : IsFiniteSet(ds)}
    BY <2>3, <2>4 DEF VMX
  <2> QED
    BY <2>3, <2>4, <2>5 DEF s
<1> QED
  BY <1>1, <1>2, <1>3

(* Where the loop is.                                                      *)
LEMMA LoopType ==
  ASSUME TypeOK
  PROVE  /\ i \in Nat \ {0} /\ i <= Len(storage) + 1 /\ Len(storage) \in Nat
         /\ i <= Len(storage) => i \in DOMAIN storage
         /\ misled \subseteq DOMAIN storage /\ timeouts \in 0..MaxTimeouts /\ MaxTimeouts \in Nat
<1>1. i \in 1..(Len(storage) + 1)
  BY DEF TypeOK
<1>2. Len(storage) \in Nat /\ DOMAIN storage = 1..Len(storage)
  BY EntryType
<1>3. misled \subseteq DOMAIN storage /\ timeouts \in 0..MaxTimeouts
  BY DEF TypeOK
<1>4. MaxTimeouts \in Nat
  BY ConstantsAssumption
<1>5. i \in Nat \ {0} /\ i <= Len(storage) + 1
  BY <1>1, <1>2
<1> QED
  BY <1>2, <1>3, <1>4, <1>5

(* The devices of a directory that parses, and what is seen of them.       *)
LEMMA DiskType ==
  ASSUME TypeOK, ItemInv, pc = "disk", devs # <<>>
  PROVE  /\ i \in DOMAIN storage /\ item \in Item /\ dev \in Device /\ dev \in Candidates(i)
         /\ dev.file \in item.files => dev.file \in File /\ dev.file \in DisksOf(i)
         /\ Tail(devs) \in Seq(Device)
         /\ \A j, l \in DOMAIN Tail(devs) : Tail(devs)[j] = Tail(devs)[l] => j = l
         /\ dev \in ToSet(devs) /\ ToSet(Tail(devs)) = ToSet(devs) \ {dev}
<1>1. i \in DOMAIN storage /\ item \in Item
  <2>1. i <= Len(storage) /\ i \in 1..(Len(storage) + 1)
    BY DEF TypeOK, ItemInv
  <2>2. Len(storage) \in Nat /\ DOMAIN storage = 1..Len(storage)
    BY EntryType
  <2>3. i \in DOMAIN storage
    BY <2>1, <2>2
  <2>4. item \in Item
    BY <2>3, EntryType DEF item
  <2> QED
    BY <2>3, <2>4
<1>2. devs \in Seq(Device) /\ \A j, l \in DOMAIN devs : devs[j] = devs[l] => j = l
  BY DEF TypeOK, ItemInv
<1>3. /\ dev \in ToSet(devs) /\ dev \in Device
      /\ Tail(devs) \in Seq(Device)
      /\ \A j, l \in DOMAIN Tail(devs) : Tail(devs)[j] = Tail(devs)[l] => j = l
      /\ ToSet(Tail(devs)) = ToSet(devs) \ {dev}
  BY <1>2, Rest DEF dev
<1>4. dev \in Candidates(i)
  BY <1>3 DEF ItemInv
<1>5. dev.file \in item.files => dev.file \in File /\ dev.file \in DisksOf(i)
  BY <1>1, <1>4 DEF Item, DisksOf, Candidates, item
<1> QED
  BY <1>1, <1>3, <1>4, <1>5

(* Before the first entry there is nothing to know.                        *)
LEMMA InitInv == Init => Inv
<1> SUFFICES ASSUME Init
             PROVE  Inv
  OBVIOUS
<1>1. Len(storage) \in Nat /\ DOMAIN storage = 1..Len(storage)
  BY ConstantsAssumption, LenProperties DEF Init
<1>2. TypeOK
  <2>1. <<>> \in Seq(Device) /\ <<>> \in Seq(Disk) /\ Len(<<>>) = 0
        /\ <<>> \in Seq([name: Name, primary: Disk, extra: Seq(Disk)])
    OBVIOUS
  <2>2. MaxTimeouts \in Nat
    BY ConstantsAssumption
  <2> QED
    <3>1. /\ storage \in Storages /\ vmDir \in Name \cup {""} /\ pc = "item" /\ i = 1
          /\ devs = <<>> /\ primary = NoDisk /\ extra = <<>> /\ plan = <<>>
          /\ result = "none" /\ misled = {} /\ timeouts = 0
      BY DEF Init
    <3>2. 1 \in 1..(Len(storage) + 1) /\ 0 \in 0..MaxTimeouts /\ 0 < 1
      BY <1>1, <2>2
    <3> QED
      BY <2>1, <3>1, <3>2 DEF TypeOK
<1>3. ItemInv /\ EndInv
  BY DEF Init, ItemInv, EndInv
<1>4. PlanInv
  <2>1. i = 1 /\ plan = <<>>
    BY DEF Init
  <2>2. 1..(i - 1) = {} /\ DOMAIN plan = {}
    BY <2>1
  <2> QED
    BY <2>2 DEF PlanInv
<1> QED
  BY <1>2, <1>3, <1>4 DEF Inv

(* A step keeps the types; the loops leave only devices and found disks.   *)
LEMMA TypeStep ==
  ASSUME Inv, [Next]_vars
  PROVE  TypeOK'
<1> USE DEF Inv
<1>1. storage \in Seq(Item) /\ Len(storage) \in Nat /\ DOMAIN storage = 1..Len(storage)
  BY EntryType
<1>2. ASSUME i \in DOMAIN storage, Answered \/ TimesOut
      PROVE  misled' \subseteq DOMAIN storage /\ timeouts' \in 0..MaxTimeouts
  <2>1. misled \subseteq DOMAIN storage /\ timeouts \in 0..MaxTimeouts /\ MaxTimeouts \in Nat
    BY LoopType
  <2> QED
    BY <1>2, <2>1 DEF Answered, TimesOut
<1>3. AtItem => i \in DOMAIN storage
  BY LoopType DEF AtItem
<1>4. Unmarked => Answered \/ TimesOut
  BY DEF Unmarked
<1>5. CASE PassOver
  <2>1. i' \in 1..(Len(storage) + 1) /\ i' = i + 1 /\ i \in Nat
    BY <1>5, LoopType DEF PassOver, AtItem
  <2>2. Len(plan) \in Nat /\ Len(plan) < i
    BY LenProperties DEF TypeOK
  <2>3. Len(plan) < i'
    BY <2>1, <2>2
  <2> QED
    BY <1>5, <2>1, <2>3 DEF PassOver, TypeOK
<1>6. CASE SkipMarked
  <2>1. i' \in 1..(Len(storage) + 1) /\ i' = i + 1 /\ i \in Nat
    BY <1>6, LoopType DEF SkipMarked, AtItem
  <2>2. Len(plan) \in Nat /\ Len(plan) < i
    BY LenProperties DEF TypeOK
  <2>3. Len(plan) < i'
    BY <2>1, <2>2
  <2> QED
    BY <1>6, <2>1, <2>3 DEF SkipMarked, Answered, TypeOK
<1>7. CASE Parse
  <2>1. i \in DOMAIN storage /\ misled' \subseteq DOMAIN storage /\ timeouts' \in 0..MaxTimeouts
    BY <1>2, <1>3, <1>4, <1>7 DEF Parse, Unmarked
  <2>2. devs' \in Seq(Device)
    <3>1. DevicesOf(i) \in SUBSET Device /\ IsFiniteSet(DevicesOf(i)) /\ devs' \in Orders(DevicesOf(i))
      BY <1>7, <2>1, EntryType DEF Parse, Parses, item, DevicesOf
    <3>2. Lists(devs', {d \in DevicesOf(i) : Candidate(d)})
      BY <3>1, OrdersList
    <3>3. {d \in DevicesOf(i) : Candidate(d)} \subseteq Device
      BY <3>1
    <3> QED
      BY <3>2, <3>3, SeqDef DEF Lists
  <2>3. <<>> \in Seq(Disk)
    OBVIOUS
  <2> QED
    BY <1>7, <2>1, <2>2, <2>3 DEF Parse, TypeOK
<1>8. CASE ParseFails
  <2>1. misled' \subseteq DOMAIN storage /\ timeouts' \in 0..MaxTimeouts
    BY <1>2, <1>3, <1>4, <1>8 DEF ParseFails, Unmarked
  <2> QED
    BY <1>8, <2>1 DEF ParseFails, Fail, TypeOK
<1>9. CASE PassOverDisk
  <2>1. i \in DOMAIN storage /\ Tail(devs) \in Seq(Device)
    BY <1>9, DiskType DEF PassOverDisk
  <2>2. misled' \subseteq DOMAIN storage /\ timeouts' \in 0..MaxTimeouts
    BY <1>2, <1>9, <2>1 DEF PassOverDisk
  <2> QED
    BY <1>9, <2>1, <2>2 DEF PassOverDisk, TypeOK
<1>10. CASE RefuseSnapshot
  BY <1>10 DEF RefuseSnapshot, Answered, Fail, TypeOK
<1>11. CASE SizeFails
  <2>1. i \in DOMAIN storage
    BY <1>11, DiskType DEF SizeFails, Found
  <2>2. misled' \subseteq DOMAIN storage /\ timeouts' \in 0..MaxTimeouts
    BY <1>2, <1>11, <2>1 DEF SizeFails
  <2> QED
    BY <1>11, <2>2 DEF SizeFails, Fail, TypeOK
<1>12. CASE AddDisk
  <2> DEFINE f == dev.file
  <2>1. i \in DOMAIN storage /\ Tail(devs) \in Seq(Device) /\ f \in File
    BY <1>12, DiskType DEF AddDisk, Found
  <2>2. misled' \subseteq DOMAIN storage /\ timeouts' \in 0..MaxTimeouts
    BY <1>2, <1>12, <2>1 DEF AddDisk
  <2>3. PICK length \in Nat : Enter(f, length)
    BY <1>12, <2>1, ConstantsAssumption DEF AddDisk, Length
  <2>4. [file |-> f, size |-> length \div GiB] \in Disk
    <3>1. length \div GiB \in Nat
      <4>1. GiB \in Nat \ {0}
        BY ConstantsAssumption
      <4> QED
        BY <4>1
    <3> QED
      BY <2>1, <3>1 DEF Disk
  <2>5. primary' \in Disk \cup {NoDisk} /\ extra' \in Seq(Disk)
    <3> DEFINE disk == [file |-> f, size |-> length \div GiB]
    <3>1. primary \in Disk \cup {NoDisk} /\ extra \in Seq(Disk)
      BY DEF TypeOK
    <3>2. \/ primary' = disk /\ extra' = extra
          \/ primary' = primary /\ extra' = Append(extra, disk)
      BY <2>3 DEF Enter
    <3> HIDE DEF disk
    <3>3. disk \in Disk
      BY <2>4 DEF disk
    <3> QED
      BY <3>1, <3>2, <3>3, AppendProperties
  <2> QED
    BY <1>12, <2>1, <2>2, <2>5 DEF AddDisk, TypeOK
<1>13. CASE AddServer
  <2>1. i \in DOMAIN storage /\ item \in Item
    <3>1. i <= Len(storage)
      BY <1>13 DEF AddServer, ItemInv
    <3> QED
      BY <3>1, LoopType, EntryType DEF item
  <2>2. [name |-> item.name, primary |-> primary, extra |-> extra]
          \in [name: Name, primary: Disk, extra: Seq(Disk)]
    BY <1>13, <2>1 DEF AddServer, TypeOK, Item
  <2>3. /\ plan' \in Seq([name: Name, primary: Disk, extra: Seq(Disk)])
        /\ Len(plan') = Len(plan) + 1 /\ Len(plan) \in Nat
    <3>1. plan \in Seq([name: Name, primary: Disk, extra: Seq(Disk)])
      BY DEF TypeOK
    <3>2. plan' = Append(plan, [name |-> item.name, primary |-> primary, extra |-> extra])
      BY <1>13 DEF AddServer
    <3> QED
      BY <2>2, <3>1, <3>2, AppendProperties, LenProperties
  <2>4. i' = i + 1 /\ i' \in 1..(Len(storage) + 1) /\ Len(plan) < i
    <3>1. i' = i + 1 /\ i \in 1..Len(storage)
      BY <1>1, <1>13, <2>1 DEF AddServer
    <3>2. i' \in 1..(Len(storage) + 1)
      BY <1>1, <3>1
    <3>3. Len(plan) < i
      BY DEF TypeOK
    <3> QED
      BY <3>1, <3>2, <3>3
  <2>5. Len(plan') < i'
    BY <2>1, <2>3, <2>4, LoopType
  <2> QED
    BY <1>13, <2>3, <2>4, <2>5 DEF AddServer, TypeOK
<1>14. CASE NoPrimary
  BY <1>14 DEF NoPrimary, Answered, Fail, TypeOK
<1>15. CASE Finish
  BY <1>15 DEF Finish, TypeOK
<1>16. CASE UNCHANGED vars
  BY <1>16 DEF vars, TypeOK
<1> QED
  BY <1>5, <1>6, <1>7, <1>8, <1>9, <1>10, <1>11, <1>12, <1>13, <1>14, <1>15, <1>16 DEF Next

-----------------------------------------------------------------------------
(* A disk that is entered is one more of the disks found, and the same     *)
(* file is not found twice.                                                *)
LEMMA Entered ==
  ASSUME TypeOK, ItemInv, AddDisk
  PROVE  /\ FilesOf(primary', extra') = FilesOf(primary, extra) \cup {dev.file}
         /\ DisksOfOne(i, primary, extra)'
<1> DEFINE f == dev.file
<1>1. /\ pc = "disk" /\ devs # <<>> /\ f \in item.files /\ f \notin Dashed
      /\ UNCHANGED <<storage, vmDir, i>>
  BY DEF AddDisk, Found, LooksLikeSnapshot
<1>2. /\ i \in DOMAIN storage /\ item \in Item /\ dev \in Candidates(i)
      /\ f \in File /\ f \in DisksOf(i) /\ dev \in ToSet(devs)
  BY <1>1, DiskType
<1>3. PICK length \in Nat : Enter(f, length)
  <2>1. f \in File => Size[f] \in Nat /\ Flat[f] \in Nat
    BY ConstantsAssumption
  <2>2. Length(f) \in Nat /\ Size[f] \in Nat
    BY <1>2, <2>1 DEF Length
  <2>3. Enter(f, Length(f)) \/ Enter(f, Size[f])
    BY DEF AddDisk
  <2> QED
    BY <2>2, <2>3
<1> DEFINE disk == [file |-> f, size |-> length \div GiB]
<1>4. disk.file = f /\ disk # NoDisk
  <2>1. f # NoFile
    BY <1>2, ConstantsAssumption
  <2> QED
    BY <2>1 DEF NoDisk
<1>5. IF Stem[f] = item.name THEN primary' = disk /\ extra' = extra
                             ELSE primary' = primary /\ extra' = Append(extra, disk)
  BY <1>3 DEF Enter
<1> HIDE DEF disk
<1>6. /\ FilesOf(primary, extra) \subseteq DisksOf(i) \ Dashed
      /\ primary # NoDisk => Stem[primary.file] = item.name
      /\ \A j \in DOMAIN extra : Stem[extra[j].file] # item.name
      /\ OwnDisks => \A j, l \in DOMAIN extra : extra[j].file = extra[l].file => j = l
      /\ FilesOf(primary, extra) \subseteq {d.file : d \in Candidates(i) \ ToSet(devs)}
  BY <1>1 DEF ItemInv, DisksOfOne, item, Looked
<1>7. DisksOf(i)' = DisksOf(i) /\ OwnDisks' = OwnDisks
  BY <1>1 DEF DisksOf, DevicesOf, OwnDisks
<1>8. CASE Stem[f] = item.name
  <2>1. primary' = disk /\ extra' = extra
    BY <1>5, <1>8
  <2>2. primary # NoDisk => primary.file = f
    <3> SUFFICES ASSUME primary # NoDisk
                 PROVE  primary.file = f
      OBVIOUS
    <3>1. primary.file \in item.files
      BY <1>6 DEF FilesOf, DisksOf, item
    <3>2. Stem[primary.file] = Stem[f]
      BY <1>6, <1>8
    <3>3. DifferentNames(storage)
      BY EntryType
    <3>4. \A x, y \in item.files : Stem[x] = Stem[y] => x = y
      BY <1>2, <3>3 DEF DifferentNames, item
    <3> QED
      BY <1>1, <3>1, <3>2, <3>4
  <2>3. FilesOf(primary', extra') = FilesOf(primary, extra) \cup {f}
    BY <1>4, <2>1, <2>2 DEF FilesOf
  <2>4. DisksOfOne(i, primary, extra)'
    <3>1. FilesOf(primary', extra') \subseteq DisksOf(i) \ Dashed
      BY <1>1, <1>2, <1>6, <2>3
    <3> QED
      BY <1>1, <1>4, <1>6, <1>7, <1>8, <2>1, <3>1 DEF DisksOfOne, item, FilesOf
  <2> QED
    BY <2>3, <2>4
<1>9. CASE Stem[f] # item.name
  <2>1. primary' = primary /\ extra' = Append(extra, disk)
    BY <1>5, <1>9
  <2>2. /\ Len(extra) \in Nat /\ DOMAIN extra = 1..Len(extra)
        /\ DOMAIN extra' = DOMAIN extra \cup {Len(extra) + 1} /\ Len(extra) + 1 \notin DOMAIN extra
        /\ extra'[Len(extra) + 1] = disk
        /\ \A j \in DOMAIN extra : extra'[j] = extra[j]
    <3>1. extra \in Seq(Disk)
      BY DEF TypeOK
    <3>2. disk \in Disk
      <4>1. length \div GiB \in Nat
        <5>1. GiB \in Nat \ {0}
          BY ConstantsAssumption
        <5> QED
          BY <5>1
      <4> QED
        BY <1>2, <4>1 DEF disk, Disk
    <3>3. /\ Len(extra) \in Nat /\ DOMAIN extra = 1..Len(extra) /\ DOMAIN extra' = 1..(Len(extra) + 1)
          /\ extra'[Len(extra) + 1] = disk
          /\ \A j \in DOMAIN extra : extra'[j] = extra[j]
      BY <2>1, <3>1, <3>2, AppendProperties, LenProperties
    <3> QED
      BY <3>3
  <2>3. FilesOf(primary', extra') = FilesOf(primary, extra) \cup {f}
    <3>1. {extra'[j].file : j \in DOMAIN extra'} = {extra[j].file : j \in DOMAIN extra} \cup {f}
      <4>1. \A j \in DOMAIN extra' : extra'[j].file \in {extra[l].file : l \in DOMAIN extra} \cup {f}
        BY <1>4, <2>2
      <4>2. \A j \in DOMAIN extra : j \in DOMAIN extra' /\ extra'[j].file = extra[j].file
        BY <2>2
      <4>3. f = extra'[Len(extra) + 1].file /\ Len(extra) + 1 \in DOMAIN extra'
        BY <1>4, <2>2
      <4> QED
        BY <4>1, <4>2, <4>3
    <3> QED
      BY <2>1, <3>1 DEF FilesOf
  <2>4. OwnDisks => \A j \in DOMAIN extra : extra[j].file # f
    <3> SUFFICES ASSUME OwnDisks, NEW j \in DOMAIN extra, extra[j].file = f
                 PROVE  FALSE
      OBVIOUS
    <3>1. f \in FilesOf(primary, extra)
      BY DEF FilesOf
    <3>2. PICK d \in Candidates(i) \ ToSet(devs) : d.file = f
      BY <1>6, <3>1
    <3>3. PICK v \in DOMAIN storage[i].vmx : DevicesOf(i) = storage[i].vmx[v].devices
      <4>1. storage[i].vmx # <<>>
        BY <1>1 DEF ItemInv, Parses, item
      <4> QED
        BY <1>2, <4>1, EntryType
    <3>4. \A x, y \in DevicesOf(i) : x.file = y.file /\ x.file # NoFile => x = y
      <4>1. storage \in Storages
        BY DEF TypeOK
      <4> QED
        BY <1>2, <3>3, <4>1 DEF OwnDisks
    <3>5. d = dev
      BY <1>2, <3>2, <3>4, ConstantsAssumption DEF Candidates
    <3> QED
      BY <1>2, <3>2, <3>5
  <2>5. DisksOfOne(i, primary, extra)'
    <3>1. FilesOf(primary', extra') \subseteq DisksOf(i) \ Dashed
      BY <1>1, <1>2, <1>6, <2>3
    <3>2. \A j \in DOMAIN extra' : Stem[extra'[j].file] # item.name
      BY <1>4, <1>6, <1>9, <2>2
    <3>3. OwnDisks => \A j, l \in DOMAIN extra' : extra'[j].file = extra'[l].file => j = l
      BY <1>4, <1>6, <2>2, <2>4
    <3> QED
      BY <1>1, <1>6, <1>7, <2>1, <3>1, <3>2, <3>3 DEF DisksOfOne, item, FilesOf
  <2> QED
    BY <2>3, <2>5
<1> QED
  BY <1>8, <1>9

(* Looking at one more device keeps what is known of the directory.        *)
LEMMA ItemStep ==
  ASSUME Inv, [Next]_vars
  PROVE  ItemInv'
<1> USE DEF Inv
<1>1. ASSUME pc' # "disk"
      PROVE  ItemInv'
  BY <1>1 DEF ItemInv
<1>2. CASE PassOver \/ SkipMarked \/ ParseFails \/ RefuseSnapshot \/ SizeFails \/ AddServer \/ NoPrimary \/ Finish
  <2>1. pc' # "disk"
    BY <1>2 DEF PassOver, SkipMarked, ParseFails, RefuseSnapshot, SizeFails, AddServer, NoPrimary, Finish,
                AtItem, Fail
  <2> QED
    BY <1>1, <2>1
<1>3. CASE Parse
  <2>1. /\ UNCHANGED <<storage, vmDir, i>> /\ primary' = NoDisk /\ extra' = <<>>
        /\ devs' \in Orders(DevicesOf(i)) /\ Selected /\ Parses
        /\ item.marked => i \in misled'
        /\ i <= Len(storage)
    BY <1>3 DEF Parse, Unmarked, AtItem, TimesOut, DevicesOf, item
  <2>2. i \in DOMAIN storage /\ DevicesOf(i) \in SUBSET Device /\ IsFiniteSet(DevicesOf(i))
    BY <2>1, LoopType, EntryType DEF Parses, item
  <2>3. Lists(devs', Candidates(i))
    BY <2>1, <2>2, OrdersList DEF Candidates
  <2>4. ToSet(devs') = Candidates(i) /\ \A j, l \in DOMAIN devs' : devs'[j] = devs'[l] => j = l
    BY <2>3 DEF Lists
  <2>5. Candidates(i)' = Candidates(i)
    BY <2>1 DEF Candidates, DevicesOf
  <2>6. FilesOf(primary, extra)' = {} /\ DOMAIN extra' = {}
    BY <2>1 DEF FilesOf
  <2>7. DisksOfOne(i, primary, extra)'
    BY <2>1, <2>6 DEF DisksOfOne
  <2>8. Looked' = {} /\ ToSet(devs)' = Candidates(i)'
    BY <2>4, <2>5 DEF Looked, ToSet
  <2>9. Selected' /\ Parses' /\ item' = item
    BY <2>1 DEF Selected, Parses, item
  <2> QED
    BY <2>1, <2>4, <2>5, <2>6, <2>7, <2>8, <2>9 DEF ItemInv
<1>4. CASE PassOverDisk \/ AddDisk
  <2>1. /\ pc = "disk" /\ devs # <<>> /\ devs' = Tail(devs)
        /\ UNCHANGED <<storage, vmDir, pc, i>>
        /\ misled' \in {misled, misled \cup {i}}
    BY <1>4 DEF PassOverDisk, AddDisk, Found, Answered, TimesOut
  <2>2. /\ \A j, l \in DOMAIN devs' : devs'[j] = devs'[l] => j = l
        /\ dev \in Candidates(i) /\ dev \in ToSet(devs) /\ ToSet(devs') = ToSet(devs) \ {dev}
    BY <2>1, DiskType
  <2>3. Candidates(i)' = Candidates(i) /\ item' = item /\ Selected' = Selected /\ Parses' = Parses
    BY <2>1 DEF Candidates, DevicesOf, item, Selected, Parses
  <2>4. Looked' = Looked \cup ({dev.file} \cap item.files)
    <3>1. ToSet(devs)' = ToSet(devs) \ {dev}
      BY <2>2 DEF ToSet
    <3>2. (Candidates(i) \ ToSet(devs))' = (Candidates(i) \ ToSet(devs)) \cup {dev}
      BY <2>2, <2>3, <3>1
    <3> QED
      BY <2>3, <3>2 DEF Looked
  <2>5. /\ i <= Len(storage) /\ Selected /\ Parses /\ (item.marked => i \in misled)
        /\ ToSet(devs) \subseteq Candidates(i)
        /\ DisksOfOne(i, primary, extra)
        /\ FilesOf(primary, extra) \subseteq Looked
        /\ (i \notin misled => Looked \subseteq FilesOf(primary, extra))
    BY <2>1 DEF ItemInv
  <2>6. /\ DisksOfOne(i, primary, extra)'
        /\ FilesOf(primary, extra)' \subseteq Looked'
        /\ i \notin misled' => Looked' \subseteq FilesOf(primary, extra)'
    <3>1. CASE PassOverDisk
      <4>1. UNCHANGED <<primary, extra>> /\ (dev.file \in item.files => i \in misled')
        BY <3>1 DEF PassOverDisk, TimesOut
      <4>2. FilesOf(primary, extra)' = FilesOf(primary, extra)
        BY <4>1 DEF FilesOf
      <4>3. DisksOfOne(i, primary, extra)'
        BY <2>1, <2>5, <4>1, <4>2 DEF DisksOfOne, DisksOf, DevicesOf
      <4>4. i \notin misled' => i \notin misled
        BY <2>1
      <4> QED
        BY <2>4, <2>5, <4>1, <4>2, <4>3, <4>4
    <3>2. CASE AddDisk
      <4>1. FilesOf(primary', extra') = FilesOf(primary, extra) \cup {dev.file} /\ DisksOfOne(i, primary, extra)'
        BY <3>2, Entered
      <4>2. FilesOf(primary, extra)' = FilesOf(primary, extra) \cup {dev.file}
        BY <4>1 DEF FilesOf
      <4>3. dev.file \in item.files
        BY <3>2 DEF AddDisk, Found
      <4>4. i \notin misled' => i \notin misled
        BY <2>1
      <4> QED
        BY <2>4, <2>5, <4>1, <4>2, <4>3, <4>4
    <3> QED
      BY <1>4, <3>1, <3>2
  <2>7. ToSet(devs)' \subseteq Candidates(i)'
    BY <2>2, <2>3, <2>5 DEF ToSet
  <2>8. (item.marked => i \in misled)' /\ (i <= Len(storage))'
    BY <2>1, <2>3, <2>5
  <2> QED
    BY <2>1, <2>2, <2>3, <2>5, <2>6, <2>7, <2>8 DEF ItemInv
<1>5. CASE UNCHANGED vars
  <2>1. UNCHANGED <<storage, vmDir, pc, i, devs, primary, extra, misled>>
    BY <1>5 DEF vars
  <2>2. /\ Selected' = Selected /\ Parses' = Parses /\ item' = item
        /\ Candidates(i)' = Candidates(i) /\ DisksOf(i)' = DisksOf(i)
        /\ ToSet(devs)' = ToSet(devs) /\ FilesOf(primary, extra)' = FilesOf(primary, extra)
    BY <2>1 DEF Selected, Parses, item, Candidates, DevicesOf, DisksOf, ToSet, FilesOf
  <2>3. Looked' = Looked
    BY <2>2 DEF Looked
  <2>4. DisksOfOne(i, primary, extra) => DisksOfOne(i, primary, extra)'
    BY <2>1, <2>2 DEF DisksOfOne
  <2> QED
    BY <2>1, <2>2, <2>3, <2>4 DEF ItemInv
<1> QED
  BY <1>2, <1>3, <1>4, <1>5 DEF Next

(* An entry of the plan stays true while its directory is not misled.      *)
LEMMA PlannedStays ==
  ASSUME UNCHANGED <<storage, vmDir, plan>>, NEW n, NEW k, k \in misled' <=> k \in misled,
         PlannedAs(k, plan[n])
  PROVE  PlannedAs(k, plan[n])'
<1>1. DisksOf(k)' = DisksOf(k) /\ Candidates(k)' = Candidates(k)
  BY DEF DisksOf, DevicesOf, Candidates
<1>2. plan'[n] = plan[n]
  OBVIOUS
<1> DEFINE e == plan[n]
<1>3. /\ e.name = storage[k].name /\ storage[k].vmx # <<>>
      /\ storage[k].kind = "dir" /\ vmDir \in {"", storage[k].name}
      /\ storage[k].marked => k \in misled
      /\ e.primary # NoDisk
      /\ k \notin misled =>
           {d.file : d \in Candidates(k)} \cap storage[k].files \subseteq FilesOf(e.primary, e.extra)
  BY DEF PlannedAs
<1>4. DisksOfOne(k, e.primary, e.extra)
  BY DEF PlannedAs
<1>5. /\ FilesOf(e.primary, e.extra) \subseteq DisksOf(k) \ Dashed
      /\ e.primary # NoDisk => Stem[e.primary.file] = storage[k].name
      /\ \A j \in DOMAIN e.extra : Stem[e.extra[j].file] # storage[k].name
      /\ OwnDisks => \A j, l \in DOMAIN e.extra : e.extra[j].file = e.extra[l].file => j = l
  BY <1>4 DEF DisksOfOne
<1>6. e' = e /\ FilesOf(e.primary, e.extra)' = FilesOf(e.primary, e.extra)
  BY <1>2 DEF FilesOf
<1> HIDE DEF e
<1>7. DisksOfOne(k, e.primary, e.extra)'
  BY <1>1, <1>5, <1>6 DEF DisksOfOne
<1>8. PlannedAs(k, e)'
  BY <1>1, <1>3, <1>6, <1>7 DEF PlannedAs
<1> QED
  BY <1>8 DEF e

(* The entries passed, before and after the next one is.                   *)
LEMMA Passed ==
  ASSUME NEW a \in Nat, NEW b \in {a, a + 1}
  PROVE  /\ 1..(a - 1) \subseteq 1..(b - 1)
         /\ \A k \in 1..(b - 1) : k \in 1..(a - 1) \/ (k = a /\ b = a + 1)
OBVIOUS

(* What the plan says of a directory is not touched again, and a directory *)
(* may be passed without an entry only if none is wanted.                  *)
LEMMA PlanFrame ==
  ASSUME TypeOK, PlanInv, UNCHANGED <<storage, vmDir, plan>>, i' \in {i, i + 1},
         i' = i + 1 => ~Wanted(i),
         \A k \in 1..(i - 1) : k \in misled' <=> k \in misled
  PROVE  PlanInv'
<1>1. /\ 1..(i - 1) \subseteq 1..(i' - 1)
      /\ \A k \in 1..(i' - 1) : k \in 1..(i - 1) \/ (k = i /\ i' = i + 1)
  BY LoopType, Passed
<1>2. \A n \in DOMAIN plan' : \E k \in 1..(i' - 1) : PlannedAs(k, plan[n])'
  <2> SUFFICES ASSUME NEW n \in DOMAIN plan
               PROVE  \E k \in 1..(i' - 1) : PlannedAs(k, plan[n])'
    OBVIOUS
  <2>1. PICK k \in 1..(i - 1) : PlannedAs(k, plan[n])
    BY DEF PlanInv
  <2>2. k \in 1..(i' - 1)
    BY <1>1
  <2>3. PlannedAs(k, plan[n])'
    BY <2>1, PlannedStays
  <2> QED
    BY <2>2, <2>3
<1>3. \A k : Wanted(k)' = Wanted(k)
  BY DEF Wanted
<1>4. \A k \in 1..(i' - 1) : Wanted(k) => \E n \in DOMAIN plan : plan[n].name = storage[k].name
  BY <1>1 DEF PlanInv
<1> QED
  BY <1>2, <1>3, <1>4 DEF PlanInv

(* A finished directory becomes the last entry of the plan.                *)
LEMMA PlanAdded ==
  ASSUME TypeOK, ItemInv, PlanInv, AddServer
  PROVE  PlanInv'
<1> DEFINE e == [name |-> item.name, primary |-> primary, extra |-> extra]
           m == Len(plan) + 1
<1>1. /\ pc = "disk" /\ devs = <<>> /\ primary # NoDisk /\ plan' = Append(plan, e) /\ i' = i + 1
      /\ UNCHANGED <<storage, vmDir, misled>>
  BY DEF AddServer
<1>2. i \in DOMAIN storage /\ item \in Item /\ i \in Nat \ {0} /\ i <= Len(storage)
  BY <1>1, LoopType, EntryType DEF ItemInv, item
<1>3. /\ m \in Nat /\ m \notin DOMAIN plan /\ DOMAIN plan' = DOMAIN plan \cup {m} /\ plan'[m] = e
      /\ \A n \in DOMAIN plan : plan'[n] = plan[n] /\ n \in Nat /\ n < m
  <2>1. plan \in Seq([name: Name, primary: Disk, extra: Seq(Disk)])
    BY DEF TypeOK
  <2>2. e \in [name: Name, primary: Disk, extra: Seq(Disk)]
    BY <1>1, <1>2 DEF TypeOK, Item
  <2>3. /\ Len(plan) \in Nat /\ DOMAIN plan = 1..Len(plan) /\ DOMAIN plan' = 1..(Len(plan) + 1)
        /\ plan'[Len(plan) + 1] = e
        /\ \A n \in DOMAIN plan : plan'[n] = plan[n]
    BY <1>1, <2>1, <2>2, AppendProperties, LenProperties
  <2> QED
    BY <2>3
<1>4. PlannedAs(i, e)
  <2>1. /\ e.name = storage[i].name /\ e.primary = primary /\ e.extra = extra
    BY DEF item
  <2> HIDE DEF e
  <2>2. ToSet(devs) = {}
    BY <1>1 DEF ToSet
  <2>3. /\ Selected /\ Parses /\ (item.marked => i \in misled) /\ DisksOfOne(i, primary, extra)
        /\ i \notin misled =>
             {d.file : d \in Candidates(i) \ ToSet(devs)} \cap item.files \subseteq FilesOf(primary, extra)
    BY <1>1 DEF ItemInv, Looked
  <2>4. i \notin misled => {d.file : d \in Candidates(i)} \cap item.files \subseteq FilesOf(primary, extra)
    BY <2>2, <2>3
  <2> QED
    BY <1>1, <2>1, <2>3, <2>4 DEF PlannedAs, Selected, Parses, item
<1> HIDE DEF e, m
<1>5. \A k : DisksOf(k)' = DisksOf(k) /\ Candidates(k)' = Candidates(k)
  BY <1>1 DEF DisksOf, DevicesOf, Candidates
<1>6. e.name = storage[i].name
  BY DEF e, item
<1>7. DifferentNames(storage)
  BY EntryType
<1>8. \A n \in DOMAIN plan' : \E k \in 1..(i' - 1) : PlannedAs(k, plan'[n])
  <2> SUFFICES ASSUME NEW n \in DOMAIN plan'
               PROVE  \E k \in 1..(i' - 1) : PlannedAs(k, plan'[n])
    OBVIOUS
  <2>1. CASE n = m
    <3>1. i \in 1..(i' - 1)
      BY <1>1, <1>2
    <3> QED
      BY <1>3, <1>4, <2>1, <3>1
  <2>2. CASE n \in DOMAIN plan
    <3>1. PICK k \in 1..(i - 1) : PlannedAs(k, plan[n])
      BY <2>2 DEF PlanInv
    <3>2. k \in 1..(i' - 1)
      BY <1>1, <1>2
    <3> QED
      BY <1>3, <2>2, <3>1, <3>2
  <2> QED
    BY <1>3, <2>1, <2>2
<1>9. \A l, n \in DOMAIN plan' : \A j, k \in DOMAIN storage :
        l < n /\ plan'[l].name = storage[j].name /\ plan'[n].name = storage[k].name => j < k
  <2> SUFFICES ASSUME NEW l \in DOMAIN plan', NEW n \in DOMAIN plan',
                      NEW j \in DOMAIN storage, NEW k \in DOMAIN storage, l < n,
                      plan'[l].name = storage[j].name, plan'[n].name = storage[k].name
               PROVE  j < k
    OBVIOUS
  <2>1. l \in DOMAIN plan /\ plan'[l] = plan[l]
    <3>1. l # m
      BY <1>3
    <3> QED
      BY <1>3, <3>1
  <2>2. CASE n = m
    <3>1. k = i
      BY <1>2, <1>3, <1>6, <1>7, <2>2 DEF DifferentNames
    <3>2. PICK q \in 1..(i - 1) : PlannedAs(q, plan[l])
      BY <2>1 DEF PlanInv
    <3>3. q \in DOMAIN storage
      BY <1>2, EntryType
    <3>4. q = j
      BY <1>7, <2>1, <3>2, <3>3 DEF DifferentNames, PlannedAs
    <3> QED
      BY <1>2, <3>1, <3>4
  <2>3. CASE n \in DOMAIN plan
    BY <1>3, <2>1, <2>3 DEF PlanInv
  <2> QED
    BY <1>3, <2>2, <2>3
<1>10. \A k \in 1..(i' - 1) : Wanted(k) => \E n \in DOMAIN plan' : plan'[n].name = storage[k].name
  <2> SUFFICES ASSUME NEW k \in 1..(i' - 1), Wanted(k)
               PROVE  \E n \in DOMAIN plan' : plan'[n].name = storage[k].name
    OBVIOUS
  <2>1. CASE k = i
    BY <1>3, <1>6, <2>1
  <2>2. CASE k # i
    <3>1. k \in 1..(i - 1)
      BY <1>1, <1>2, <2>2
    <3>2. PICK n \in DOMAIN plan : plan[n].name = storage[k].name
      BY <3>1 DEF PlanInv
    <3> QED
      BY <1>3, <3>2
  <2> QED
    BY <2>1, <2>2
<1>11. \A n \in DOMAIN plan' : \E k \in 1..(i' - 1) : PlannedAs(k, plan[n])'
  <2> SUFFICES ASSUME NEW n \in DOMAIN plan'
               PROVE  \E k \in 1..(i' - 1) : PlannedAs(k, plan[n])'
    OBVIOUS
  <2>1. PICK k \in 1..(i' - 1) : PlannedAs(k, plan'[n])
    BY <1>8
  <2>2. PlannedAs(k, plan[n])'
    BY <1>1, <1>5, <2>1 DEF PlannedAs, DisksOfOne, FilesOf
  <2> QED
    BY <2>2
<1> QED
  BY <1>1, <1>9, <1>10, <1>11 DEF PlanInv, Wanted

(* Only the step that ends a directory adds to the plan, and only a        *)
(* directory that is not wanted is passed without.                         *)
LEMMA PlanStep ==
  ASSUME Inv, [Next]_vars
  PROVE  PlanInv'
<1> USE DEF Inv
<1>1. i \in Nat \ {0}
  BY LoopType
<1>2. ASSUME UNCHANGED <<storage, vmDir, plan, i>>, misled' \in {misled, misled \cup {i}}
      PROVE  PlanInv'
  <2>1. \A k \in 1..(i - 1) : k # i
    BY <1>1
  <2>2. \A k \in 1..(i - 1) : k \in misled' <=> k \in misled
    BY <1>2, <2>1
  <2>3. i' # i + 1
    BY <1>1, <1>2
  <2> QED
    BY <1>2, <2>2, <2>3, PlanFrame
<1>3. CASE PassOver
  <2>1. UNCHANGED <<storage, vmDir, plan, misled>> /\ i' = i + 1 /\ ~Wanted(i)
    BY <1>3 DEF PassOver, Selected, Wanted, item
  <2> QED
    BY <2>1, PlanFrame
<1>4. CASE SkipMarked
  <2>1. UNCHANGED <<storage, vmDir, plan, misled>> /\ i' = i + 1 /\ ~Wanted(i)
    BY <1>4 DEF SkipMarked, Answered, Wanted, item
  <2> QED
    BY <2>1, PlanFrame
<1>5. CASE Parse \/ ParseFails
  <2>1. UNCHANGED <<storage, vmDir, plan, i>> /\ misled' \in {misled, misled \cup {i}}
    BY <1>5 DEF Parse, ParseFails, Unmarked, Fail, Answered, TimesOut
  <2> QED
    BY <1>2, <2>1
<1>6. CASE PassOverDisk \/ AddDisk \/ RefuseSnapshot \/ SizeFails
  <2>1. UNCHANGED <<storage, vmDir, plan, i>> /\ misled' \in {misled, misled \cup {i}}
    BY <1>6 DEF PassOverDisk, AddDisk, RefuseSnapshot, SizeFails, Fail, Answered, TimesOut
  <2> QED
    BY <1>2, <2>1
<1>7. CASE AddServer
  BY <1>7, PlanAdded
<1>8. CASE NoPrimary \/ Finish \/ UNCHANGED vars
  <2>1. UNCHANGED <<storage, vmDir, plan, i, misled>>
    BY <1>8 DEF NoPrimary, Finish, Fail, Answered, vars
  <2> QED
    BY <1>2, <2>1
<1> QED
  BY <1>3, <1>4, <1>5, <1>6, <1>7, <1>8 DEF Next

(* A plan is saved only when the whole storage has been passed.            *)
LEMMA EndStep ==
  ASSUME Inv, [Next]_vars
  PROVE  EndInv'
<1> USE DEF Inv
<1>1. CASE Finish
  BY <1>1 DEF Finish, EndInv
<1>2. CASE ParseFails \/ RefuseSnapshot \/ SizeFails \/ NoPrimary
  BY <1>2 DEF ParseFails, RefuseSnapshot, SizeFails, NoPrimary, Fail, EndInv
<1>3. CASE PassOver \/ SkipMarked \/ Parse \/ PassOverDisk \/ AddDisk \/ AddServer
  <2>1. pc # "done" /\ result' = result
    BY <1>3 DEF PassOver, SkipMarked, Parse, Unmarked, AtItem, PassOverDisk, AddDisk, Found, AddServer
  <2> QED
    BY <2>1 DEF EndInv
<1>4. CASE UNCHANGED vars
  BY <1>4 DEF vars, EndInv
<1> QED
  BY <1>1, <1>2, <1>3, <1>4 DEF Next

(* The inductive invariant of a run of -create-import-plan.                *)
THEOREM Invariant == Spec => []Inv
<1>1. Inv /\ [Next]_vars => Inv'
  BY TypeStep, ItemStep, PlanStep, EndStep DEF Inv
<1> QED
  BY InitInv, <1>1, PTL DEF Spec

(* Every type in PlanCreation's TypeOK is kept: what a run creates is a    *)
(* plan, with at most one entry for each entry of the storage passed.      *)
THEOREM TypeCorrect == Spec => []TypeOK
<1>1. Inv => TypeOK
  BY DEF Inv
<1> QED
  BY Invariant, <1>1, PTL

-----------------------------------------------------------------------------
(* The entry that a saved plan has for a wanted directory.                 *)
LEMMA EntryOf ==
  ASSUME Inv, result = "saved", NEW k \in DOMAIN storage, Wanted(k)
  PROVE  Entry(k) \in DOMAIN plan /\ PlannedAs(k, plan[Entry(k)])
<1> USE DEF Inv
<1>1. \A l : l \in DOMAIN storage <=> l \in 1..(i - 1)
  <2>1. i > Len(storage)
    BY DEF EndInv
  <2> QED
    BY <2>1, LoopType, EntryType
<1>2. Entry(k) \in DOMAIN plan /\ plan[Entry(k)].name = storage[k].name
  <2>1. \E n \in DOMAIN plan : plan[n].name = storage[k].name
    BY <1>1 DEF PlanInv
  <2> QED
    BY <2>1 DEF Entry
<1>3. PICK l \in 1..(i - 1) : PlannedAs(l, plan[Entry(k)])
  BY <1>2 DEF PlanInv
<1>4. l = k
  <2>1. storage[l].name = storage[k].name
    BY <1>2, <1>3 DEF PlannedAs
  <2> QED
    BY <1>1, <1>3, <2>1, EntryType DEF DifferentNames
<1> QED
  BY <1>2, <1>3, <1>4

(* When all disks are declared as the code needs to see them, the loops    *)
(* look at each disk of the directory: what they leave out has no file.    *)
LEMMA AllLookedAt ==
  ASSUME TypeOK, OwnDisks, NEW k \in DOMAIN storage, storage[k].vmx # <<>>, Declared(k)
  PROVE  DisksOf(k) = {d.file : d \in Candidates(k)} \cap storage[k].files
<1>1. storage[k].files \subseteq File /\ NoFile \notin File
  BY EntryType, ConstantsAssumption DEF Item
<1>2. \A d \in DevicesOf(k) : d.type = "cdrom-image" => d.file \notin storage[k].files
  <2>1. PICK v \in DOMAIN storage[k].vmx : DevicesOf(k) = storage[k].vmx[v].devices
    BY EntryType
  <2>2. storage \in Storages
    BY DEF TypeOK
  <2> QED
    BY <2>1, <2>2 DEF OwnDisks
<1>3. \A d \in DevicesOf(k) : d.file \in storage[k].files => Candidate(d)
  BY <1>1, <1>2 DEF Declared, Candidate
<1> QED
  BY <1>3 DEF DisksOf, Candidates

(* So the plan's entry has exactly the disks of the directory.             *)
LEMMA AllPlannedOf ==
  ASSUME Inv, result = "saved", OwnDisks,
         NEW k \in DOMAIN storage \ misled, Wanted(k), Declared(k)
  PROVE  LET e == plan[Entry(k)] IN FilesOf(e.primary, e.extra) = DisksOf(k)
<1>1. PlannedAs(k, plan[Entry(k)])
  BY EntryOf
<1>2. DisksOf(k) = {d.file : d \in Candidates(k)} \cap storage[k].files
  BY <1>1, AllLookedAt DEF Inv, PlannedAs
<1> QED
  BY <1>1, <1>2 DEF PlannedAs, DisksOfOne

(* No run saves a plan with a file of a snapshot in it, or with a virtual  *)
(* machine that has a snapshot, unless a look at its files took too long.  *)
THEOREM SnapshotsRefused ==
  ASSUME OwnDisks
  PROVE  Spec => []NoSnapshotPlanned
<1>1. Inv => NoSnapshotPlanned
  <2> SUFFICES ASSUME Inv, result = "saved", NEW n \in DOMAIN plan
               PROVE  /\ plan[n].primary.file \notin Snapshot
                      /\ \A d \in ToSet(plan[n].extra) : d.file \notin Snapshot
                      /\ \A k \in DOMAIN storage \ misled :
                           Wanted(k) /\ Declared(k) => DisksOf(k) \cap Snapshot = {}
    BY DEF NoSnapshotPlanned
  <2>1. Snapshot \subseteq Dashed
    BY ConstantsAssumption
  <2>2. PICK k \in 1..(i - 1) : PlannedAs(k, plan[n])
    BY DEF Inv, PlanInv
  <2>3. plan[n].primary # NoDisk /\ FilesOf(plan[n].primary, plan[n].extra) \cap Dashed = {}
    BY <2>2 DEF PlannedAs, DisksOfOne
  <2>4. plan[n].primary.file \notin Snapshot /\ \A d \in ToSet(plan[n].extra) : d.file \notin Snapshot
    BY <2>1, <2>3 DEF FilesOf, ToSet
  <2>5. ASSUME NEW l \in DOMAIN storage \ misled, Wanted(l), Declared(l)
        PROVE  DisksOf(l) \cap Snapshot = {}
    <3>1. PlannedAs(l, plan[Entry(l)])
      BY <2>5, EntryOf
    <3>2. FilesOf(plan[Entry(l)].primary, plan[Entry(l)].extra) \cap Dashed = {}
      BY <3>1 DEF PlannedAs, DisksOfOne
    <3> QED
      BY <2>1, <2>5, <3>2, AllPlannedOf
  <2> QED
    BY <2>4, <2>5
<1> QED
  BY Invariant, <1>1, PTL

(* A list of n elements, each of a set once, is as long as the set.        *)
LEMMA Counted ==
  ASSUME NEW n \in Nat, NEW S, NEW f \in [1..n -> S],
         \A x \in S : \E j \in 1..n : f[j] = x,
         \A j, l \in 1..n : f[j] = f[l] => j = l
  PROVE  IsFiniteSet(S) /\ Cardinality(S) = n
<1>1. f \in Bijection(1..n, S)
  BY DEF Bijection, Injection, Surjection, IsInjective
<1>2. IsFiniteSet(1..n) /\ Cardinality(1..n) = n
  BY FS_Interval
<1> QED
  BY <1>1, <1>2, FS_Bijection DEF ExistsBijection

(* The plan has each disk of a virtual machine exactly once, on whatever   *)
(* bus and in whatever order the decoder lists it, and the disk named      *)
(* after the directory is the primary one.                                 *)
THEOREM DisksOnce ==
  ASSUME OwnDisks
  PROVE  Spec => []EachDiskOnce
<1>1. Inv => EachDiskOnce
  <2> SUFFICES ASSUME Inv, result = "saved", NEW k \in DOMAIN storage \ misled, Wanted(k), Declared(k)
               PROVE  LET vs == plan[Entry(k)]
                      IN  /\ Stem[vs.primary.file] = storage[k].name
                          /\ {vs.primary.file} \cup {d.file : d \in ToSet(vs.extra)} = DisksOf(k)
                          /\ Len(vs.extra) + 1 = Cardinality(DisksOf(k))
    BY DEF EachDiskOnce
  <2> DEFINE p == plan[Entry(k)].primary
             e == plan[Entry(k)].extra
             n == Len(e)
             g == [j \in 1..(n + 1) |-> IF j <= n THEN e[j].file ELSE p.file]
  <2>1. DisksOfOne(k, p, e) /\ p # NoDisk /\ Entry(k) \in DOMAIN plan
    BY EntryOf DEF PlannedAs
  <2>2. FilesOf(p, e) = DisksOf(k)
    BY AllPlannedOf
  <2>3. n \in Nat /\ DOMAIN e = 1..n
    <3>1. plan \in Seq([name: Name, primary: Disk, extra: Seq(Disk)])
      BY DEF Inv, TypeOK
    <3>2. plan[Entry(k)] \in [name: Name, primary: Disk, extra: Seq(Disk)]
      BY <2>1, <3>1, ElementOfSeq, LenProperties
    <3>3. e \in Seq(Disk)
      BY <3>2
    <3> QED
      BY <3>3, LenProperties
  <2> HIDE DEF p, e, n
  <2>4. Stem[p.file] = storage[k].name /\ \A j \in DOMAIN e : Stem[e[j].file] # Stem[p.file]
    BY <2>1 DEF DisksOfOne
  <2>5. DisksOf(k) = {p.file} \cup {e[j].file : j \in 1..n}
    BY <2>1, <2>2, <2>3 DEF FilesOf
  <2>6. {p.file} \cup {d.file : d \in ToSet(e)} = DisksOf(k)
    BY <2>3, <2>5 DEF ToSet
  <2>7. \A j, l \in 1..n : e[j].file = e[l].file => j = l
    BY <2>1, <2>3 DEF DisksOfOne
  <2>8. /\ n + 1 \in 1..(n + 1) /\ g[n + 1] = p.file
        /\ \A j \in 1..n : j \in 1..(n + 1) /\ g[j] = e[j].file
        /\ \A j \in 1..(n + 1) : j \in 1..n \/ j = n + 1
    BY <2>3
  <2>9. g \in [1..(n + 1) -> DisksOf(k)]
    BY <2>5, <2>8
  <2> HIDE DEF g
  <2>10. \A x \in DisksOf(k) : \E j \in 1..(n + 1) : g[j] = x
    BY <2>5, <2>8
  <2>11. \A j, l \in 1..(n + 1) : g[j] = g[l] => j = l
    BY <2>3, <2>4, <2>7, <2>8
  <2>12. Cardinality(DisksOf(k)) = n + 1
    <3>1. n + 1 \in Nat
      BY <2>3
    <3> HIDE DEF g
    <3> QED
      BY <3>1, <2>9, <2>10, <2>11, Counted
  <2> QED
    BY <2>4, <2>6, <2>12 DEF p, e, n
<1> QED
  BY Invariant, <1>1, PTL

(* A set listed in increasing order: its n-th element is the one that has  *)
(* n elements up to it.                                                    *)
LEMMA NthElement ==
  ASSUME NEW N \in Nat, NEW P \in SUBSET Nat, NEW f \in [1..N -> P],
         \A x \in P : \E j \in 1..N : f[j] = x,
         \A j, l \in 1..N : j < l => f[j] < f[l]
  PROVE  /\ Cardinality(P) = N
         /\ \A n \in 1..N : (CHOOSE k \in P : Cardinality({l \in P : l <= k}) = n) = f[n]
<1>0. ASSUME NEW j \in 1..N
      PROVE  f[j] \in P /\ f[j] \in Nat /\ j \in Nat
  <2>1. f[j] \in P
    BY Zenon
  <2>2. f[j] \in Nat
    BY <2>1, Zenon
  <2> QED
    BY <2>1, <2>2
<1>1. ASSUME NEW j \in 1..N, NEW l \in 1..N, f[j] = f[l]
      PROVE  j = l
  <2>1. ~(f[j] < f[l]) /\ ~(f[l] < f[j])
    BY <1>0, <1>1
  <2>2. ~(j < l) /\ ~(l < j)
    BY <2>1
  <2> QED
    BY <1>0, <2>2
<1>2. Cardinality(P) = N
  BY <1>1, Counted
<1>3. ASSUME NEW n \in 1..N
      PROVE  Cardinality({l \in P : l <= f[n]}) = n
  <2> DEFINE S == {l \in P : l <= f[n]}
             g == [j \in 1..n |-> f[j]]
  <2>1. n \in Nat /\ \A j \in 1..n : j \in 1..N
    OBVIOUS
  <2>2. \A j \in 1..n : f[j] \in S
    <3> SUFFICES ASSUME NEW j \in 1..n
                 PROVE  f[j] \in P /\ f[j] <= f[n]
      OBVIOUS
    <3>1. j \in 1..N /\ (j = n \/ j < n)
      BY <2>1
    <3>2. f[j] = f[n] \/ f[j] < f[n]
      BY <3>1
    <3> QED
      BY <1>0, <3>1, <3>2
  <2>3. g \in [1..n -> S] /\ \A j \in 1..n : g[j] = f[j]
    BY <2>2
  <2>4. \A x \in S : \E j \in 1..n : g[j] = x
    <3> SUFFICES ASSUME NEW x \in S
                 PROVE  \E j \in 1..n : f[j] = x
      BY <2>3
    <3>1. PICK j \in 1..N : f[j] = x
      OBVIOUS
    <3>2. j <= n
      <4>1. ~(f[n] < f[j])
        BY <1>0, <3>1
      <4>2. ~(n < j)
        BY <3>1, <4>1
      <4> QED
        BY <1>0, <3>1, <4>2
    <3> QED
      BY <1>0, <3>1, <3>2
  <2>5. \A j, l \in 1..n : g[j] = g[l] => j = l
    BY <1>1, <2>1, <2>3
  <2> HIDE DEF S, g
  <2>6. Cardinality(S) = n
    BY <2>1, <2>3, <2>4, <2>5, Counted
  <2> QED
    BY <2>6 DEF S
<1>4. ASSUME NEW n \in 1..N, NEW k \in P, Cardinality({l \in P : l <= k}) = n
      PROVE  k = f[n]
  BY <1>3, <1>4
<1>5. ASSUME NEW n \in 1..N
      PROVE  (CHOOSE k \in P : Cardinality({l \in P : l <= k}) = n) = f[n]
  BY <1>3, <1>4
<1> QED
  BY <1>2, <1>5

(* The names of the entries in S, in their order.                          *)
NamesOf(S) ==
  [n \in 1..Cardinality(S) |->
     storage[CHOOSE k \in S : Cardinality({l \in S : l <= k}) = n].name]

(* A saved plan holds the directories wanted, each once and in their       *)
(* order, and beyond these only directories whose marker was overlooked.   *)
THEOREM WholeStorage == Spec => []PlanCoversStorage
<1>1. Inv => PlanCoversStorage
  <2> SUFFICES ASSUME Inv, result = "saved"
               PROVE  PlanCoversStorage
    BY DEF PlanCoversStorage
  <2> DEFINE P == {k \in DOMAIN storage : \E n \in DOMAIN plan : plan[n].name = storage[k].name}
             W == {k \in DOMAIN storage : Wanted(k)}
             N == Len(plan)
             At(n) == CHOOSE k \in DOMAIN storage : plan[n].name = storage[k].name
             f == [n \in 1..N |-> At(n)]
  <2>1. N \in Nat /\ DOMAIN plan = 1..N
    BY LenProperties DEF Inv, TypeOK
  <2>2. DOMAIN storage \subseteq Nat /\ DOMAIN storage = 1..(i - 1)
    <3>1. i > Len(storage)
      BY DEF Inv, EndInv
    <3> QED
      BY <3>1, LoopType, EntryType DEF Inv
  <2>3. \A n \in 1..N : \E k \in DOMAIN storage : PlannedAs(k, plan[n])
    BY <2>1, <2>2 DEF Inv, PlanInv
  <2>4. \A n \in 1..N : At(n) \in DOMAIN storage /\ plan[n].name = storage[At(n)].name
    BY <2>3 DEF PlannedAs
  <2>5. \A n \in 1..N : PlannedAs(At(n), plan[n])
    <3> SUFFICES ASSUME NEW n \in 1..N
                 PROVE  PlannedAs(At(n), plan[n])
      OBVIOUS
    <3>1. PICK k \in DOMAIN storage : PlannedAs(k, plan[n])
      BY <2>3
    <3>2. k = At(n)
      BY <2>4, <3>1, EntryType DEF Inv, PlannedAs, DifferentNames
    <3> QED
      BY <3>1, <3>2
  <2> HIDE DEF At
  <2>6. f \in [1..N -> P] /\ \A n \in 1..N : f[n] = At(n)
    BY <2>1, <2>4
  <2>7. \A x \in P : \E n \in 1..N : f[n] = x
    <3> SUFFICES ASSUME NEW x \in P
                 PROVE  \E n \in 1..N : f[n] = x
      OBVIOUS
    <3>1. PICK n \in 1..N : plan[n].name = storage[x].name
      BY <2>1
    <3>2. At(n) = x
      BY <2>4, <3>1, EntryType DEF Inv, DifferentNames
    <3> QED
      BY <2>6, <3>2
  <2>8. \A m, n \in 1..N : m < n => f[m] < f[n]
    BY <2>1, <2>4, <2>6 DEF Inv, PlanInv
  <2>9. W \subseteq P /\ P \subseteq Nat
    BY <2>2 DEF Inv, PlanInv
  <2>10. P \ W \subseteq misled \ W
    <3> SUFFICES ASSUME NEW k \in P, ~Wanted(k)
                 PROVE  k \in misled
      OBVIOUS
    <3>1. PICK n \in 1..N : f[n] = k
      BY <2>7
    <3> QED
      BY <2>5, <2>6, <3>1 DEF PlannedAs, Wanted
  <2> HIDE DEF f, N, P, W
  <2>11. /\ Cardinality(P) = N
         /\ \A n \in 1..N : (CHOOSE k \in P : Cardinality({l \in P : l <= k}) = n) = f[n]
    BY <2>1, <2>6, <2>7, <2>8, <2>9, NthElement
  <2>12. [n \in DOMAIN plan |-> plan[n].name] = NamesOf(P)
    <3>1. NamesOf(P) = [n \in 1..N |->
            storage[CHOOSE k \in P : Cardinality({l \in P : l <= k}) = n].name]
      BY <2>11 DEF NamesOf
    <3>2. \A n \in 1..N :
            storage[CHOOSE k \in P : Cardinality({l \in P : l <= k}) = n].name = plan[n].name
      <4> SUFFICES ASSUME NEW n \in 1..N
                   PROVE  storage[CHOOSE k \in P : Cardinality({l \in P : l <= k}) = n].name = plan[n].name
        OBVIOUS
      <4>1. (CHOOSE k \in P : Cardinality({l \in P : l <= k}) = n) = f[n]
        BY <2>11
      <4>2. storage[f[n]].name = plan[n].name
        BY <2>4, <2>6
      <4> QED
        BY <4>1, <4>2, Zenon
    <3>3. [n \in 1..N |-> storage[CHOOSE k \in P : Cardinality({l \in P : l <= k}) = n].name]
            = [n \in 1..N |-> plan[n].name]
      BY <3>2, Zenon
    <3> QED
      BY <2>1, <3>1, <3>3
  <2>13. W \cup (P \ W) = P /\ P \ W \in SUBSET (misled \ W)
    BY <2>9, <2>10
  <2>14. \E overlooked \in SUBSET (misled \ W) :
           [n \in DOMAIN plan |-> plan[n].name] = NamesOf(W \cup overlooked)
    BY <2>12, <2>13
  <2> QED
    BY <2>14, Zenon DEF PlanCoversStorage, W, NamesOf
<1> QED
  BY Invariant, <1>1, PTL
=============================================================================

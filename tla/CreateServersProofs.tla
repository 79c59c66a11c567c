------------------------ MODULE CreateServersProofs ------------------------
(***************************************************************************)
(* Proofs about CreateServers: for every plan, every settings and any      *)
(* number of failures and crashes its safety properties hold, and it       *)
(* implements ServerRegistry.                                              *)
(*                                                                         *)
(* The inductive invariant IInv adds to the properties what the plan in    *)
(* memory says while the plan file is behind it or truncated.              *)
(***************************************************************************)
EXTENDS CreateServers, TLAPS

(* The request in progress is the last one and is for the server at hand.  *)
WorkInv ==
  /\ Working => cur \in VS /\ attempt > 0 /\ origin[attempt] = cur
  /\ pc \in {"listing", "save", "encode"} => attempt \in servers
  /\ pc \in {"save", "encode"} => mem[cur].id = attempt

(* The plan file is in step with the plan in memory up to the server at    *)
(* hand, and truncated only while it is written or after that broke off.   *)
AgreeInv ==
  /\ pc \in {"loop", "creating", "listing", "save"} =>
       /\ file # Truncated
       /\ \A v \in VS : (pc = "save" => v # cur) => file[v].id = mem[v].id
  /\ pc \in {"creating", "listing", "save"} => file[cur].id < attempt
  /\ pc \in {"encode", "planEncode"} => file = Truncated
  /\ pc \in {"planSave", "planEncode"} => replanned /\ \A v \in VS : mem[v].id = 0

(* Every request sent but those of runs that broke off shows in plan p.    *)
Accounted(p) ==
  \A a \in 1..attempt : \/ NamedIn(p, a)
                        \/ a \in interrupted
                        \/ Working /\ a = attempt

AccountInv ==
  ~replanned => /\ file # Truncated => Accounted(file)
                /\ pc = "encode" => Accounted(mem)

(* What the run has passed is recorded. *)
PassedInv ==
  /\ pc # "idle" => exit = "none"
  /\ pc \in {"loop", "creating", "listing", "save", "encode"} =>
       \A v \in VS : v < cur => mem[v].id # 0
  /\ pc = "idle" /\ exit = "ok" =>
       file # Truncated /\ \A v \in VS : file[v].id # 0

DestinationsMatch(p) ==
  ~PartialListing => \A v \in VS : p[v].id # 0 => Destinations(p, v)

Matches(p) == ServersMatch(p) /\ DestinationsMatch(p)

MatchInv == Matches(mem) /\ (file # Truncated => Matches(file))

(* The plan stays one that Validate lets pass while the run rewrites it.   *)
ValidInv ==
  /\ pc \in {"loop", "creating", "listing", "save", "encode"} =>
       Validate(settings, mem)
  /\ RequestsComplete

IInv == /\ WorkInv /\ AgreeInv /\ AccountInv /\ PassedInv
        /\ MatchInv /\ ValidInv
-----------------------------------------------------------------------------
(* The plans that the actions make are plans. *)
LEMMA FreshPlanType == FreshPlan \in Plan
BY ConstantsAssumption DEF FreshPlan, Plan, Entry, NoPath, Path, DiskName

(* Filling in default offers yields offers. *)
LEMMA OffersType ==
  ASSUME NEW p \in Plan, NEW v \in VS, settings \in Settings
  PROVE  FilledOffers(p, v) \in [Disk -> Nat]
<1>1. settings.defaults.offer \in Nat
  BY ConstantsAssumption DEF ImportSettings, Defaults
<1>2. p[v].offer \in [Disk -> Nat]
  BY DEF Plan, Entry
<1> QED
  BY <1>1, <1>2 DEF FilledOffers

(* Sending a create request keeps the types. *)
LEMMA SendCreateType ==
  ASSUME NEW p \in Plan, NEW v \in VS, NEW offers \in [Disk -> Nat]
  PROVE  [p EXCEPT ![v].offer = offers] \in Plan
BY DEF Plan, Entry

(* A create request has the fields TypeOK gives it. *)
LEMMA RequestType ==
  ASSUME NEW v \in VS, NEW offers \in [Disk -> Nat], settings \in Settings
  PROVE  CreateRequest(v, offers) \in
           [project: Nat, location: Nat, cr: Nat, image: Nat,
            disks: SUBSET (Nat \X Nat)]
<1>1. settings.defaults \in Defaults
  BY ConstantsAssumption DEF ImportSettings
<1>2. Guest[v] \in GuestOS
  BY DEF GuestOS
<1>3. {<<offers[d], Size[v][d]>> : d \in Extra[v]} \subseteq Nat \X Nat
  BY ConstantsAssumption
<1> QED
  BY <1>1, <1>2, <1>3, ConstantsAssumption DEF Defaults, CreateRequest

(* So does entering a server and its listed disks into the plan. *)
LEMMA WithServerType ==
  ASSUME NEW p \in Plan, NEW v \in VS, NEW a \in Nat, NEW listed
  PROVE  WithServer(p, v, a, listed) \in Plan
<1>1. p[v] \in Entry
  BY DEF Plan
<1>2. (IF Primary \in listed THEN <<a, Primary>> ELSE p[v].primary) \in Path
  BY <1>1 DEF Entry, Path, DiskName
<1>3. [d \in Disk |-> IF d \in Extra[v] \cap listed THEN <<a, d>> ELSE p[v].dest[d]]
      \in [Disk -> Path]
  BY <1>1 DEF Entry, Path, DiskName
<1> QED
  BY <1>1, <1>2, <1>3 DEF Plan, Entry, WithServer

(* A run at work has sent a request, and is at a server of the plan.       *)
WorkBounds == Working => attempt > 0 /\ cur <= N

(* Every variable keeps its type in every run.  A run that breaks off adds *)
(* its request to interrupted, so WorkBounds is needed too.            *)
THEOREM TypeInvariant == Spec => []TypeOK
<1>1. Init => TypeOK
  <2> SUFFICES ASSUME Init PROVE TypeOK
    OBVIOUS
  <2>1. file \in Plan /\ mem \in Plan
    BY FreshPlanType DEF Init
  <2>2. request \in [project: Nat, location: Nat, cr: Nat, image: Nat,
                    disks: SUBSET (Nat \X Nat)]
    BY DEF Init, NoRequest
  <2>3. origin \in Seq(VS) /\ inflight = {} /\ servers = {} /\ interrupted = {}
    BY DEF Init
  <2>4. /\ settings \in Settings /\ recreate \in BOOLEAN /\ replanned \in BOOLEAN
        /\ pc \in PC /\ exit \in {"none", "ok", "error", "crash"}
    BY DEF Init, PC
  <2>5. cur \in 1..(N + 1) /\ disturbances \in 0..MaxDisturbances
    BY ConstantsAssumption DEF Init
  <2> QED
    BY <2>1, <2>2, <2>3, <2>4, <2>5 DEF TypeOK
<1>2. Init => WorkBounds
  BY DEF Init, WorkBounds, Working
<1>3. TypeOK /\ WorkBounds /\ [Next]_vars => TypeOK'
  <2> SUFFICES ASSUME TypeOK, WorkBounds, [Next]_vars
               PROVE  TypeOK'
    OBVIOUS
  <2> USE DEF TypeOK, attempt
  <2>1. ASSUME NEW s \in Settings, NEW flag \in BOOLEAN, Begin(s, flag)
        PROVE  TypeOK'
    <3>1. mem' \in Plan /\ settings' \in Settings /\ recreate' \in BOOLEAN
      BY <2>1 DEF Begin, CanRun
    <3>2. disturbances' \in 0..MaxDisturbances
      BY <2>1, ConstantsAssumption DEF Begin, Disturb
    <3>3. cur' \in 1..(N + 1)
      BY <2>1, ConstantsAssumption DEF Begin
    <3>4. /\ pc' = "loop" /\ exit' = "none"
          /\ UNCHANGED <<file, request, origin, inflight, servers, interrupted, replanned>>
      BY <2>1 DEF Begin, apiVars, history
    <3> QED
      BY <3>1, <3>2, <3>3, <3>4 DEF PC
  <2>2. ASSUME NEW s \in Settings, BeginRefused(s)
        PROVE  TypeOK'
    BY <2>2 DEF BeginRefused, runVars, apiVars, history
  <2>14. CASE LoadSettingsFails
    BY <2>14 DEF LoadSettingsFails, runVars, apiVars, history
  <2>3. CASE Skip
    BY <2>3, ConstantsAssumption DEF Skip, apiVars, history
  <2>4. CASE SendCreate
    <3>1. cur \in VS
      BY <2>4, ConstantsAssumption DEF SendCreate, VS
    <3>2. mem' \in Plan
      BY <2>4, <3>1, OffersType, SendCreateType DEF SendCreate
    <3>3. request' \in [project: Nat, location: Nat, cr: Nat, image: Nat,
                        disks: SUBSET (Nat \X Nat)]
      BY <2>4, <3>1, OffersType, RequestType DEF SendCreate
    <3>4. origin' \in Seq(VS) /\ Len(origin') = Len(origin) + 1
      BY <2>4, <3>1 DEF SendCreate
    <3>5. /\ pc' = "creating" /\ inflight' = inflight \cup {attempt + 1}
          /\ UNCHANGED <<file, settings, recreate, cur, servers, exit, interrupted,
                         replanned, disturbances>>
      BY <2>4 DEF SendCreate, history
    <3>6. /\ inflight \cup {attempt + 1} \subseteq 1..(attempt + 1)
          /\ servers \subseteq 1..(attempt + 1) /\ interrupted \subseteq 1..(attempt + 1)
      <4>1. attempt \in Nat
        OBVIOUS
      <4>2. /\ inflight \subseteq 1..attempt /\ servers \subseteq 1..attempt
            /\ interrupted \subseteq 1..attempt
        OBVIOUS
      <4> HIDE DEF TypeOK, attempt
      <4> QED
        BY <4>1, <4>2
    <3> QED
      BY <3>2, <3>3, <3>4, <3>5, <3>6 DEF PC
  <2>5. CASE CreateAnswered
    BY <2>5 DEF CreateAnswered, PC, runVars, apiVars, history
  <2>6. CASE DisksListed
    <3>1. cur \in VS
      BY <2>6, ConstantsAssumption DEF DisksListed, WorkBounds, Working, VS
    <3>2. mem' \in Plan
      BY <2>6, <3>1, WithServerType DEF DisksListed
    <3> QED
      BY <2>6, <3>2 DEF DisksListed, PC, apiVars, history
  <2>7. CASE SaveOpen
    BY <2>7 DEF SaveOpen, PC, runVars, apiVars, history
  <2>8. CASE SaveEncode
    <3>1. cur' \in 1..(N + 1)
      BY <2>8, ConstantsAssumption DEF SaveEncode, WorkBounds, Working
    <3>2. file' = mem /\ pc' \in PC
      BY <2>8 DEF SaveEncode, PC
    <3> QED
      BY <2>8, <3>1, <3>2 DEF SaveEncode, apiVars, history
  <2>9. CASE Finish
    BY <2>9 DEF Finish, PC, runVars, apiVars, history
  <2>10. CASE CreateFails \/ ListingFails \/ SaveFails \/ Crash
    <3>1. disturbances' \in 0..MaxDisturbances
      BY <2>10, ConstantsAssumption
         DEF CreateFails, ListingFails, SaveFails, Crash, Disturb
    <3>2. \E how \in {"error", "crash"} : BreakOff(how)
      BY <2>10 DEF CreateFails, ListingFails, SaveFails, Crash
    <3>3. interrupted' \subseteq 1..attempt
      <4>1. Working => attempt \in 1..attempt
        BY DEF WorkBounds
      <4> QED
        BY <3>2, <4>1 DEF BreakOff
    <3> QED
      BY <3>1, <3>2, <3>3 DEF BreakOff, PC, runVars, apiVars
  <2>11. CASE Replan
    <3>1. mem' \in Plan
      BY <2>11, FreshPlanType DEF Replan
    <3>2. disturbances' \in 0..MaxDisturbances
      BY <2>11, ConstantsAssumption DEF Replan, Disturb
    <3>3. /\ pc' = "planSave" /\ exit' = "none" /\ replanned' = TRUE
          /\ UNCHANGED <<file, settings, recreate, cur, request, origin, inflight,
                         servers, interrupted>>
      BY <2>11 DEF Replan, apiVars
    <3> QED
      BY <3>1, <3>2, <3>3 DEF PC
  <2>12. ASSUME NEW a \in inflight, ApiCreate(a)
         PROVE  TypeOK'
    BY <2>12 DEF ApiCreate, runVars, history
  <2>13. CASE UNCHANGED vars
    BY <2>13 DEF vars, runVars, apiVars, history
  <2> QED
    BY <2>1, <2>2, <2>3, <2>4, <2>5, <2>6, <2>7, <2>8, <2>9, <2>10, <2>11,
       <2>12, <2>13, <2>14 DEF Next, Tool
<1>4. TypeOK /\ WorkBounds /\ [Next]_vars => WorkBounds'
  <2> SUFFICES ASSUME TypeOK, WorkBounds, [Next]_vars
               PROVE  WorkBounds'
    OBVIOUS
  <2> USE DEF TypeOK, WorkBounds, Working, attempt
  <2>1. CASE SendCreate
    BY <2>1 DEF SendCreate, VS
  <2>3. CASE SaveOpen \/ SaveEncode
    BY <2>3 DEF SaveOpen, SaveEncode, runVars, apiVars
  <2>4. CASE CreateAnswered \/ DisksListed
    BY <2>4 DEF CreateAnswered, DisksListed, runVars, apiVars
  <2>5. CASE CreateFails \/ ListingFails \/ SaveFails \/ Crash
    BY <2>5 DEF CreateFails, ListingFails, SaveFails, Crash, BreakOff
  <2>6. CASE Skip \/ Finish \/ Replan \/ UNCHANGED vars
    BY <2>6 DEF Skip, Finish, Replan, vars, runVars, apiVars
  <2>7. CASE \/ \E s \in Settings, flag \in BOOLEAN : Begin(s, flag)
             \/ (\E s \in Settings : BeginRefused(s)) \/ LoadSettingsFails
             \/ \E a \in inflight : ApiCreate(a)
    BY <2>7 DEF Begin, BeginRefused, LoadSettingsFails, ApiCreate, runVars, apiVars
  <2> QED
    BY <2>1, <2>3, <2>4, <2>5, <2>6, <2>7 DEF Next, Tool
<1> QED
  BY <1>1, <1>2, <1>3, <1>4, PTL DEF Spec
-----------------------------------------------------------------------------
(* The steps by which a run ends in failure. *)
Fails == CreateFails \/ ListingFails \/ SaveFails \/ Crash

(* Each of the four ways to fail breaks the run off and nothing else. *)
LEMMA FailsBreaksOff ==
  ASSUME Fails
  PROVE  /\ pc # "idle" /\ pc' = "idle"
         /\ exit' \in {"error", "crash"}
         /\ interrupted' = IF Working THEN interrupted \cup {attempt} ELSE interrupted
         /\ UNCHANGED <<file, mem, cur, origin, inflight, servers, replanned>>
BY DEF Fails, CreateFails, ListingFails, SaveFails, Crash, BreakOff, runVars, apiVars

(* Requests keep their number and what they were sent for, and servers are *)
(* never taken away.                                                       *)
LEMMA ApiGrows ==
  ASSUME TypeOK, [Next]_vars
  PROVE  /\ attempt \in Nat /\ attempt <= attempt'
         /\ \A a \in 1..attempt : origin'[a] = origin[a]
         /\ servers \subseteq servers'
<1> USE DEF TypeOK, attempt
<1>1. CASE SendCreate
  BY <1>1 DEF SendCreate, VS
<1>2. CASE \E a \in inflight : ApiCreate(a)
  BY <1>2 DEF ApiCreate
<1>3. CASE UNCHANGED <<origin, servers>>
  BY <1>3
<1>4. CASE Skip \/ CreateAnswered \/ DisksListed \/ SaveOpen \/ SaveEncode \/ Finish
  BY <1>3, <1>4
     DEF Skip, CreateAnswered, DisksListed, SaveOpen, SaveEncode, Finish, apiVars
<1>5. CASE Fails
  BY <1>3, <1>5, FailsBreaksOff
<1>6. CASE \/ \E s \in Settings, flag \in BOOLEAN : Begin(s, flag)
           \/ (\E s \in Settings : BeginRefused(s)) \/ LoadSettingsFails
           \/ Replan \/ UNCHANGED vars
  BY <1>3, <1>6 DEF Begin, BeginRefused, LoadSettingsFails, Replan, vars, apiVars
<1> QED
  BY <1>1, <1>2, <1>4, <1>5, <1>6 DEF Next, Tool, Fails

(* Entering a server changes the server of that one entry. *)
LEMMA WithServerIds ==
  ASSUME NEW p \in Plan, NEW v \in VS, NEW a, NEW listed
  PROVE  /\ WithServer(p, v, a, listed)[v].id = a
         /\ \A w \in VS \ {v} : WithServer(p, v, a, listed)[w] = p[w]
BY DEF WithServer, Plan

(* Every step keeps WorkInv: what a run is working on at each point. *)
LEMMA WorkStep ==
  ASSUME TypeOK, TypeOK', WorkInv, [Next]_vars
  PROVE  WorkInv'
<1> USE DEF WorkInv, Working
<1>1. CASE Skip \/ SaveEncode \/ Finish
  BY <1>1 DEF Skip, SaveEncode, Finish
<1>2. CASE SendCreate
  BY <1>2 DEF SendCreate, TypeOK, attempt, VS
<1>3. CASE CreateAnswered
  BY <1>3 DEF CreateAnswered, runVars, apiVars, attempt
<1>4. CASE DisksListed
  BY <1>4, WithServerIds DEF DisksListed, apiVars, attempt, TypeOK
<1>5. CASE SaveOpen
  BY <1>5 DEF SaveOpen, runVars, apiVars, attempt
<1>6. CASE Fails
  BY <1>6, FailsBreaksOff
<1>7. CASE \E a \in inflight : ApiCreate(a)
  BY <1>7 DEF ApiCreate, runVars, attempt
<1>8. CASE \/ \E s \in Settings, flag \in BOOLEAN : Begin(s, flag)
           \/ (\E s \in Settings : BeginRefused(s)) \/ LoadSettingsFails
           \/ Replan
  BY <1>8 DEF Begin, BeginRefused, LoadSettingsFails, Replan
<1>9. CASE UNCHANGED vars
  BY <1>9 DEF vars, runVars, apiVars, attempt
<1> QED
  BY <1>1, <1>2, <1>3, <1>4, <1>5, <1>6, <1>7, <1>8, <1>9 DEF Next, Tool, Fails

(* Every step keeps AgreeInv: where file and memory agree. *)
LEMMA AgreeStep ==
  ASSUME TypeOK, TypeOK', WorkInv, AgreeInv, MatchInv, [Next]_vars
  PROVE  AgreeInv'
<1> USE DEF AgreeInv
<1>1. ASSUME NEW s \in Settings, NEW flag \in BOOLEAN, Begin(s, flag)
      PROVE  AgreeInv'
  BY <1>1 DEF Begin, CanRun
<1>2. CASE Skip
  BY <1>2 DEF Skip
<1>3. CASE SendCreate
  <2>1. cur \in VS
    BY <1>3 DEF SendCreate, TypeOK, VS
  <2>2. \A v \in VS : mem'[v].id = mem[v].id
    BY <1>3, <2>1 DEF SendCreate, TypeOK, Plan, Entry
  <2>3. file[cur].id < attempt'
    <3>1. file \in Plan /\ file[cur].id \in Nat
      BY <1>3, <2>1 DEF SendCreate, TypeOK, Plan, Entry
    <3>2. file[cur].id # 0 => file[cur].id \in 1..attempt
      BY <1>3, <2>1 DEF SendCreate, MatchInv, Matches, ServersMatch, TypeOK
    <3>3. attempt \in Nat /\ attempt' = attempt + 1
      BY <1>3, <2>1 DEF SendCreate, attempt, TypeOK
    <3> QED
      BY <3>1, <3>2, <3>3
  <2> QED
    BY <1>3, <2>1, <2>2, <2>3 DEF SendCreate
<1>4. CASE CreateAnswered
  BY <1>4 DEF CreateAnswered, runVars, apiVars, attempt
<1>5. CASE DisksListed
  BY <1>5, WithServerIds DEF DisksListed, apiVars, attempt, TypeOK, WorkInv, Working
<1>6. CASE SaveOpen \/ SaveEncode
  BY <1>6, ConstantsAssumption
     DEF SaveOpen, SaveEncode, runVars, apiVars, history, TypeOK
<1>7. CASE Finish
  BY <1>7 DEF Finish
<1>8. CASE Fails
  BY <1>8, FailsBreaksOff
<1>9. CASE Replan
  BY <1>9 DEF Replan, FreshPlan
<1>10. CASE \E a \in inflight : ApiCreate(a)
  BY <1>10 DEF ApiCreate, runVars, history, attempt
<1>11. CASE (\E s \in Settings : BeginRefused(s)) \/ LoadSettingsFails \/ UNCHANGED vars
  BY <1>11 DEF BeginRefused, LoadSettingsFails, vars, runVars, apiVars, history, attempt
<1> QED
  BY <1>1, <1>2, <1>3, <1>4, <1>5, <1>6, <1>7, <1>8, <1>9, <1>10, <1>11
     DEF Next, Tool, Fails

(* What matches now matches after any step, as the API only grows. *)
LEMMA MatchStays ==
  ASSUME TypeOK, [Next]_vars, Matches(mem'), file' # Truncated => Matches(file')
  PROVE  MatchInv'
<1>1. ASSUME NEW p, NEW v \in VS,
             p[v].id # 0 => p[v].id \in servers /\ origin[p[v].id] = v
      PROVE  p[v].id # 0 => p[v].id \in servers' /\ origin'[p[v].id] = v
  BY <1>1, ApiGrows DEF TypeOK
<1>2. ServersMatch(mem)'
  BY <1>1 DEF Matches, ServersMatch
<1>3. (file # Truncated)' => ServersMatch(file)'
  BY <1>1 DEF Matches, ServersMatch
<1>4. /\ DestinationsMatch(mem)'
      /\ (file # Truncated)' => DestinationsMatch(file)'
  BY DEF Matches, DestinationsMatch, Destinations
<1> QED
  BY <1>2, <1>3, <1>4 DEF MatchInv, Matches

(* Only DisksListed changes the servers and destinations in memory within  *)
(* a run, and to those of a server made for the entry.                     *)
LEMMA ListedMatch ==
  ASSUME TypeOK, WorkInv, MatchInv, DisksListed
  PROVE  Matches(mem')
<1> USE ConstantsAssumption
<1>1. PICK listed \in Listings(cur) : mem' = WithServer(mem, cur, attempt, listed)
  BY DEF DisksListed
<1>2. /\ cur \in VS /\ mem \in Plan /\ attempt \in servers /\ origin[attempt] = cur
      /\ ServersMatch(mem) /\ DestinationsMatch(mem)
  BY DEF DisksListed, WorkInv, Working, TypeOK, MatchInv, Matches
<1>3. ServersMatch(mem')
  BY <1>1, <1>2, WithServerIds DEF ServersMatch
<1>4. DestinationsMatch(mem')
  <2> SUFFICES ASSUME ~PartialListing, NEW v \in VS, mem'[v].id # 0
               PROVE  Destinations(mem', v)
    BY DEF DestinationsMatch
  <2>1. CASE v = cur
    <3>1. listed = Extra[v] \cup {Primary}
      BY <2>1, <1>1 DEF Listings
    <3>2. mem'[v].primary = <<attempt, Primary>> /\ mem'[v].id = attempt
      BY <2>1, <1>1, <1>2, <3>1 DEF WithServer, Plan
    <3>3. \A d \in Extra[v] : mem'[v].dest[d] = <<attempt, d>>
      BY <2>1, <1>1, <1>2, <3>1 DEF WithServer, Plan
    <3> QED
      BY <3>2, <3>3 DEF Destinations
  <2>2. CASE v # cur
    BY <2>2, <1>1, <1>2, WithServerIds DEF DestinationsMatch, Destinations
  <2> QED
    BY <2>1, <2>2
<1> QED
  BY <1>3, <1>4 DEF Matches

(* Every step keeps MatchInv: servers and destinations that plans name. *)
LEMMA MatchStep ==
  ASSUME TypeOK, WorkInv, MatchInv, [Next]_vars
  PROVE  MatchInv'
<1> SUFFICES Matches(mem') /\ (file' # Truncated => Matches(file'))
  BY MatchStays
<1> USE DEF MatchInv
<1>1. CASE UNCHANGED <<file, mem>>
  BY <1>1
<1>2. CASE \E s \in Settings, flag \in BOOLEAN : Begin(s, flag)
  BY <1>2 DEF Begin, CanRun
<1>3. CASE SendCreate
  <2>1. \A v \in VS : /\ mem'[v].id = mem[v].id
                      /\ mem'[v].primary = mem[v].primary
                      /\ mem'[v].dest = mem[v].dest
    BY <1>3 DEF SendCreate, TypeOK, Plan, Entry
  <2> QED
    BY <1>3, <2>1
       DEF SendCreate, Matches, ServersMatch, DestinationsMatch, Destinations
<1>4. CASE DisksListed
  BY <1>4, ListedMatch DEF DisksListed
<1>5. CASE SaveOpen \/ SaveEncode
  BY <1>5 DEF SaveOpen, SaveEncode, runVars
<1>6. CASE Replan
  BY <1>6
     DEF Replan, FreshPlan, Matches, ServersMatch, DestinationsMatch
<1>7. CASE Fails
  BY <1>1, <1>7, FailsBreaksOff
<1>8. CASE \/ (\E s \in Settings : BeginRefused(s)) \/ LoadSettingsFails
           \/ Skip \/ CreateAnswered \/ Finish
           \/ \E a \in inflight : ApiCreate(a)
           \/ UNCHANGED vars
  BY <1>1, <1>8
     DEF BeginRefused, LoadSettingsFails, Skip, CreateAnswered, Finish, ApiCreate, vars, runVars
<1> QED
  BY <1>2, <1>3, <1>4, <1>5, <1>6, <1>7, <1>8 DEF Next, Tool, Fails

(* Every step keeps AccountInv: each request is recorded or accounted for. *)
LEMMA AccountStep ==
  ASSUME TypeOK, TypeOK', WorkInv, AgreeInv, AccountInv, [Next]_vars
  PROVE  AccountInv'
<1> SUFFICES ASSUME ~replanned'
             PROVE  /\ file' # Truncated => Accounted(file)'
                    /\ pc' = "encode" => Accounted(mem)'
  BY DEF AccountInv
<1>1. ~replanned /\ (file # Truncated => Accounted(file))
                 /\ (pc = "encode" => Accounted(mem))
  <2>1. replanned => replanned'
    BY DEF Next, Tool, Begin, BeginRefused, LoadSettingsFails, Skip, SendCreate, CreateAnswered,
           DisksListed, SaveOpen, SaveEncode, Finish, CreateFails, ListingFails,
           SaveFails, Crash, BreakOff, Replan, ApiCreate, history, vars
  <2> QED
    BY <2>1 DEF AccountInv, TypeOK
<1> USE DEF Accounted, NamedIn
<1>2. CASE /\ UNCHANGED <<file, origin, interrupted>>
           /\ Working => Working'
           /\ pc' = "encode" => pc = "encode" /\ mem' = mem
  BY <1>1, <1>2 DEF attempt
<1>3. CASE SendCreate
  <2>1. file # Truncated /\ \A a \in 1..attempt : NamedIn(file, a) \/ a \in interrupted
    BY <1>1, <1>3 DEF SendCreate, Working, AgreeInv
  <2>2. /\ attempt \in Nat /\ attempt' = attempt + 1
        /\ \A a \in 1..attempt : origin'[a] = origin[a]
    BY <1>3, ApiGrows DEF SendCreate, attempt, TypeOK
  <2>3. ASSUME NEW a \in 1..attempt'
        PROVE  NamedIn(file, a)' \/ a \in interrupted' \/ a = attempt'
    <3>1. a \in 1..attempt \/ a = attempt'
      BY <2>2
    <3> QED
      BY <1>3, <2>1, <2>2, <3>1 DEF SendCreate, history
  <2> QED
    BY <1>3, <2>3 DEF SendCreate, Working
<1>4. CASE SaveOpen
  <2>1. CASE pc = "save"
    <3>1. file # Truncated /\ Accounted(file)
      BY <1>1, <2>1 DEF AgreeInv
    <3>2. \A a \in 1..attempt : NamedIn(file, a) => NamedIn(mem, a)
      <4> SUFFICES ASSUME NEW a \in 1..attempt, NamedIn(file, a)
                   PROVE  NamedIn(mem, a)
        OBVIOUS
      <4>1. CASE origin[a] = cur
        <5>1. mem[cur].id = attempt /\ attempt \in Nat
          BY <2>1 DEF WorkInv, TypeOK, attempt
        <5>2. attempt >= a
          BY <5>1
        <5>3. mem[origin[a]].id = attempt
          BY ONLY <4>1, <5>1
        <5> QED
          BY ONLY <5>2, <5>3 DEF NamedIn
      <4>2. CASE origin[a] # cur
        <5>1. origin[a] \in VS
          BY DEF TypeOK, attempt
        <5>2. file[origin[a]].id = mem[origin[a]].id
          BY <2>1, <3>1, <4>2, <5>1 DEF AgreeInv
        <5> QED
          BY <5>2
      <4> QED
        BY <4>1, <4>2
    <3> QED
      BY <1>4, <2>1, <3>1, <3>2
         DEF SaveOpen, Working, runVars, apiVars, history, attempt
  <2>2. CASE pc = "planSave"
    BY <1>1, <2>2 DEF AgreeInv
  <2> QED
    BY <1>4, <2>1, <2>2 DEF SaveOpen
<1>5. CASE SaveEncode
  <2>1. CASE pc = "encode"
    <3>1. Accounted(mem)
      BY <1>1, <2>1
    <3>4. NamedIn(mem, attempt)
      <4>1. /\ origin[attempt] = cur /\ mem[cur].id = attempt /\ attempt \in Nat
        BY <2>1 DEF WorkInv, Working, TypeOK, attempt
      <4> QED
        BY <4>1
    <3>2. /\ file' = mem /\ pc' = "loop" /\ UNCHANGED <<mem, origin, interrupted>>
      BY <1>5, <2>1 DEF SaveEncode, apiVars, history
    <3>3. Accounted(mem)'
      BY <3>1, <3>2, <3>4 DEF attempt
    <3> QED
      BY <3>2, <3>3 DEF attempt, Working
  <2>2. CASE pc = "planEncode"
    BY <1>1, <2>2 DEF AgreeInv
  <2> QED
    BY <1>5, <2>1, <2>2 DEF SaveEncode
<1>6. CASE Fails
  BY <1>1, <1>6, FailsBreaksOff DEF attempt, Working
<1>7. CASE \/ \E s \in Settings, flag \in BOOLEAN : Begin(s, flag)
           \/ (\E s \in Settings : BeginRefused(s)) \/ LoadSettingsFails
           \/ Skip \/ CreateAnswered \/ DisksListed \/ Finish
           \/ UNCHANGED vars
  BY <1>2, <1>7
     DEF Begin, BeginRefused, LoadSettingsFails, Skip, CreateAnswered, DisksListed, Finish, vars,
         runVars, apiVars, history, Working
<1>8. CASE Replan
  BY <1>8 DEF Replan
<1>9. CASE \E a \in inflight : ApiCreate(a)
  BY <1>2, <1>9 DEF ApiCreate, runVars, history, Working
<1> QED
  BY <1>3, <1>4, <1>5, <1>6, <1>7, <1>8, <1>9 DEF Next, Tool, Fails

(* Every step keeps PassedInv: what holds of entries the loop has passed. *)
LEMMA PassedStep ==
  ASSUME TypeOK, TypeOK', WorkInv, AgreeInv, PassedInv, [Next]_vars
  PROVE  PassedInv'
<1> USE DEF PassedInv
<1>1. CASE \/ \E s \in Settings, flag \in BOOLEAN : Begin(s, flag)
           \/ (\E s \in Settings : BeginRefused(s)) \/ LoadSettingsFails
  BY <1>1 DEF Begin, BeginRefused, LoadSettingsFails, VS
<1>2. CASE Skip
  BY <1>2 DEF Skip, TypeOK, VS
<1>3. CASE SendCreate
  BY <1>3 DEF SendCreate, TypeOK, Plan, Entry, VS
<1>4. CASE CreateAnswered \/ SaveOpen
  BY <1>4 DEF CreateAnswered, SaveOpen, runVars
<1>5. CASE DisksListed
  BY <1>5, WithServerIds DEF DisksListed, WorkInv, Working, TypeOK, VS
<1>6. CASE SaveEncode
  BY <1>6 DEF SaveEncode, WorkInv, Working, TypeOK, VS
<1>7. CASE Finish
  <2>1. pc = "loop" /\ \A v \in VS : v < cur
    BY <1>7, ConstantsAssumption DEF Finish, TypeOK, VS
  <2>2. file # Truncated /\ \A v \in VS : file[v].id # 0
    BY <2>1 DEF AgreeInv
  <2> QED
    BY <1>7, <2>2 DEF Finish
<1>8. CASE Fails
  BY <1>8, FailsBreaksOff
<1>9. CASE Replan
  BY <1>9 DEF Replan
<1>10. CASE (\E a \in inflight : ApiCreate(a)) \/ UNCHANGED vars
  BY <1>10 DEF ApiCreate, vars, runVars
<1> QED
  BY <1>1, <1>2, <1>3, <1>4, <1>5, <1>6, <1>7, <1>8, <1>9, <1>10
     DEF Next, Tool, Fails

(* Every step keeps ValidInv: the plan in memory stays valid. *)
LEMMA ValidStep ==
  ASSUME TypeOK, WorkInv, ValidInv, [Next]_vars
  PROVE  ValidInv'
<1> USE DEF ValidInv
<1>1. CASE \E s \in Settings, flag \in BOOLEAN : Begin(s, flag)
  BY <1>1 DEF Begin, CanRun, RequestsComplete
<1>2. CASE SendCreate
  <2>1. cur \in VS /\ mem \in Plan /\ Validate(settings, mem)
    BY <1>2 DEF SendCreate, TypeOK, VS
  <2>2. ValidServer(settings.defaults, mem, cur) /\ settings.defaults.cr # 0
    BY <2>1 DEF Validate
  <2> DEFINE offers == FilledOffers(mem, cur)
  <2>3. \A d \in Extra[cur] : offers[d] # 0 /\ Size[cur][d] # 0
    BY <2>1, <2>2, ConstantsAssumption DEF ValidServer, FilledOffers
  <2>4. \A v \in VS : \A d \in Extra[v] :
              mem[v].offer[d] # 0 => mem'[v].offer[d] # 0
    BY <1>2, <2>1, <2>3, ConstantsAssumption DEF SendCreate, Plan, Entry
  <2>5. Validate(settings, mem')
    BY <2>1, <2>4 DEF Validate, ValidServer
  <2>6. request' = CreateRequest(cur, offers)
    BY <1>2 DEF SendCreate
  <2>7. /\ 0 \notin {request'.project, request'.location, request'.cr, request'.image}
        /\ request'.disks = {<<offers[d], Size[cur][d]>> : d \in Extra[cur]}
    BY <2>1, <2>2, <2>6 DEF CreateRequest, Validate, ValidServer
  <2>8. \A d \in request'.disks : d[1] # 0 /\ d[2] # 0
    BY <2>3, <2>7
  <2> QED
    BY <1>2, <2>5, <2>7, <2>8 DEF SendCreate, RequestsComplete
<1>3. CASE DisksListed
  <2>1. cur \in VS /\ Validate(settings, mem)
    BY <1>3 DEF DisksListed, WorkInv, Working
  <2>2. \A v \in VS : mem'[v].offer = mem[v].offer
    BY <1>3, <2>1 DEF DisksListed, WithServer, TypeOK, Plan
  <2> QED
    BY <1>3, <2>1, <2>2 DEF DisksListed, Validate, ValidServer, RequestsComplete
<1>4. CASE \/ Skip \/ CreateAnswered \/ SaveOpen \/ SaveEncode \/ Finish
           \/ (\E s \in Settings : BeginRefused(s)) \/ LoadSettingsFails
           \/ \E a \in inflight : ApiCreate(a)
           \/ UNCHANGED vars
  BY <1>4
     DEF Skip, CreateAnswered, SaveOpen, SaveEncode, Finish, BeginRefused, LoadSettingsFails,
         ApiCreate, vars, runVars, RequestsComplete
<1>5. CASE Replan
  BY <1>5 DEF Replan, RequestsComplete
<1>6. CASE Fails
  <2>1. request' = request
    BY <1>6 DEF Fails, CreateFails, ListingFails, SaveFails, Crash, BreakOff, runVars
  <2> QED
    BY <1>6, <2>1, FailsBreaksOff DEF RequestsComplete
<1> QED
  BY <1>1, <1>2, <1>3, <1>4, <1>5, <1>6 DEF Next, Tool, Fails
-----------------------------------------------------------------------------
(* The strengthened invariant holds of the initial states. *)
LEMMA InitInv == Init => IInv
<1> SUFFICES ASSUME Init PROVE IInv
  OBVIOUS
<1>1. /\ pc = "idle" /\ file = FreshPlan /\ mem = FreshPlan /\ exit = "none"
      /\ attempt = 0 /\ request = NoRequest
  BY DEF Init, attempt
<1>2. \A v \in VS : FreshPlan[v].id = 0
  BY DEF FreshPlan
<1>3. Matches(FreshPlan)
  BY <1>2 DEF Matches, ServersMatch, DestinationsMatch
<1>4. AccountInv
  BY <1>1 DEF AccountInv, Accounted
<1> QED
  BY <1>1, <1>3, <1>4
     DEF IInv, WorkInv, Working, AgreeInv, PassedInv, MatchInv, ValidInv,
         RequestsComplete

(* IInv is inductive relative to the types. *)
THEOREM InductiveInvariant == Spec => []IInv
<1>1. TypeOK /\ TypeOK' /\ IInv /\ [Next]_vars => IInv'
  BY WorkStep, AgreeStep, AccountStep, PassedStep, MatchStep, ValidStep DEF IInv
<1> QED
  BY <1>1, InitInv, TypeInvariant, PTL DEF Spec

(* The server that the plan file names for a virtual server exists and was *)
(* created for that virtual server, however runs broke off.                *)
THEOREM RecordedServers == Spec => []RecordedServersMatch
<1>1. IInv => RecordedServersMatch
  BY DEF IInv, MatchInv, Matches, RecordedServersMatch
<1> QED
  BY <1>1, InductiveInvariant, PTL

(* The destinations in the plan file are those of the server it names.     *)
THEOREM RecordedDestinations == Spec => []RecordedDestinationsMatch
<1>1. IInv => RecordedDestinationsMatch
  BY DEF IInv, MatchInv, Matches, DestinationsMatch, RecordedDestinationsMatch
<1> QED
  BY <1>1, InductiveInvariant, PTL

(* Unless the plan file itself is lost, a run that breaks off loses track  *)
(* of one server at most: the one it was working on.                       *)
THEOREM OneOrphan == Spec => []OneOrphanPerInterruptedRun
<1>1. TypeOK /\ IInv => OneOrphanPerInterruptedRun
  BY DEF IInv, AccountInv, Accounted, OneOrphanPerInterruptedRun, TypeOK
<1> QED
  BY <1>1, TypeInvariant, InductiveInvariant, PTL

(* A run that reports success leaves a plan that disks can be imported by. *)
THEOREM OkIsReady == Spec => []ReadyForImport
<1>1. IInv => ReadyForImport
  BY DEF IInv, PassedInv, MatchInv, Matches, DestinationsMatch, ReadyForImport
<1> QED
  BY <1>1, InductiveInvariant, PTL

(* A plan that Validate let pass makes complete requests only.             *)
THEOREM CompleteRequests == Spec => []RequestsComplete
<1>1. IInv => RequestsComplete
  BY DEF IInv, ValidInv
<1> QED
  BY <1>1, InductiveInvariant, PTL

(* Without -recreate-virtual-servers, no request is sent for a virtual     *)
(* server that the plan file names a server for.                           *)
THEOREM NoDuplicates == Spec => NoSecondServer
<1>1. TypeOK /\ IInv /\ [Next]_vars =>
        [origin' # origin /\ ~recreate => file # Truncated /\ file[cur].id = 0]_vars
  <2> SUFFICES ASSUME TypeOK, IInv, [Next]_vars, origin' # origin, ~recreate
               PROVE  file # Truncated /\ file[cur].id = 0
    OBVIOUS
  <2>1. SendCreate
    BY FailsBreaksOff
       DEF Next, Tool, Fails, Begin, BeginRefused, LoadSettingsFails, Skip, CreateAnswered, DisksListed,
           SaveOpen, SaveEncode, Finish, Replan, ApiCreate, vars, apiVars
  <2> QED
    BY <2>1 DEF SendCreate, IInv, AgreeInv, TypeOK, VS
<1> QED
  BY <1>1, TypeInvariant, InductiveInvariant, PTL DEF Spec, NoSecondServer
-----------------------------------------------------------------------------
(* The record that ServerRegistry sees. *)
Rec == [v \in VS |-> Named[v].id]

NotEncoding == pc \notin {"encode", "planEncode"}

(* A fresh plan names no server. *)
LEMMA FreshRecord == [v \in VS |-> FreshPlan[v].id] = [v \in VS |-> 0]
BY DEF FreshPlan

(* A step that leaves the plan file and the API alone, and does not break  *)
(* off a save, is no step of the registry.                                 *)
LEMMA RecordStays ==
  ASSUME NotEncoding, NotEncoding', UNCHANGED file
  PROVE  Rec' = Rec
BY DEF Rec, Named, NotEncoding, FreshPlan

(* Every step of a run is a step of the registry, or leaves it alone. *)
LEMMA RegistryStep ==
  ASSUME TypeOK, TypeOK', IInv, IInv', [Next]_vars
  PROVE  [Registry!Next]_(Registry!vars)
<1> SUFFICES \/ UNCHANGED <<origin, servers, Rec>>
             \/ Registry!Next
  BY DEF Registry!vars, Rec
<1>1. CASE UNCHANGED <<origin, servers, Rec>>
  BY <1>1
<1>2. CASE SendCreate
  <2>1. Rec' = Rec
    BY <1>2, RecordStays DEF SendCreate, NotEncoding
  <2>2. cur \in VS /\ Registry!Ask(cur)
    BY <1>2, <2>1 DEF SendCreate, Registry!Ask, Rec, TypeOK, VS
  <2> QED
    BY <2>2 DEF Registry!Next
<1>3. CASE \E a \in inflight : ApiCreate(a)
  <2>1. PICK a \in inflight : ApiCreate(a)
    BY <1>3
  <2>2. Rec' = Rec
    <3>1. UNCHANGED <<file, mem, pc>>
      BY <2>1 DEF ApiCreate, runVars
    <3> QED
      BY <3>1 DEF Rec, Named, FreshPlan
  <2>3. a \in DOMAIN origin
    <3>1. origin \in Seq(VS) /\ inflight \subseteq 1..Len(origin)
      BY DEF TypeOK, attempt
    <3> QED
      BY <3>1
  <2>4. Registry!Make(a)
    BY <2>1, <2>2, <2>3 DEF ApiCreate, Registry!Make, Rec
  <2> QED
    BY <2>3, <2>4 DEF Registry!Next
<1>4. CASE SaveOpen /\ pc = "save"
  <2>1. /\ cur \in VS /\ attempt \in servers /\ origin[attempt] = cur
        /\ mem[cur].id = attempt /\ file[cur].id < attempt
        /\ file # Truncated /\ \A v \in VS \ {cur} : file[v].id = mem[v].id
    BY <1>4 DEF IInv, WorkInv, Working, AgreeInv
  <2>2. Rec = [v \in VS |-> file[v].id]
    BY <1>4, <2>1 DEF Rec, Named
  <2>3. Rec' = [v \in VS |-> mem[v].id]
    BY <1>4 DEF SaveOpen, Rec, Named, runVars
  <2>4. Rec' = [Rec EXCEPT ![cur] = attempt]
    BY <2>1, <2>2, <2>3
  <2>5. attempt > Rec[cur]
    BY <2>1, <2>2 DEF TypeOK, Plan, Entry, attempt
  <2>6. UNCHANGED <<origin, servers>>
    BY <1>4 DEF SaveOpen, apiVars
  <2> QED
    BY <2>1, <2>4, <2>5, <2>6 DEF Registry!Next, Registry!Record, Rec
<1>5. CASE SaveOpen /\ pc = "planSave"
  <2>1. Rec' = [v \in VS |-> 0]
    BY <1>5 DEF SaveOpen, Rec, Named, runVars, IInv, AgreeInv
  <2> QED
    BY <1>5, <2>1 DEF SaveOpen, apiVars, Registry!Next, Registry!Lose, Rec
<1>6. CASE SaveEncode
  <2>1. Rec' = Rec
    BY <1>6, ConstantsAssumption DEF SaveEncode, Rec, Named, TypeOK
  <2> QED
    BY <1>6, <2>1 DEF SaveEncode, apiVars
<1>7. CASE Fails
  <2>1. UNCHANGED <<origin, servers, file>> /\ pc' = "idle"
    BY <1>7, FailsBreaksOff
  <2>2. CASE NotEncoding
    BY <2>1, <2>2, RecordStays DEF NotEncoding
  <2>3. CASE ~NotEncoding
    <3>1. Rec' = [v \in VS |-> 0]
      BY <2>1, <2>3, FreshRecord
         DEF NotEncoding, IInv, AgreeInv, Rec, Named, FreshPlan
    <3> QED
      BY <2>1, <3>1 DEF Registry!Next, Registry!Lose, Rec
  <2> QED
    BY <2>2, <2>3
<1>8. CASE \/ \E s \in Settings, flag \in BOOLEAN : Begin(s, flag)
           \/ (\E s \in Settings : BeginRefused(s)) \/ LoadSettingsFails
           \/ Skip \/ CreateAnswered \/ DisksListed \/ Finish \/ Replan
  BY <1>8, RecordStays
     DEF Begin, BeginRefused, LoadSettingsFails, Skip, CreateAnswered, DisksListed, Finish, Replan,
         apiVars, NotEncoding
<1>9. CASE UNCHANGED vars
  BY <1>9 DEF vars, runVars, apiVars, Rec, Named, FreshPlan
<1> QED
  BY <1>2, <1>3, <1>4, <1>5, <1>6, <1>7, <1>8, <1>9
     DEF Next, Tool, Fails, SaveOpen

(* Seen through the plan file, creating servers is a ServerRegistry.       *)
THEOREM ImplementsRegistry == Spec => RegistrySpec
<1>1. Init => Registry!Init
  BY FreshRecord, ConstantsAssumption, FreshPlanType DEF Init, Registry!Init, Named
<1>2. TypeOK /\ TypeOK' /\ IInv /\ IInv' /\ [Next]_vars
        => [Registry!Next]_(Registry!vars)
  BY RegistryStep
<1> QED
  BY <1>1, <1>2, TypeInvariant, InductiveInvariant, PTL
     DEF Spec, RegistrySpec, Registry!Spec
=============================================================================

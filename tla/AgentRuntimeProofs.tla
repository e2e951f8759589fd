-------------------------- MODULE AgentRuntimeProofs --------------------------
(***************************************************************************)
(* Proofs about AgentRuntime, for any capsules, builds, passwords and      *)
(* requests: its types, its invariants and action properties, and that it  *)
(* implements InstanceContract.                                            *)
(***************************************************************************)
EXTENDS AgentRuntime, SequenceTheorems, TLAPS

USE AgentAssumption, NoneAssumption

Calls == [at : Places, op : {"none", "configure", "start", "stop"},
          capsule : Capsules \cup {None}, net : Settings \cup {None},
          plan : BOOLEAN, ensure : BOOLEAN, gate : BOOLEAN,
          attempt : 1..5, bundle : Contents, todo : Seq(Files), result : Handled \cup {"none"}]

Configuring == {"configure", "ensure", "delegate", "mirror", "mirrored", "fallback", "minimal",
                "render", "traefik"}
Ensuring == {"ensure", "delegate", "mirror", "mirrored", "fallback", "minimal"}
Bundled == {"delegate", "mirror", "mirrored", "minimal"}
Starting == {"start", "load", "down", "up"}

\* What a call knows at each place, and which calls get there.
CallInv ==
    /\ call \in Calls
    /\ call.at \in Configuring => call.op = "configure" /\ call.net \in Settings
    /\ call.at \in Starting => call.op = "start"
    /\ call.at = "stop" => call.op = "stop"
    /\ call.at = "outcome" <=> call.result # "none"
    /\ call.at \in Configuring \ {"configure"} => call.capsule \in Capsules
    /\ call.at \in Ensuring => call.ensure
    /\ call.at \in Bundled => call.bundle.pw \in Passwords
    /\ call.at \notin Bundled => call.bundle = Blank

Typed == TypeOK /\ CallInv

-----------------------------------------------------------------------------
(* The files, and the two orders in which they are written.                *)

LEMMA FilesAre == Files = {"kx", "django", "postgres", "runtime"}
<1>1. 1..4 = {1, 2, 3, 4}
    OBVIOUS
<1> QED
    BY <1>1 DEF Files, DelegateOrder

\* Both orders have each file once.
LEMMA Orders ==
    /\ DelegateOrder \in Seq(Files) /\ Len(DelegateOrder) = 4
    /\ FallbackOrder \in Seq(Files) /\ Len(FallbackOrder) = 4
    /\ DelegateOrder # <<>> /\ FallbackOrder # <<>>
    /\ \A f \in Files : /\ \E i \in 1..4 : DelegateOrder[i] = f
                        /\ \E i \in 1..4 : FallbackOrder[i] = f
BY FilesAre DEF DelegateOrder, FallbackOrder

\* What is left to write of an order.
Rest(order) == {SubSeq(order, n + 1, 4) : n \in 0..4}

LEMMA RestStep ==
    ASSUME NEW order \in Seq(Files), Len(order) = 4, NEW s \in Rest(order), s # <<>>
    PROVE  Head(s) \in Files /\ Tail(s) \in Rest(order)
<1>1. PICK n \in 0..4 : s = SubSeq(order, n + 1, 4)
    BY DEF Rest
<1>2. n # 4
    BY <1>1, SubSeqEmpty
<1>3. Head(s) = order[n + 1] /\ Tail(s) = SubSeq(order, n + 2, 4)
  <2> DEFINE m == n + 1
  <2>1. m \in 1..Len(order) /\ 4 \in m..Len(order) /\ m + 1 = n + 2
    BY <1>2
  <2> HIDE DEF m
  <2>2. Head(SubSeq(order, m, 4)) = order[m] /\ Tail(SubSeq(order, m, 4)) = SubSeq(order, m + 1, 4)
    BY <2>1, HeadTailOfSubSeq
  <2> QED
    BY <1>1, <2>1, <2>2 DEF m
<1>4. order[n + 1] \in Files
    BY <1>2, ElementOfSeq
<1>5. n + 1 \in 0..4 /\ (n + 1) + 1 = n + 2
    BY <1>2
<1> QED
    BY <1>3, <1>4, <1>5 DEF Rest

LEMMA RestIs ==
    /\ DelegateOrder \in Rest(DelegateOrder) /\ FallbackOrder \in Rest(FallbackOrder)
    /\ <<>> \in Rest(DelegateOrder)
    /\ Rest(DelegateOrder) \cup Rest(FallbackOrder) \subseteq Seq(Files)
<1>1. ASSUME NEW order \in Seq(Files), Len(order) = 4
      PROVE  order \in Rest(order) /\ <<>> \in Rest(order) /\ Rest(order) \subseteq Seq(Files)
  <2>1. SubSeq(order, 0 + 1, 4) = order /\ 0 \in 0..4
    BY <1>1, SubSeqFull
  <2>2. SubSeq(order, 4 + 1, 4) = <<>> /\ 4 \in 0..4
    BY SubSeqEmpty
  <2>3. ASSUME NEW n \in 0..4 PROVE SubSeq(order, n + 1, 4) \in Seq(Files)
    <3>1. \A i \in n + 1..4 : order[i] \in Files
      BY <1>1, ElementOfSeq
    <3> QED
      BY <3>1, SubSeqProperties
  <2> QED
    BY <2>1, <2>2, <2>3 DEF Rest
<1> QED
    BY <1>1, Orders

\* The type of the list of files to write.
LEMMA TodoIs ==
    ASSUME NEW s
    PROVE  (\E n \in 0..4 : s \in {SubSeq(DelegateOrder, n + 1, 4), SubSeq(FallbackOrder, n + 1, 4)})
               <=> s \in Rest(DelegateOrder) \cup Rest(FallbackOrder)
BY DEF Rest

-----------------------------------------------------------------------------
(* Moves of a call.                                                        *)

\* What a call keeps of itself while it is served.
SameCall ==
    /\ call' \in Calls
    /\ call'.op = call.op /\ call'.capsule = call.capsule /\ call'.net = call.net
    /\ call'.plan = call.plan /\ call'.ensure = call.ensure /\ call'.gate = call.gate
    /\ call'.todo \in {call.todo, <<>>}

LEMMA GoIs ==
    ASSUME call \in Calls, NEW p \in Places, Go(p)
    PROVE  SameCall /\ call'.at = p /\ call'.bundle = call.bundle /\ call'.result = call.result
BY DEF Go, Calls, SameCall

LEMMA BlankTyped == Blank \in Contents
BY DEF Blank, Contents

LEMMA LeaveIs ==
    ASSUME call \in Calls, NEW p \in Places, Leave(p)
    PROVE  SameCall /\ call'.at = p /\ call'.bundle = Blank /\ call'.result = call.result
<1>1. <<>> \in Seq(Files) /\ 1 \in 1..5
    OBVIOUS
<1> QED
    BY <1>1, BlankTyped DEF Leave, Calls, SameCall

LEMMA FinishIs ==
    ASSUME call \in Calls, NEW r \in Handled, Finish(r)
    PROVE  SameCall /\ call'.at = "outcome" /\ call'.bundle = Blank /\ call'.result = r
<1>1. "outcome" \in Places /\ <<>> \in Seq(Files) /\ 1 \in 1..5
    BY DEF Places
<1> QED
    BY <1>1, BlankTyped DEF Finish, Calls, SameCall

LEMMA IdleIs ==
    /\ Idle \in Calls /\ Idle.at = "idle" /\ Idle.op = "none" /\ Idle.capsule = None
    /\ Idle.net = None /\ Idle.gate = FALSE /\ Idle.result = "none" /\ Idle.bundle = Blank
    /\ Idle.todo = <<>> /\ Idle.plan = FALSE /\ Idle.ensure = FALSE
<1>1. <<>> \in Seq(Files) /\ 1 \in 1..5
    OBVIOUS
<1>2. "idle" \in Places
    BY DEF Places
<1> QED
    BY <1>1, <1>2, BlankTyped DEF Idle, Calls

-----------------------------------------------------------------------------
(* Requests.                                                               *)

\* The requests for one of the actions.
Requesting ==
    \/ \E net \in Requests, c \in Capsules, ensure \in BOOLEAN : RequestCreate(net, c, ensure)
    \/ \E c \in Capsules : RequestUpdate(c)
    \/ \E net \in Requests, c \in Capsules \cup {None} : RequestProfile(net, c)
    \/ RequestPrivate
    \/ \E c \in Capsules \cup {None}, gate \in BOOLEAN : RequestStart(c, gate)
    \/ RequestStop

Refusing == RefuseUnrecorded \/ RefuseStranger

\* The settings that calls ask for, their defaults included.
Askable == Requests \cup {CreateDefault, PrivateFallback("loopback")}

LEMMA AskableTyped == Askable \subseteq Settings
<1>1. CreateDefault \in Settings
    BY DEF CreateDefault, Settings, Profiles, Modes, Expiries, Hosts
<1>2. PrivateFallback("loopback") \in Settings
    BY DEF PrivateFallback, Settings, Profiles, Modes, Expiries, Hosts
<1> QED
    BY <1>1, <1>2 DEF Askable

\* A call that has just been admitted.
Admitted(r) ==
    /\ r \in Calls /\ r.at \in {"configure", "start", "stop"} /\ r.op = r.at
    /\ r.op = "configure" => r.net \in Askable
    /\ r.op # "configure" => r.net = None
    /\ r.op # "start" => r.gate = FALSE
    /\ r.op = "stop" => r.capsule = None
    /\ r.bundle = Blank /\ r.todo = <<>> /\ r.result = "none"

\* A call but for its place.
Wellformed(r) ==
    /\ r \in Calls /\ r.op \in {"configure", "start", "stop"}
    /\ r.op = "configure" => r.net \in Askable
    /\ r.op # "configure" => r.net = None
    /\ r.op # "start" => r.gate = FALSE
    /\ r.op = "stop" => r.capsule = None
    /\ r.bundle = Blank /\ r.todo = <<>> /\ r.result = "none"

LEMMA ReceiveIs ==
    ASSUME NEW r, Wellformed(r), Receive(r)
    PROVE  /\ call.at = "idle" /\ UNCHANGED <<files, host, shelf>>
           /\ Admitted(call') /\ answer' = "none"
           /\ audit' = IF RequireAudit THEN "started" ELSE "none"
<1>1. {"configure", "start", "stop"} \subseteq Places
    BY DEF Places
<1>2. Admitted([r EXCEPT !.at = r.op])
    BY <1>1 DEF Wellformed, Admitted, Calls
<1> QED
    BY <1>2 DEF Receive, Admit

LEMMA ConfigureIs ==
    ASSUME NEW net \in Askable, NEW c \in Capsules \cup {None}, NEW plan \in BOOLEAN,
           NEW ensure \in BOOLEAN
    PROVE  Wellformed([Idle EXCEPT !.op = "configure", !.net = net, !.capsule = c,
                                   !.plan = plan, !.ensure = ensure])
BY IdleIs, AskableTyped DEF Wellformed, Calls

\* What any request does.
LEMMA RequestIs ==
    ASSUME Requesting
    PROVE  /\ call.at = "idle" /\ UNCHANGED <<files, host, shelf>>
           /\ Admitted(call') /\ answer' = "none"
           /\ audit' = IF RequireAudit THEN "started" ELSE "none"
<1>1. SUFFICES \E r : Wellformed(r) /\ Receive(r)
    BY ReceiveIs
<1>2. ASSUME NEW net \in Askable, NEW c \in Capsules \cup {None}, NEW plan \in BOOLEAN,
             NEW ensure \in BOOLEAN, RequestConfigure(net, c, plan, ensure)
      PROVE  \E r : Wellformed(r) /\ Receive(r)
    BY <1>2, ConfigureIs DEF RequestConfigure
<1>3. ASSUME NEW net \in Requests, NEW c \in Capsules, NEW ensure \in BOOLEAN, RequestCreate(net, c, ensure)
      PROVE  \E r : Wellformed(r) /\ Receive(r)
  <2>1. RequestConfigure(net, c, FALSE, ensure)
    BY <1>3 DEF RequestCreate
  <2>2. net \in Askable
    BY <1>3 DEF Askable
  <2> QED
    BY <1>2, <1>3, <2>1, <2>2
<1>4. ASSUME NEW c \in Capsules, RequestUpdate(c)
      PROVE  \E r : Wellformed(r) /\ Receive(r)
  <2>1. CreateDefault \in Askable
    BY DEF Askable
  <2> QED
    BY <1>2, <1>4, <2>1 DEF RequestUpdate
<1>5. ASSUME NEW net \in Requests, NEW c \in Capsules \cup {None}, RequestProfile(net, c)
      PROVE  \E r : Wellformed(r) /\ Receive(r)
  <2>1. RequestConfigure(net, c, TRUE, TRUE)
    BY <1>5 DEF RequestProfile
  <2>2. net \in Askable
    BY <1>5 DEF Askable
  <2> QED
    BY <1>2, <1>5, <2>1, <2>2
<1>6. ASSUME RequestPrivate
      PROVE  \E r : Wellformed(r) /\ Receive(r)
  <2>1. PrivateFallback("loopback") \in Askable
    BY DEF Askable
  <2> QED
    BY <1>2, <1>6, <2>1 DEF RequestPrivate
<1>7. ASSUME NEW c \in Capsules \cup {None}, NEW gate \in BOOLEAN, RequestStart(c, gate)
      PROVE  \E r : Wellformed(r) /\ Receive(r)
  <2>1. Wellformed([Idle EXCEPT !.op = "start", !.capsule = c, !.gate = gate])
    BY IdleIs DEF Wellformed, Calls
  <2> QED
    BY <1>7, <2>1 DEF RequestStart
<1>8. ASSUME RequestStop
      PROVE  \E r : Wellformed(r) /\ Receive(r)
  <2>1. Wellformed([Idle EXCEPT !.op = "stop"])
    BY IdleIs DEF Wellformed, Calls
  <2> QED
    BY <1>8, <2>1 DEF RequestStop
<1> QED
    BY <1>3, <1>4, <1>5, <1>6, <1>7, <1>8 DEF Requesting

-----------------------------------------------------------------------------
(* Types.                                                                  *)

LEMMA CallOKIs ==
    ASSUME call' \in Calls, call'.todo \in Rest(DelegateOrder) \cup Rest(FallbackOrder)
    PROVE  CallOK'
<1>1. \E n \in 0..4 : call'.todo \in {SubSeq(DelegateOrder, n + 1, 4), SubSeq(FallbackOrder, n + 1, 4)}
    BY TodoIs
<1> QED
    BY <1>1 DEF CallOK, Calls

\* TypeOK but for the call.
RestOK ==
    /\ env \in [Files -> Contents \cup {None}]
    /\ mirror \in [Files -> Passwords \cup {None}] /\ db \in Passwords \cup {None}
    /\ compose \in Rendered \cup {None} /\ traefik \in Hosts \cup {None}
    /\ containers \in Builds \cup {None} /\ shelf \in [Capsules -> Builds \cup {None}]
    /\ store \in Builds \cup {Unloaded}
    /\ audit \in {"none", "started", "blocked", "succeeded"}
    /\ answer \in Handled \cup {"none", "unauthorized", "unavailable", "error"}

TodoOK == call.todo \in Rest(DelegateOrder) \cup Rest(FallbackOrder)

LEMMA TypedIs ==
    /\ Typed => CallInv /\ RestOK /\ TodoOK
    /\ CallInv' /\ RestOK' /\ TodoOK' => Typed'
<1>1. Typed => TodoOK
    BY TodoIs DEF Typed, TypeOK, CallOK, TodoOK
<1>2. CallInv' /\ TodoOK' => CallOK'
    BY CallOKIs DEF CallInv, TodoOK
<1> QED
    BY <1>1, <1>2 DEF Typed, TypeOK, RestOK

LEMMA InitTyped == Init => Typed
<1> SUFFICES ASSUME Init PROVE Typed
    OBVIOUS
<1>1. CallInv
    BY IdleIs DEF Init, CallInv, Configuring, Ensuring, Bundled, Starting
<1>2. CallOK
  <2>1. \E n \in 0..4 : call.todo \in {SubSeq(DelegateOrder, n + 1, 4), SubSeq(FallbackOrder, n + 1, 4)}
    BY IdleIs, RestIs, TodoIs DEF Init
  <2> QED
    BY <1>1, <2>1 DEF CallOK, CallInv, Calls
<1>3. RestOK
    BY DEF Init, RestOK
<1> QED
    BY <1>1, <1>2, <1>3 DEF Typed, TypeOK, RestOK

\* A move of a call that keeps to its place's facts.
LEMMA IdleTyped ==
    ASSUME Typed, call' = Idle
    PROVE  CallInv' /\ TodoOK'
BY IdleIs, RestIs DEF CallInv, TodoOK, Configuring, Ensuring, Bundled, Starting

LEMMA OutcomeTyped ==
    ASSUME Typed, NEW r \in Handled, Finish(r)
    PROVE  CallInv' /\ TodoOK'
<1>1. CallInv /\ TodoOK
    BY TypedIs
<1>2. r # "none"
    BY DEF Handled
<1> QED
    BY <1>1, <1>2, FinishIs, RestIs DEF CallInv, TodoOK, SameCall, Configuring, Ensuring, Bundled, Starting

-----------------------------------------------------------------------------
(* What the environment says.                                              *)

LEMMA LastIs ==
    ASSUME NEW S \in SUBSET (1..4), S # {}
    PROVE  \E i \in S : \A j \in S : j <= i
<1>1. CASE 4 \in S
    BY <1>1
<1>2. CASE 4 \notin S /\ 3 \in S
    BY <1>2
<1>3. CASE 4 \notin S /\ 3 \notin S /\ 2 \in S
    BY <1>3
<1>4. CASE 4 \notin S /\ 3 \notin S /\ 2 \notin S
  <2>1. \A j \in S : j = 1
    BY <1>4
  <2>2. PICK k \in S : TRUE
    OBVIOUS
  <2>3. \A j \in S : j <= k
    BY <2>1
  <2> QED
    BY <2>3
<1> QED
    BY <1>1, <1>2, <1>3, <1>4

LEMMA ReadIs ==
    /\ \A i \in 1..4 : ReadOrder[i] \in Files
    /\ \A f \in Files : \E i \in 1..4 : ReadOrder[i] = f
BY FilesAre DEF ReadOrder

\* A merged field is missing if no file has it, else one file's.
LEMMA MergedIs ==
    ASSUME NEW field
    PROVE  \/ Merged(field) = None /\ \A f \in Files : env[f] # None => env[f][field] = None
           \/ Merged(field) # None /\ \E f \in Files : env[f] # None /\ Merged(field) = env[f][field]
<1>1. CASE Having(field) = {}
  <2>1. \A f \in Files : env[f] # None => env[f][field] = None
    BY <1>1, ReadIs DEF Having
  <2> QED
    BY <1>1, <2>1 DEF Merged
<1>2. CASE Having(field) # {}
  <2>1. Having(field) \in SUBSET (1..4)
    BY DEF Having
  <2> DEFINE i == CHOOSE i \in Having(field) : \A j \in Having(field) : j <= i
  <2>2. i \in Having(field)
    BY <1>2, <2>1, LastIs
  <2>3. Merged(field) = env[ReadOrder[i]][field]
    BY <1>2 DEF Merged
  <2> HIDE DEF i
  <2>4. ReadOrder[i] \in Files
    BY <2>1, <2>2, ReadIs
  <2> QED
    BY <2>2, <2>3, <2>4 DEF Having
<1> QED
    BY <1>1, <1>2

\* The password and the address that the files have.
LEMMA ReadBack ==
    ASSUME env \in [Files -> Contents \cup {None}]
    PROVE  Merged("pw") \in Passwords \cup {None} /\ Merged("url") \in Passwords \cup {Placeholder, None}
<1>1. Merged("pw") \in Passwords \cup {None}
    BY MergedIs DEF Contents
<1>2. Merged("url") \in Passwords \cup {Placeholder, None}
    BY MergedIs DEF Contents
<1> QED
    BY <1>1, <1>2

\* A password is kept, or a new one is in use nowhere.
LEMMA KeepIs ==
    ASSUME NEW p \in Passwords \cup {None}, NEW q \in Keep(p)
    PROVE  /\ q \in Passwords
           /\ p # None => q = p
           /\ p = None => q \notin InUse
BY DEF Keep, Fresh

LEMMA FileTyped ==
    ASSUME NEW f \in Files, NEW b \in Contents
    PROVE  Delegated(f, b) \in Contents /\ Minimal(f, b) \in Contents
<1>1. f \in {"kx", "django", "postgres", "runtime"}
    BY FilesAre
<1>2. Delegated(f, b) \in Contents
  <2>1. CASE f = "kx"
    BY <2>1 DEF Delegated, Contents, Blank
  <2>2. CASE f = "django"
    BY <2>2 DEF Delegated, Contents, Blank
  <2>3. CASE f = "postgres"
    BY <2>3 DEF Delegated, Contents, Blank
  <2>4. CASE f = "runtime"
    BY <2>4 DEF Delegated
  <2> QED
    BY <1>1, <2>1, <2>2, <2>3, <2>4
<1>3. Minimal(f, b) \in Contents
  <2>1. CASE f = "kx"
    BY <2>1 DEF Minimal, Contents, Blank
  <2>2. CASE f = "django"
    BY <2>2 DEF Minimal, Contents, Blank
  <2>3. CASE f = "postgres"
    BY <2>3 DEF Minimal, Contents, Blank
  <2>4. CASE f = "runtime"
    BY <2>4 DEF Minimal
  <2> QED
    BY <1>1, <2>1, <2>2, <2>3, <2>4
<1> QED
    BY <1>2, <1>3

-----------------------------------------------------------------------------
(* Every step keeps the types.                                             *)

LEMMA SettingsAre ==
    /\ \A s \in Settings : Plan(s) \in Settings /\ Normal(s) \in Settings
    /\ \A s \in Settings : Plan(s).host = s.host /\ Normal(s).host = s.host /\ s.host \in Hosts
    /\ DefaultNet \in Settings
<1>1. \A s \in Settings : Plan(s) \in Settings /\ Plan(s).host = s.host /\ s.host \in Hosts
    BY DEF Plan, Settings, Modes
<1>2. \A s \in Settings : Normal(s) \in Settings /\ Normal(s).host = s.host
  <2>1. \A s \in Settings : (s.public \/ AsksForPublic(s.profile, s.mode)) \in BOOLEAN
    BY DEF AsksForPublic, Settings
  <2> QED
    BY <2>1 DEF Normal, Settings
<1>3. DefaultNet \in Settings
    BY DEF DefaultNet, Settings, Profiles, Modes, Expiries, Hosts
<1> QED
    BY <1>1, <1>2, <1>3

\* A capsule is resolved to one that can be named, or to none.
LEMMA ResolveIs ==
    ASSUME RestOK, NEW c \in Capsules \cup {None}
    PROVE  Resolve(c) \in Capsules \cup {None}
BY FilesAre DEF Resolve, RestOK, Rendered, Contents

\* What happens to the rest of the state in the steps of a call.
LEMMA FilesTyped ==
    ASSUME Typed, UNCHANGED <<host, shelf, audit, answer>>, 
           env' \in [Files -> Contents \cup {None}], mirror' \in [Files -> Passwords \cup {None}],
           compose' \in Rendered \cup {None}, traefik' \in Hosts \cup {None}
    PROVE  RestOK'
BY TypedIs DEF RestOK, host

LEMMA HostTyped ==
    ASSUME Typed, UNCHANGED <<files, shelf, audit, answer>>,
           containers' \in Builds \cup {None}, db' \in Passwords \cup {None},
           store' \in Builds \cup {Unloaded}
    PROVE  RestOK'
BY TypedIs DEF RestOK, files

LEMMA StillTyped ==
    ASSUME Typed, UNCHANGED <<files, host, shelf, audit, answer>>
    PROVE  RestOK'
BY TypedIs DEF RestOK, files, host

LEMMA BoundaryTyped ==
    ASSUME Typed, Requesting \/ Refusing \/ RecordOutcome \/ KillAgent
    PROVE  Typed'
<1> USE TypedIs
<1>1. CASE Requesting
  <2>1. UNCHANGED <<files, host, shelf>>
    BY <1>1, RequestIs
  <2>2. RestOK'
    BY <1>1, <2>1, RequestIs DEF RestOK, files, host
  <2>3. Admitted(call')
    BY <1>1, RequestIs
  <2> QED
    BY <2>2, <2>3, RestIs, AskableTyped
    DEF Admitted, CallInv, TodoOK, Configuring, Ensuring, Bundled, Starting
<1>2. CASE Refusing
    BY <1>2 DEF Refusing, RefuseUnrecorded, RefuseStranger, RestOK, CallInv, TodoOK, files, host
<1>3. CASE RecordOutcome
  <2>1. call.result \in Handled \cup {"none"}
    BY DEF CallInv, Calls
  <2>2. RestOK'
    BY <1>3, <2>1 DEF RecordOutcome, RestOK, files, host
  <2> QED
    BY <1>3, <2>2, IdleTyped DEF RecordOutcome
<1>4. CASE KillAgent
    BY <1>4, IdleTyped, StillTyped DEF KillAgent
<1> QED
    BY <1>1, <1>2, <1>3, <1>4

LEMMA ConfigureTyped ==
    ASSUME Typed, Configure
    PROVE  Typed'
<1> USE TypedIs
<1>1. RestOK'
    BY StillTyped DEF Configure
<1>2. CASE Finish("failed")
    BY <1>1, <1>2, OutcomeTyped DEF Handled
<1>3. CASE ~Finish("failed")
  <2> DEFINE place == IF call.ensure THEN "ensure" ELSE "render"
  <2>1. /\ call' = [call EXCEPT !.at = place, !.net = Normal(Wanted), !.capsule = Resolve(call.capsule)]
        /\ Resolve(call.capsule) # None
    BY <1>3 DEF Configure
  <2>2. call \in Calls /\ call.op = "configure" /\ call.net \in Settings /\ call.at = "configure"
    BY DEF Configure, CallInv, Configuring
  <2>3. Normal(Wanted) \in Settings
    BY <2>2, SettingsAre DEF Wanted
  <2>4. Resolve(call.capsule) \in Capsules
    BY <2>1, <2>2, ResolveIs DEF Calls
  <2>5. place \in {"ensure", "render"} /\ (place = "ensure" => call.ensure) /\ place \in Places
    BY DEF Places
  <2> HIDE DEF place
  <2>6. /\ call' \in Calls /\ call'.at = place /\ call'.net \in Settings /\ call'.capsule \in Capsules
        /\ call'.op = call.op /\ call'.ensure = call.ensure /\ call'.bundle = call.bundle
        /\ call'.result = call.result /\ call'.todo = call.todo
    BY <2>1, <2>2, <2>3, <2>4, <2>5 DEF Calls
  <2> QED
    BY <1>1, <2>2, <2>5, <2>6 DEF CallInv, TodoOK, Configuring, Ensuring, Bundled, Starting
<1> QED
    BY <1>2, <1>3

\* The settings that the ways of calling the writer ask for.
LEMMA AskedIs ==
    ASSUME call.net \in Settings, NEW n \in 1..4
    PROVE  Asked(n) \in Settings
<1>1. CASE n \in {1, 3}
    BY <1>1 DEF Asked
<1>2. CASE n = 2
  <2> DEFINE asks == AsksForPublic(call.net.profile, call.net.mode)
  <2>1. asks \in BOOLEAN /\ "none" \in Expiries
    BY DEF AsksForPublic, Expiries
  <2>2. Asked(n) = [call.net EXCEPT !.public = asks, !.expires = "none"]
    BY <1>2 DEF Asked
  <2> HIDE DEF asks
  <2> QED
    BY <2>1, <2>2 DEF Settings
<1>3. CASE n = 4
    BY <1>3, SettingsAre DEF Asked
<1> QED
    BY <1>1, <1>2, <1>3

\* The bundle from which files are written holds a password.
LEMMA BundleTyped ==
    ASSUME Typed, call.net \in Settings, call.capsule \in Capsules, NEW n \in 1..4, NEW p \in Passwords
    PROVE  Bundle(n, p) \in Contents /\ Bundle(n, p).pw = p /\ Bundle(n, p).url = p
BY AskedIs DEF Bundle, Contents

\* What is preserved is the password of a copy or of a file, if there is one.
LEMMA PreservedIs ==
    ASSUME RestOK
    PROVE  /\ Preserved \in Passwords \cup {None}
           /\ \/ Preserved = None /\ \A f \in Files : Known(f) = None
              \/ Preserved # None /\ \E f \in Files : Preserved = Known(f)
<1>1. \A f \in Files : Known(f) \in Passwords \cup {None}
    BY DEF Known, RestOK, Contents
<1>2. CASE Knowing = {}
    BY <1>1, <1>2, ReadIs DEF Preserved, Knowing
<1>3. CASE Knowing # {}
  <2>1. Knowing \in SUBSET (1..4)
    BY DEF Knowing
  <2> DEFINE i == CHOOSE i \in Knowing : \A j \in Knowing : j <= i
  <2>2. i \in Knowing
    BY <1>3, <2>1, LastIs
  <2>3. Preserved = Known(ReadOrder[i])
    BY <1>3 DEF Preserved
  <2> HIDE DEF i
  <2>4. ReadOrder[i] \in Files /\ Known(ReadOrder[i]) # None
    BY <2>1, <2>2, ReadIs DEF Knowing
  <2> QED
    BY <1>1, <2>3, <2>4
<1> QED
    BY <1>2, <1>3

LEMMA DelegateTyped ==
    ASSUME Typed, DelegateEnv
    PROVE  Typed'
<1> USE TypedIs
<1>1. RestOK'
    BY StillTyped DEF DelegateEnv, Delegate
<1>2. /\ call.at \in Ensuring /\ call \in Calls /\ call.op = "configure" /\ call.net \in Settings
      /\ call.capsule \in Capsules /\ call.ensure /\ call.result = "none" /\ call.attempt \in 1..5
    BY DEF DelegateEnv, Delegate, Delegating, CallInv, Calls, Configuring, Ensuring
<1>3. ASSUME Leave("fallback")
      PROVE  Typed'
  <2>1. "fallback" \in Places
    BY DEF Places
  <2> QED
    BY <1>1, <1>2, <1>3, <2>1, LeaveIs, RestIs
    DEF SameCall, CallInv, TodoOK, Configuring, Ensuring, Bundled, Starting
<1>4. ASSUME NEW n \in call.attempt..4, NEW p \in Keep(Preserved),
             call' = [call EXCEPT !.at = "delegate", !.attempt = n + 1, !.todo = DelegateOrder,
                                  !.bundle = Bundle(n, p)]
      PROVE  Typed'
  <2>0. n \in 1..4 /\ n + 1 \in 1..5
    BY <1>2
  <2>1. p \in Passwords /\ Bundle(n, p) \in Contents /\ Bundle(n, p).pw = p
    BY <1>2, <2>0, PreservedIs, KeepIs, BundleTyped
  <2>2. "delegate" \in Places
    BY DEF Places
  <2>3. /\ call' \in Calls /\ call'.at = "delegate" /\ call'.todo = DelegateOrder
        /\ call'.bundle = Bundle(n, p) /\ call'.op = call.op /\ call'.net = call.net
        /\ call'.capsule = call.capsule /\ call'.ensure = call.ensure /\ call'.result = call.result
    BY <1>2, <1>4, <2>0, <2>1, <2>2, RestIs DEF Calls
  <2> QED
    BY <1>1, <1>2, <2>1, <2>3, RestIs DEF CallInv, TodoOK, Configuring, Ensuring, Bundled, Starting
<1> QED
    BY <1>3, <1>4 DEF DelegateEnv, Delegate

\* A file is written with what the bundle gives it, and is no longer due.
LEMMA WriteIs ==
    ASSUME Typed, NEW contents \in [Files -> Contents], NEW place \in {"delegate", "minimal"},
           Write(place, contents)
    PROVE  /\ call.at = place /\ call.todo # <<>> /\ Head(call.todo) \in Files
           /\ call' \in Calls /\ call' = [call EXCEPT !.todo = Tail(call.todo)] /\ TodoOK'
           /\ env' = [env EXCEPT ![Head(call.todo)] = contents[Head(call.todo)]]
           /\ env' \in [Files -> Contents \cup {None}]
           /\ UNCHANGED <<mirror, compose, traefik, host, shelf, audit, answer>>
<1>1. Head(call.todo) \in Files /\ Tail(call.todo) \in Rest(DelegateOrder) \cup Rest(FallbackOrder)
    BY TypedIs, RestStep, Orders DEF Write, TodoOK
<1>2. call \in Calls
    BY TypedIs DEF CallInv
<1>3. Tail(call.todo) \in Seq(Files)
    BY <1>1, RestIs
<1>4. call' \in Calls /\ call'.todo = Tail(call.todo)
    BY <1>2, <1>3 DEF Write, Calls
<1> QED
    BY <1>1, <1>4, TypedIs DEF Write, TodoOK, RestOK

LEMMA WriteTyped ==
    ASSUME Typed, NEW contents \in [Files -> Contents], NEW place \in {"delegate", "minimal"},
           Write(place, contents)
    PROVE  Typed'
<1>1. RestOK'
    BY WriteIs, FilesTyped, TypedIs DEF RestOK
<1>2. call \in Calls
    BY TypedIs DEF CallInv
<1>3. /\ call'.at = call.at /\ call'.op = call.op /\ call'.net = call.net
      /\ call'.capsule = call.capsule /\ call'.ensure = call.ensure /\ call'.result = call.result
      /\ call'.bundle = call.bundle
    BY <1>2, WriteIs DEF Calls
<1>4. CallInv'
    BY <1>3, WriteIs, TypedIs DEF CallInv, Configuring, Ensuring, Bundled, Starting
<1> QED
    BY <1>1, <1>4, WriteIs, TypedIs

\* What the two writers write.
LEMMA ContentsAre ==
    ASSUME Typed
    PROVE  /\ [f \in Files |-> Delegated(f, call.bundle)] \in [Files -> Contents]
           /\ [f \in Files |-> Minimal(f, call.bundle)] \in [Files -> Contents]
<1>1. call.bundle \in Contents
    BY TypedIs DEF CallInv, Calls
<1> QED
    BY <1>1, FileTyped

\* A call that leaves a writer for another place.
LEMMA LeaveTyped ==
    ASSUME Typed, call.at \in {"mirrored", "minimal"}, NEW p \in {"render", "fallback"}, Leave(p)
    PROVE  CallInv' /\ TodoOK'
<1>1. p \in Places
    BY DEF Places
<1> QED
    BY <1>1, LeaveIs, RestIs, TypedIs
    DEF SameCall, CallInv, TodoOK, Configuring, Ensuring, Bundled, Starting

\* A call that goes on to the next copy.
LEMMA CopyTyped ==
    ASSUME Typed, call.at \in {"delegate", "mirror"}, NEW p \in {"mirror", "mirrored"}, Go(p)
    PROVE  CallInv' /\ TodoOK'
<1>1. p \in Places
    BY DEF Places
<1> QED
    BY <1>1, GoIs, RestIs, TypedIs
    DEF SameCall, CallInv, TodoOK, Configuring, Ensuring, Bundled, Starting

\* The copies of the files that secrets.py wrote.
Copying == CopyPostgres \/ CopyRuntime

LEMMA FilesWritten ==
    ASSUME Typed,
           \/ WriteDelegated \/ Copying \/ CheckDelegated \/ WriteMinimal \/ CheckMinimal
           \/ WriteCompose \/ WriteTraefik \/ Raise
    PROVE  Typed'
<1> USE TypedIs
<1>1. CASE WriteDelegated
    BY <1>1, ContentsAre, WriteTyped DEF WriteDelegated
<1>2. CASE WriteMinimal
    BY <1>2, ContentsAre, WriteTyped DEF WriteMinimal
<1>3. CASE Copying
  <2>1. mirror' \in [Files -> Passwords \cup {None}]
    BY <1>3 DEF Copying, CopyPostgres, CopyRuntime, CallInv, Bundled, RestOK
  <2>2. RestOK'
    BY <1>3, <2>1, FilesTyped DEF Copying, CopyPostgres, CopyRuntime, RestOK
  <2> QED
    BY <1>3, <2>2, CopyTyped DEF Copying, CopyPostgres, CopyRuntime
<1>7. CASE CheckDelegated
    BY <1>7, LeaveTyped, StillTyped DEF CheckDelegated
<1>8. CASE Raise
    BY <1>8, OutcomeTyped, StillTyped DEF Raise, Handled
<1>4. CASE CheckMinimal
    BY <1>4, LeaveTyped, OutcomeTyped, StillTyped DEF CheckMinimal, Handled
<1>5. CASE WriteCompose
  <2>1. "traefik" \in Places
    BY DEF Places
  <2>2. call.at = "render" /\ call.net \in Settings /\ call.capsule \in Capsules /\ call \in Calls
    BY <1>5 DEF WriteCompose, CallInv, Configuring
  <2>3. CallInv' /\ TodoOK'
    BY <1>5, <2>1, <2>2, GoIs, RestIs
    DEF WriteCompose, SameCall, CallInv, TodoOK, Configuring, Ensuring, Bundled, Starting
  <2>4. RestOK'
    BY <1>5, <2>2, FilesTyped DEF WriteCompose, RestOK, Rendered
  <2> QED
    BY <2>3, <2>4
<1>6. CASE WriteTraefik
  <2>1. call.net \in Settings
    BY <1>6 DEF WriteTraefik, CallInv, Configuring
  <2>2. RestOK'
    BY <1>6, <2>1, SettingsAre, FilesTyped DEF WriteTraefik, RestOK
  <2> QED
    BY <1>6, <2>2, OutcomeTyped DEF WriteTraefik, Handled
<1> QED
    BY <1>1, <1>2, <1>3, <1>4, <1>5, <1>6, <1>7, <1>8

LEMMA FallbackTyped ==
    ASSUME Typed, Fallback
    PROVE  Typed'
<1> USE TypedIs
<1>1. RestOK'
    BY StillTyped DEF Fallback
<1>2. /\ call.at = "fallback" /\ call \in Calls /\ call.op = "configure" /\ call.net \in Settings
      /\ call.capsule \in Capsules /\ call.ensure /\ call.result = "none"
    BY DEF Fallback, CallInv, Configuring, Ensuring
<1>3. Merged("pw") \in Passwords \cup {None} /\ Merged("url") \in Passwords \cup {Placeholder, None}
    BY ReadBack DEF RestOK
<1>4. PICK p \in Keep(Merged("pw")) :
          call' = [call EXCEPT !.at = "minimal", !.todo = FallbackOrder,
             !.bundle = [net |-> call.net, capsule |-> call.capsule, pw |-> p,
                         url |-> IF Merged("url") # None THEN Merged("url") ELSE p]]
    BY DEF Fallback
<1> DEFINE b == [net |-> call.net, capsule |-> call.capsule, pw |-> p,
                 url |-> IF Merged("url") # None THEN Merged("url") ELSE p]
<1>5. p \in Passwords
    BY <1>3, KeepIs
<1>6. b \in Contents /\ b.pw = p
    BY <1>2, <1>3, <1>5 DEF Contents
<1>7. call' = [call EXCEPT !.at = "minimal", !.todo = FallbackOrder, !.bundle = b]
    BY <1>4
<1> HIDE DEF b
<1>8. "minimal" \in Places
    BY DEF Places
<1>9. /\ call' \in Calls /\ call'.at = "minimal" /\ call'.todo = FallbackOrder /\ call'.bundle = b
      /\ call'.op = call.op /\ call'.net = call.net
      /\ call'.capsule = call.capsule /\ call'.ensure = call.ensure /\ call'.result = call.result
    BY <1>2, <1>6, <1>7, <1>8, RestIs DEF Calls
<1> QED
    BY <1>1, <1>2, <1>5, <1>6, <1>9, RestIs
    DEF CallInv, TodoOK, Configuring, Ensuring, Bundled, Starting

\* A start moves on.
LEMMA StartGoes ==
    ASSUME Typed, call.at \in {"start", "load", "down"}, NEW p \in {"load", "down", "up"}, Go(p)
    PROVE  CallInv' /\ TodoOK'
<1>1. p \in Places
    BY DEF Places
<1> QED
    BY <1>1, GoIs, RestIs, TypedIs
    DEF SameCall, CallInv, TodoOK, Configuring, Ensuring, Bundled, Starting

LEMMA HostChanged ==
    ASSUME Typed, CheckSecurity \/ LoadImages \/ ComposeDown \/ ComposeUp
    PROVE  Typed'
<1> USE TypedIs
<1>0. {"ok", "failed", "blocked"} \subseteq Handled
    BY DEF Handled
<1>1. CASE CheckSecurity
    BY <1>0, <1>1, StillTyped, StartGoes, OutcomeTyped DEF CheckSecurity
<1>2. CASE LoadImages
  <2>1. CallInv' /\ TodoOK'
    BY <1>0, <1>2, StartGoes, OutcomeTyped DEF LoadImages
  <2>2. Resolve(call.capsule) \in Capsules \cup {None}
    BY ResolveIs DEF CallInv, Calls
  <2>3. store' \in Builds \cup {Unloaded}
    BY <1>2, <2>2 DEF LoadImages, RestOK
  <2>4. RestOK'
    BY <1>2, <2>3, HostTyped DEF LoadImages, RestOK
  <2> QED
    BY <2>1, <2>4
<1>3. CASE ComposeDown
  <2>1. CallInv' /\ TodoOK'
    BY <1>0, <1>3, StartGoes, OutcomeTyped DEF ComposeDown
  <2>2. RestOK'
    BY <1>3, HostTyped DEF ComposeDown, RestOK
  <2> QED
    BY <2>1, <2>2
<1>4. CASE ComposeUp
  <2>1. CallInv' /\ TodoOK'
    BY <1>0, <1>4, OutcomeTyped DEF ComposeUp
  <2>2. containers' \in Builds \cup {None} /\ db' \in Passwords \cup {None}
    BY <1>4, FilesAre DEF ComposeUp, CanCreate, RestOK, Contents
  <2>3. RestOK'
    BY <1>4, <2>2, HostTyped DEF ComposeUp, RestOK
  <2> QED
    BY <2>1, <2>3
<1> QED
    BY <1>1, <1>2, <1>3, <1>4

\* The steps, in the groups of the lemmas above.
LEMMA Steps ==
    ASSUME [Next]_vars
    PROVE  \/ Requesting \/ Refusing \/ RecordOutcome \/ KillAgent
           \/ Configure \/ DelegateEnv \/ WriteDelegated \/ Copying \/ CheckDelegated
           \/ Fallback \/ WriteMinimal \/ CheckMinimal \/ WriteCompose \/ WriteTraefik \/ Raise
           \/ CheckSecurity \/ LoadImages \/ ComposeDown \/ ComposeUp
           \/ \E c \in Capsules, b \in Builds \cup {None} : ChangeShelf(c, b)
           \/ UNCHANGED <<call, files, host, shelf, audit, answer>>
BY DEF Next, vars, Requesting, Refusing, Copying

LEMMA NextTyped ==
    ASSUME Typed, [Next]_vars
    PROVE  Typed'
<1> USE TypedIs
<1>1. ASSUME NEW c \in Capsules, NEW b \in Builds \cup {None}, ChangeShelf(c, b)
      PROVE  Typed'
    BY <1>1 DEF ChangeShelf, RestOK, CallInv, TodoOK, files, host
<1>2. CASE UNCHANGED <<call, files, host, shelf, audit, answer>>
    BY <1>2, StillTyped DEF CallInv, TodoOK
<1> QED
    BY <1>1, <1>2, Steps, BoundaryTyped, ConfigureTyped, DelegateTyped, FilesWritten,
       FallbackTyped, HostChanged

LEMMA Types == Spec => []Typed
<1>1. Typed /\ [Next]_vars => Typed'
    BY NextTyped
<1> QED
    BY <1>1, InitTyped, PTL DEF Spec

\* Type correctness of the request, the files, the host and the audit.
THEOREM TypeCorrect == Spec => []TypeOK
<1>1. Typed => TypeOK
    BY DEF Typed
<1> QED
    BY <1>1, Types, PTL

-----------------------------------------------------------------------------
(* The audit: nothing is being served unless its start was recorded.       *)

AuditInv == RequireAudit /\ call.at # "idle" => audit = "started"

LEMMA NextAudit ==
    ASSUME Typed, AuditInv, [Next]_vars
    PROVE  AuditInv'
<1>1. CASE Requesting
    BY <1>1, RequestIs, IdleIs DEF AuditInv
<1>2. CASE Refusing
    BY <1>2 DEF Refusing, RefuseUnrecorded, RefuseStranger, AuditInv
<1>3. CASE RecordOutcome
    BY <1>3, IdleIs DEF RecordOutcome, AuditInv
<1>4. CASE KillAgent
    BY <1>4, IdleIs DEF KillAgent, AuditInv
<1>5. CASE call.at # "idle" /\ UNCHANGED audit
    BY <1>5 DEF AuditInv
<1>6. ASSUME NEW c \in Capsules, NEW b \in Builds \cup {None}, ChangeShelf(c, b)
      PROVE  AuditInv'
    BY <1>6 DEF ChangeShelf, AuditInv
<1>7. CASE UNCHANGED <<call, files, host, shelf, audit, answer>>
    BY <1>7 DEF AuditInv
<1>8. ASSUME DelegateEnv \/ Configure \/ Fallback \/ WriteDelegated \/ Copying \/ CheckDelegated
                 \/ WriteMinimal \/ CheckMinimal \/ WriteCompose \/ WriteTraefik \/ Raise
      PROVE  call.at # "idle" /\ UNCHANGED audit
    BY <1>8 DEF DelegateEnv, Delegate, Delegating, Configure, Fallback, WriteDelegated, Write,
                Copying, CopyPostgres, CopyRuntime, CheckDelegated,
                WriteMinimal, CheckMinimal, WriteCompose, WriteTraefik, Raise
<1>9. ASSUME CheckSecurity \/ LoadImages \/ ComposeDown \/ ComposeUp
      PROVE  call.at # "idle" /\ UNCHANGED audit
    BY <1>9 DEF CheckSecurity, LoadImages, ComposeDown, ComposeUp
<1> QED
    BY <1>1, <1>2, <1>3, <1>4, <1>5, <1>6, <1>7, <1>8, <1>9, Steps

Recorded ==
    RequireAudit =>
        /\ <<files, host>>' # <<files, host>> => audit = "started"
        /\ answer' # answer /\ answer' \in Handled => audit = "started" /\ audit' = "succeeded"

LEMMA StepRecorded ==
    ASSUME Typed, AuditInv, [Next]_vars
    PROVE  Recorded
<1> USE DEF Recorded
<1>1. CASE Requesting
    BY <1>1, RequestIs DEF Handled
<1>2. CASE Refusing
    BY <1>2 DEF Refusing, RefuseUnrecorded, RefuseStranger, Handled
<1>3. CASE RecordOutcome
    BY <1>3 DEF RecordOutcome, AuditInv, Handled
<1>4. CASE KillAgent
    BY <1>4 DEF KillAgent
<1>5. CASE call.at # "idle" /\ UNCHANGED answer
    BY <1>5 DEF AuditInv
<1>6. ASSUME NEW c \in Capsules, NEW b \in Builds \cup {None}, ChangeShelf(c, b)
      PROVE  Recorded
    BY <1>6 DEF ChangeShelf
<1>7. CASE UNCHANGED <<call, files, host, shelf, audit, answer>>
    BY <1>7
<1>8. ASSUME DelegateEnv \/ Configure \/ Fallback \/ WriteDelegated \/ Copying \/ CheckDelegated
                 \/ WriteMinimal \/ CheckMinimal \/ WriteCompose \/ WriteTraefik \/ Raise
      PROVE  call.at # "idle" /\ UNCHANGED answer
    BY <1>8 DEF DelegateEnv, Delegate, Delegating, Configure, Fallback, WriteDelegated, Write,
                Copying, CopyPostgres, CopyRuntime, CheckDelegated,
                WriteMinimal, CheckMinimal, WriteCompose, WriteTraefik, Raise
<1>9. ASSUME CheckSecurity \/ LoadImages \/ ComposeDown \/ ComposeUp
      PROVE  call.at # "idle" /\ UNCHANGED answer
    BY <1>9 DEF CheckSecurity, LoadImages, ComposeDown, ComposeUp
<1> QED
    BY <1>1, <1>2, <1>3, <1>4, <1>5, <1>6, <1>7, <1>8, <1>9, Steps

\* With auditing required nothing is changed before the call is recorded, and
\* a call answered by its handler has its outcome recorded.
THEOREM ChangesRecorded == Spec => ChangesAreRecorded
<1>1. Init => AuditInv
    BY IdleIs DEF Init, AuditInv
<1>2. Typed /\ AuditInv /\ [Next]_vars => AuditInv'
    BY NextAudit
<1>3. Typed /\ AuditInv /\ [Next]_vars => Recorded
    BY StepRecorded
<1> QED
    BY <1>1, <1>2, <1>3, Types, PTL DEF Spec, ChangesAreRecorded, Recorded

-----------------------------------------------------------------------------
(* The password of the database.  However many writers die half-way, there *)
(* is at most one password in the files, their copies, the database and    *)
(* the call that is being served; and where a file is missing while files  *)
(* are written, it is still due.                                           *)

Written == {f \in Files : env[f] # None}
Kept == {db} \cup {mirror[f] : f \in Files} \cup {env[f].pw : f \in Written}
InPlay == Kept \cup {call.bundle.pw}
OnePassword == \A p, q \in InPlay : p = None \/ q = None \/ p = q
Due(f) == \E i \in 1..Len(call.todo) : call.todo[i] = f
Covered == call.at \in {"delegate", "minimal"} => \A f \in Files : env[f] # None \/ Due(f)
Initialised ==
    /\ env["postgres"] # None => env["postgres"].pw # None
    /\ call.at = "mirror" \/ db # None \/ (\E f \in Files : mirror[f] # None) => env["postgres"] # None

PasswordInv == OnePassword /\ Covered /\ Initialised

LEMMA PasswordInvKeeps ==
    ASSUME PasswordInv
    PROVE  PasswordKept
BY FilesAre DEF PasswordInv, OnePassword, Initialised, InPlay, Kept, Written, PasswordKept

\* A step that brings no password into play.
LEMMA NoneAdded ==
    ASSUME OnePassword, InPlay' \subseteq InPlay \cup {None}
    PROVE  OnePassword'
BY DEF OnePassword

LEMMA BlankHas == Blank.pw = None
BY DEF Blank

\* A call that changes neither the files nor the database.
LEMMA CallKeepsPassword ==
    ASSUME PasswordInv, UNCHANGED <<files, db>>, call'.at \notin {"delegate", "minimal", "mirror"},
           call'.bundle \in {call.bundle, Blank}
    PROVE  PasswordInv'
<1>1. InPlay' \subseteq InPlay \cup {None}
    BY BlankHas DEF InPlay, Kept, Written, files
<1> QED
    BY <1>1, NoneAdded DEF PasswordInv, Covered, Initialised, files

\* A database is only initialised from the file that Postgres reads.
LEMMA HostKeepsPassword ==
    ASSUME Typed, PasswordInv, UNCHANGED files, call'.at \notin {"delegate", "minimal", "mirror"},
           call'.bundle \in {call.bundle, Blank},
           \/ db' = db
           \/ env["postgres"] # None /\ db' = env["postgres"].pw
    PROVE  PasswordInv'
<1>1. InPlay' \subseteq InPlay \cup {None}
    BY BlankHas, FilesAre DEF InPlay, Kept, Written, files
<1> QED
    BY <1>1, NoneAdded DEF PasswordInv, Covered, Initialised, files

\* The password that is kept if there is one, with nothing kept if not.
LEMMA FoundIs ==
    ASSUME Typed, PasswordInv
    PROVE  /\ Merged("pw") \in Kept \cup {None} /\ Preserved \in Kept \cup {None}
           /\ Merged("pw") = None => Kept \subseteq {None}
           /\ Preserved = None => Kept \subseteq {None}
<1>0. "postgres" \in Files /\ RestOK
    BY FilesAre, TypedIs
<1>1. Merged("pw") = None => Kept \subseteq {None}
  <2> SUFFICES ASSUME Merged("pw") = None PROVE Kept \subseteq {None}
    OBVIOUS
  <2>1. \A f \in Files : env[f] # None => env[f].pw = None
    BY MergedIs
  <2>2. env["postgres"] = None
    BY <1>0, <2>1 DEF PasswordInv, Initialised
  <2> QED
    BY <2>1, <2>2 DEF PasswordInv, Initialised, Kept, Written
<1>2. Merged("pw") \in Kept \cup {None}
    BY MergedIs DEF Kept, Written
<1>3. \A f \in Files : Known(f) \in Kept \cup {None}
    BY DEF Known, Kept, Written
<1>4. Preserved = None => Kept \subseteq {None}
  <2> SUFFICES ASSUME Preserved = None PROVE Kept \subseteq {None}
    OBVIOUS
  <2>1. \A f \in Files : Known(f) = None
    BY <1>0, PreservedIs
  <2>2. \A f \in Files : mirror[f] = None /\ (env[f] # None => env[f].pw = None)
    BY <2>1 DEF Known
  <2>3. env["postgres"] = None
    BY <1>0, <2>2 DEF PasswordInv, Initialised
  <2> QED
    BY <2>2, <2>3 DEF PasswordInv, Initialised, Kept, Written
<1>5. Preserved \in Kept \cup {None}
    BY <1>0, <1>3, PreservedIs
<1> QED
    BY <1>1, <1>2, <1>4, <1>5

\* A bundle is made with a password that is kept, or with the first one, also
\* if an earlier bundle was given up with some of its files written.
LEMMA BundleKeepsPassword ==
    ASSUME Typed, PasswordInv, UNCHANGED <<files, db>>,
           NEW found \in {Merged("pw"), Preserved}, NEW p \in Keep(found), call'.at # "mirror",
           call'.bundle.pw = p, call'.todo \in {DelegateOrder, FallbackOrder}
    PROVE  PasswordInv'
<1>1. InPlay' = Kept \cup {p}
    BY DEF InPlay, Kept, Written, files
<1>2. found # None => p = found
    BY DEF Keep
<1>3. OnePassword'
  <2>1. \A x, y \in Kept : x = None \/ y = None \/ x = y
    BY DEF OnePassword, InPlay, PasswordInv
  <2>2. \A x \in Kept : x = None \/ x = p
    BY <1>2, <2>1, FoundIs
  <2> QED
    BY <1>1, <2>1, <2>2 DEF OnePassword
<1>4. Covered'
  <2>1. \A f \in Files : \E i \in 1..Len(call'.todo) : call'.todo[i] = f
    BY Orders
  <2> QED
    BY <2>1 DEF Covered, Due
<1> QED
    BY <1>3, <1>4 DEF PasswordInv, Initialised, files

\* A file gets the bundle's password, if it is one that has a password.
LEMMA FileHas ==
    ASSUME NEW f \in Files, NEW b \in Contents
    PROVE  /\ Delegated(f, b).pw \in {b.pw, None} /\ Minimal(f, b).pw \in {b.pw, None}
           /\ f = "postgres" => Delegated(f, b).pw = b.pw /\ Minimal(f, b).pw = b.pw
<1>1. f \in {"kx", "django", "postgres", "runtime"}
    BY FilesAre
<1>2. Delegated(f, b).pw \in {b.pw, None} /\ (f = "postgres" => Delegated(f, b).pw = b.pw)
  <2>1. CASE f = "kx"
    BY <2>1 DEF Delegated, Blank
  <2>2. CASE f = "django"
    BY <2>2 DEF Delegated, Blank
  <2>3. CASE f = "postgres"
    BY <2>3 DEF Delegated, Blank
  <2>4. CASE f = "runtime"
    BY <2>4 DEF Delegated
  <2> QED
    BY <1>1, <2>1, <2>2, <2>3, <2>4
<1>3. Minimal(f, b).pw \in {b.pw, None} /\ (f = "postgres" => Minimal(f, b).pw = b.pw)
  <2>1. CASE f = "kx"
    BY <2>1 DEF Minimal, Blank
  <2>2. CASE f = "django"
    BY <2>2 DEF Minimal, Contents
  <2>3. CASE f = "postgres"
    BY <2>3 DEF Minimal, Blank
  <2>4. CASE f = "runtime"
    BY <2>4 DEF Minimal
  <2> QED
    BY <1>1, <2>1, <2>2, <2>3, <2>4
<1> QED
    BY <1>2, <1>3

LEMMA WriteKeepsPassword ==
    ASSUME Typed, PasswordInv, NEW place \in {"delegate", "minimal"},
           NEW contents \in [Files -> Contents], Write(place, contents),
           \A f \in Files : contents[f].pw \in {call.bundle.pw, None},
           contents["postgres"].pw = call.bundle.pw
    PROVE  PasswordInv'
<1> DEFINE h == Head(call.todo)
<1>1. /\ h \in Files /\ env' = [env EXCEPT ![h] = contents[h]] /\ call.at \in {"delegate", "minimal"}
      /\ call' = [call EXCEPT !.todo = Tail(call.todo)] /\ call.todo # <<>>
      /\ mirror' = mirror /\ db' = db
    BY WriteIs DEF host
<1>2. call \in Calls /\ call.bundle.pw \in Passwords /\ env \in [Files -> Contents \cup {None}]
    BY <1>1, TypedIs DEF CallInv, Bundled, RestOK
<1>3. call'.bundle = call.bundle /\ call'.at = call.at /\ call'.todo = Tail(call.todo)
    BY <1>1, <1>2 DEF Calls
<1>4. \A f \in Files : env'[f] = IF f = h THEN contents[h] ELSE env[f]
    BY <1>1, <1>2
<1>5. OnePassword'
  <2>1. InPlay' \subseteq InPlay \cup {None}
    BY <1>1, <1>3, <1>4 DEF InPlay, Kept, Written
  <2> QED
    BY <2>1, NoneAdded DEF PasswordInv
<1>6. Covered'
  <2>1. ASSUME NEW f \in Files, env'[f] = None PROVE Due(f)'
    <3>1. f # h /\ env[f] = None
      BY <1>1, <1>4, <2>1
    <3>2. PICK i \in 1..Len(call.todo) : call.todo[i] = f
      BY <1>1, <3>1 DEF PasswordInv, Covered, Due
    <3>3. call.todo \in Seq(Files)
      BY <1>2 DEF Calls
    <3>4. i # 1
      BY <3>1, <3>2, <3>3
    <3>5. i - 1 \in 1..Len(Tail(call.todo)) /\ Tail(call.todo)[i - 1] = f
      BY <1>1, <3>2, <3>3, <3>4, HeadTailProperties
    <3> QED
      BY <1>3, <3>5 DEF Due
  <2> QED
    BY <2>1 DEF Covered
<1>7. Initialised'
    BY <1>1, <1>2, <1>4, FilesAre DEF PasswordInv, Initialised
<1> QED
    BY <1>5, <1>6, <1>7 DEF PasswordInv

\* The copies are made once every file is there.
LEMMA CopyKeepsPassword ==
    ASSUME Typed, PasswordInv, Copying
    PROVE  PasswordInv'
<1>1. call \in Calls /\ call.bundle.pw \in Passwords /\ mirror \in [Files -> Passwords \cup {None}]
    BY TypedIs DEF Copying, CopyPostgres, CopyRuntime, CallInv, Bundled, RestOK
<1>2. call'.bundle = call.bundle /\ call'.at \in {"mirror", "mirrored"}
  <2>1. {"mirror", "mirrored"} \subseteq Places
    BY DEF Places
  <2> QED
    BY <1>1, <2>1, GoIs DEF Copying, CopyPostgres, CopyRuntime
<1>3. \A f \in Files : mirror'[f] \in {mirror[f], call.bundle.pw}
    BY <1>1 DEF Copying, CopyPostgres, CopyRuntime
<1>4. UNCHANGED <<env, db>>
    BY DEF Copying, CopyPostgres, CopyRuntime, host
<1>5. env["postgres"] # None
  <2>1. CASE CopyPostgres
    <3>1. ~ Due("postgres") /\ call.at = "delegate"
      BY <2>1 DEF CopyPostgres, Due
    <3> QED
      BY <3>1, FilesAre DEF PasswordInv, Covered
  <2>2. CASE CopyRuntime
    BY <2>2 DEF CopyRuntime, PasswordInv, Initialised
  <2> QED
    BY <2>1, <2>2 DEF Copying
<1>6. InPlay' \subseteq InPlay \cup {None}
    BY <1>2, <1>3, <1>4 DEF InPlay, Kept, Written
<1> QED
    BY <1>2, <1>4, <1>5, <1>6, NoneAdded DEF PasswordInv, Covered, Initialised

LEMMA NextPassword ==
    ASSUME Typed, PasswordInv, [Next]_vars
    PROVE  PasswordInv'
<1>0. call \in Calls
    BY TypedIs DEF CallInv
<1>1. CASE Requesting
    BY <1>1, RequestIs, IdleIs, CallKeepsPassword DEF Admitted, host
<1>2. CASE Refusing \/ UNCHANGED <<call, files, host, shelf, audit, answer>>
  <2>1. UNCHANGED <<call, env, mirror, db>>
    BY <1>2 DEF Refusing, RefuseUnrecorded, RefuseStranger, files, host
  <2>2. InPlay' \subseteq InPlay \cup {None}
    BY <2>1 DEF InPlay, Kept, Written
  <2>3. Covered' /\ Initialised'
    BY <2>1 DEF PasswordInv, Covered, Due, Initialised
  <2> QED
    BY <2>2, <2>3, NoneAdded DEF PasswordInv
<1>3. CASE RecordOutcome \/ KillAgent
    BY <1>3, IdleIs, CallKeepsPassword DEF RecordOutcome, KillAgent, host
<1>4. CASE Configure
  <2>1. CASE Finish("failed")
    BY <1>0, <1>4, <2>1, FinishIs, CallKeepsPassword DEF Configure, Handled, host
  <2>2. CASE ~Finish("failed")
    <3>1. call'.bundle = call.bundle /\ call'.at \in {"ensure", "render"}
      BY <1>0, <1>4, <2>2 DEF Configure, Calls
    <3> QED
      BY <1>4, <3>1, CallKeepsPassword DEF Configure, host
  <2> QED
    BY <2>1, <2>2
<1>5. CASE DelegateEnv
  <2>1. /\ UNCHANGED <<files, db>>
        /\ call.net \in Settings /\ call.capsule \in Capsules /\ call.attempt \in 1..5
    BY <1>5, TypedIs DEF DelegateEnv, Delegate, Delegating, CallInv, Calls, Configuring, host
  <2>2. CASE Leave("fallback")
    <3>1. "fallback" \in Places
      BY DEF Places
    <3> QED
      BY <1>0, <2>1, <2>2, <3>1, LeaveIs, CallKeepsPassword
  <2>3. ASSUME NEW n \in call.attempt..4, NEW p \in Keep(Preserved),
               call' = [call EXCEPT !.at = "delegate", !.attempt = n + 1, !.todo = DelegateOrder,
                                    !.bundle = Bundle(n, p)]
        PROVE  PasswordInv'
    <3>1. p \in Passwords /\ n \in 1..4
      BY <2>1, PreservedIs, TypedIs, KeepIs
    <3>2. call'.bundle.pw = p /\ call'.todo = DelegateOrder /\ call'.at = "delegate"
      BY <1>0, <2>1, <2>3, <3>1, BundleTyped DEF Calls
    <3> QED
      BY <2>1, <3>2, BundleKeepsPassword
  <2> QED
    BY <1>5, <2>2, <2>3 DEF DelegateEnv, Delegate
<1>6. CASE WriteDelegated
  <2> DEFINE contents == [f \in Files |-> Delegated(f, call.bundle)]
  <2>1. call.bundle \in Contents
    BY <1>0 DEF Calls
  <2>2. contents \in [Files -> Contents]
    BY ContentsAre
  <2>3. /\ \A f \in Files : contents[f].pw \in {call.bundle.pw, None}
        /\ contents["postgres"].pw = call.bundle.pw
    BY <2>1, FileHas, FilesAre
  <2>4. Write("delegate", contents)
    BY <1>6 DEF WriteDelegated
  <2> HIDE DEF contents
  <2> QED
    BY <2>2, <2>3, <2>4, WriteKeepsPassword
<1>7. CASE WriteMinimal
  <2> DEFINE contents == [f \in Files |-> Minimal(f, call.bundle)]
  <2>1. call.bundle \in Contents
    BY <1>0 DEF Calls
  <2>2. contents \in [Files -> Contents]
    BY ContentsAre
  <2>3. /\ \A f \in Files : contents[f].pw \in {call.bundle.pw, None}
        /\ contents["postgres"].pw = call.bundle.pw
    BY <2>1, FileHas, FilesAre
  <2>4. Write("minimal", contents)
    BY <1>7 DEF WriteMinimal
  <2> HIDE DEF contents
  <2> QED
    BY <2>2, <2>3, <2>4, WriteKeepsPassword
<1>8. CASE Fallback
  <2>1. UNCHANGED <<files, db>>
    BY <1>8 DEF Fallback, host
  <2>2. PICK p \in Keep(Merged("pw")) :
            call' = [call EXCEPT !.at = "minimal", !.todo = FallbackOrder,
               !.bundle = [net |-> call.net, capsule |-> call.capsule, pw |-> p,
                           url |-> IF Merged("url") # None THEN Merged("url") ELSE p]]
    BY <1>8 DEF Fallback
  <2>3. call'.bundle.pw = p /\ call'.todo = FallbackOrder /\ call'.at = "minimal"
    BY <1>0, <2>2 DEF Calls
  <2> QED
    BY <2>1, <2>3, BundleKeepsPassword
<1>9. CASE CheckMinimal \/ CheckDelegated \/ Raise
  <2>1. {"render", "fallback"} \subseteq Places /\ "failed" \in Handled
    BY DEF Places, Handled
  <2> QED
    BY <1>0, <1>9, <2>1, LeaveIs, FinishIs, CallKeepsPassword DEF CheckMinimal, CheckDelegated, Raise, host
<1>10. CASE WriteCompose \/ WriteTraefik
  <2>1. "traefik" \in Places /\ {"ok", "failed"} \subseteq Handled
    BY DEF Places, Handled
  <2>2. /\ call'.bundle \in {call.bundle, Blank} /\ call'.at \in {"traefik", "outcome"}
        /\ UNCHANGED <<env, mirror, db>>
    BY <1>0, <1>10, <2>1, GoIs, FinishIs DEF WriteCompose, WriteTraefik, host
  <2>3. InPlay' \subseteq InPlay \cup {None}
    BY <2>2, BlankHas DEF InPlay, Kept, Written
  <2> QED
    BY <2>2, <2>3, NoneAdded DEF PasswordInv, Covered, Initialised
<1>11. CASE CheckSecurity \/ LoadImages \/ ComposeDown \/ ComposeUp
  <2>1. {"load", "down", "up"} \subseteq Places /\ {"ok", "failed", "blocked"} \subseteq Handled
    BY DEF Places, Handled
  <2>2. call'.bundle \in {call.bundle, Blank} /\ call'.at \in {"load", "down", "up", "outcome"}
    <3>1. CASE CheckSecurity
      BY <1>0, <2>1, <3>1, GoIs, FinishIs DEF CheckSecurity
    <3>2. CASE LoadImages
      BY <1>0, <2>1, <3>2, GoIs, FinishIs DEF LoadImages
    <3>3. CASE ComposeDown
      BY <1>0, <2>1, <3>3, GoIs, FinishIs DEF ComposeDown
    <3>4. CASE ComposeUp
      BY <1>0, <2>1, <3>4, GoIs, FinishIs DEF ComposeUp
    <3> QED
      BY <1>11, <3>1, <3>2, <3>3, <3>4
  <2>3. UNCHANGED files /\ (db' = db \/ (env["postgres"] # None /\ db' = env["postgres"].pw))
    BY <1>11 DEF CheckSecurity, LoadImages, ComposeDown, ComposeUp, CanCreate, host
  <2> QED
    BY <2>2, <2>3, HostKeepsPassword
<1>12. ASSUME NEW c \in Capsules, NEW b \in Builds \cup {None}, ChangeShelf(c, b)
       PROVE  PasswordInv'
    BY <1>12, TypedIs, CallKeepsPassword DEF ChangeShelf, host
<1>13. CASE Copying
    BY <1>13, CopyKeepsPassword
<1> QED
    BY <1>1, <1>2, <1>3, <1>4, <1>5, <1>6, <1>7, <1>8, <1>9, <1>10, <1>11, <1>12, <1>13, Steps

\* One password is in play: the one the data was initialised with is in every
\* file from which a later writer, or a start, takes it, whichever files a
\* killed call has left.
THEOREM OnePasswordInPlay == Spec => []PasswordInv
<1>1. Init => PasswordInv
    BY IdleIs, BlankHas, FilesAre
       DEF Init, PasswordInv, OnePassword, Covered, Initialised, InPlay, Kept, Written
<1>2. Typed /\ PasswordInv /\ [Next]_vars => PasswordInv'
    BY NextPassword
<1> QED
    BY <1>1, <1>2, Types, PTL DEF Spec

\* The password that Postgres is given is the one its data was initialised with.
THEOREM PasswordIsKept == Spec => []PasswordKept
<1>1. PasswordInv => PasswordKept
    BY PasswordInvKeeps
<1> QED
    BY <1>1, OnePasswordInPlay, PTL

-----------------------------------------------------------------------------
(* A call that applied a setting left nothing of the last one behind.      *)

\* From the check of the environment to the end of the call.
AppliedInv ==
    /\ call.at \in {"render", "traefik"} /\ call.ensure => Complete(call.net.host)
    /\ call.at = "traefik" => compose = [net |-> call.net, capsule |-> call.capsule]
    /\ AppliedIsWhole

\* A move to a place where nothing is claimed yet.
LEMMA NothingClaimed ==
    ASSUME call'.at \notin {"render", "traefik"}, call'.at = "outcome" => call'.result # "ok"
    PROVE  AppliedInv'
BY DEF AppliedInv, AppliedIsWhole

\* What the environment says changes with its files only.
LEMMA MergedKept ==
    ASSUME UNCHANGED env, NEW field
    PROVE  Merged(field)' = Merged(field)
<1>1. Having(field)' = Having(field)
    BY DEF Having
<1> QED
    BY <1>1 DEF Merged

LEMMA CompleteKept ==
    ASSUME UNCHANGED env, NEW h
    PROVE  Complete(h)' = Complete(h)
<1>1. Merged("pw")' = Merged("pw") /\ Merged("url")' = Merged("url") /\ Merged("net")' = Merged("net")
    BY MergedKept
<1> QED
    BY <1>1 DEF Complete

\* A step that leaves the call and the files alone.
LEMMA ClaimsKept ==
    ASSUME AppliedInv, UNCHANGED <<call, files>>
    PROVE  AppliedInv'
<1>1. UNCHANGED <<call, env, compose, traefik>>
    BY DEF files
<1>2. Complete(call.net.host)' = Complete(call.net.host)
    BY <1>1, CompleteKept DEF Complete
<1>3. Complete(compose.net.host)' = Complete(compose.net.host)
    BY <1>1, CompleteKept DEF Complete
<1> QED
    BY <1>1, <1>2, <1>3 DEF AppliedInv, AppliedIsWhole

LEMMA NextApplied ==
    ASSUME Typed, AppliedInv, [Next]_vars
    PROVE  AppliedInv'
<1>0. call \in Calls
    BY TypedIs DEF CallInv
<1>1. CASE Requesting
    BY <1>1, RequestIs, IdleIs, NothingClaimed DEF Admitted
<1>2. CASE Refusing \/ UNCHANGED <<call, files, host, shelf, audit, answer>>
    BY <1>2, ClaimsKept DEF Refusing, RefuseUnrecorded, RefuseStranger
<1>3. CASE RecordOutcome \/ KillAgent
    BY <1>3, IdleIs, NothingClaimed DEF RecordOutcome, KillAgent
<1>4. CASE Finish("failed") \/ Finish("blocked")
    BY <1>0, <1>4, FinishIs, NothingClaimed DEF Handled
<1>5. CASE Configure /\ ~Finish("failed")
  <2>1. /\ call'.at = IF call.ensure THEN "ensure" ELSE "render"
        /\ call'.ensure = call.ensure
    BY <1>0, <1>5 DEF Configure, Calls
  <2> QED
    BY <2>1 DEF AppliedInv, AppliedIsWhole
<1>6. CASE DelegateEnv \/ Fallback
  <2>1. "fallback" \in Places
    BY DEF Places
  <2>2. call'.at \in {"delegate", "fallback", "minimal"}
    <3>1. CASE DelegateEnv
      BY <1>0, <2>1, <3>1, LeaveIs DEF DelegateEnv, Delegate, Calls
    <3>2. CASE Fallback
      BY <1>0, <3>2 DEF Fallback, Calls
    <3> QED
      BY <1>6, <3>1, <3>2
  <2> QED
    BY <2>2, NothingClaimed
<1>7. CASE WriteDelegated \/ WriteMinimal
  <2>1. call'.at = call.at /\ call.at \in {"delegate", "minimal"}
    BY <1>0, <1>7 DEF WriteDelegated, WriteMinimal, Write, Calls
  <2> QED
    BY <2>1, NothingClaimed
<1>8. CASE CheckDelegated \/ (CheckMinimal /\ ~Finish("failed"))
  <2>1. {"render", "fallback"} \subseteq Places
    BY DEF Places
  <2>2. UNCHANGED env
    BY <1>8 DEF CheckDelegated, CheckMinimal, files
  <2>3. /\ call'.at \in {"render", "fallback"} /\ call'.net = call.net
        /\ call'.at = "render" => Complete(call.net.host)
    BY <1>0, <1>8, <2>1, LeaveIs DEF CheckDelegated, CheckMinimal, SameCall
  <2> QED
    BY <2>2, <2>3, CompleteKept DEF AppliedInv, AppliedIsWhole
<1>9. CASE WriteCompose
  <2>1. "traefik" \in Places
    BY DEF Places
  <2>2. /\ call'.at = "traefik" /\ call.at = "render" /\ call'.net = call.net
        /\ call'.capsule = call.capsule /\ call'.ensure = call.ensure /\ UNCHANGED env
        /\ compose' = [net |-> call.net, capsule |-> call.capsule]
    BY <1>0, <1>9, <2>1, GoIs DEF WriteCompose, SameCall
  <2> QED
    BY <2>2, CompleteKept DEF AppliedInv, AppliedIsWhole
<1>10. CASE WriteTraefik /\ Finish("ok")
  <2>1. "ok" \in Handled
    BY DEF Handled
  <2>2. /\ call.at = "traefik" /\ call'.at = "outcome" /\ call'.net = call.net
        /\ call'.capsule = call.capsule /\ call'.ensure = call.ensure /\ UNCHANGED <<env, compose>>
        /\ traefik' = call.net.host
    BY <1>0, <1>10, <2>1, FinishIs DEF WriteTraefik, SameCall
  <2>3. compose'.net.host = call.net.host
    BY <2>2 DEF AppliedInv
  <2>4. call'.ensure => Complete(call.net.host)'
    BY <2>2, CompleteKept DEF AppliedInv
  <2>5. call'.ensure => Complete(compose.net.host)'
    BY <2>2, <2>3, <2>4 DEF Complete
  <2> QED
    BY <2>2, <2>3, <2>5 DEF AppliedInv, AppliedIsWhole
<1>11. CASE (CheckSecurity \/ LoadImages \/ ComposeDown \/ ComposeUp) /\ ~Finish("failed") /\ ~Finish("blocked")
  <2>1. {"load", "down", "up"} \subseteq Places
    BY DEF Places
  <2>2. \/ call'.at \in {"load", "down", "up"}
        \/ Finish("ok") /\ call.op # "configure"
    <3>1. CASE CheckSecurity
      BY <1>0, <1>11, <2>1, <3>1, GoIs DEF CheckSecurity
    <3>2. CASE LoadImages
      BY <1>0, <1>11, <2>1, <3>2, GoIs DEF LoadImages
    <3>3. CASE ComposeDown
      BY <1>0, <1>11, <2>1, <3>3, GoIs, TypedIs DEF ComposeDown, CallInv
    <3>4. CASE ComposeUp
      BY <1>0, <1>11, <3>4, TypedIs DEF ComposeUp, CallInv, Starting
    <3> QED
      BY <1>11, <3>1, <3>2, <3>3, <3>4
  <2>3. CASE call'.at \in {"load", "down", "up"}
    BY <2>3, NothingClaimed
  <2>4. CASE Finish("ok") /\ call.op # "configure"
    BY <1>0, <2>4, FinishIs DEF AppliedInv, AppliedIsWhole, SameCall, Handled
  <2> QED
    BY <2>2, <2>3, <2>4
<1>12. ASSUME NEW c \in Capsules, NEW b \in Builds \cup {None}, ChangeShelf(c, b)
       PROVE  AppliedInv'
    BY <1>12, ClaimsKept DEF ChangeShelf
<1>13. CASE Copying
  <2>1. {"mirror", "mirrored"} \subseteq Places
    BY DEF Places
  <2>2. call'.at \in {"mirror", "mirrored"}
    BY <1>0, <1>13, <2>1, GoIs DEF Copying, CopyPostgres, CopyRuntime
  <2> QED
    BY <2>2, NothingClaimed
<1>14. (Raise => Finish("failed")) /\ (WriteTraefik => Finish("ok") \/ Finish("failed"))
    BY DEF Raise, WriteTraefik
<1> QED
    BY <1>1, <1>2, <1>3, <1>4, <1>5, <1>6, <1>7, <1>8, <1>9, <1>10, <1>11, <1>12, <1>13, <1>14, Steps

\* When a call that ensures the environment is about to succeed, all files
\* exist, and they are for the host it asked for.
THEOREM AppliedWhole == Spec => []AppliedIsWhole
<1>1. Init => AppliedInv
    BY IdleIs DEF Init, AppliedInv, AppliedIsWhole
<1>2. Typed /\ AppliedInv /\ [Next]_vars => AppliedInv'
    BY NextApplied
<1>3. AppliedInv => AppliedIsWhole
    BY DEF AppliedInv
<1> QED
    BY <1>1, <1>2, <1>3, Types, PTL DEF Spec

-----------------------------------------------------------------------------
(* What an instance exposes.                                               *)

\* Asked for, as it is applied: a plan whose time is over has been reverted.
Applicable == {Normal(s) : s \in Askable} \cup {Normal(Plan(s)) : s \in Askable}

AskedInv ==
    /\ call.at = "configure" => call.net \in Askable
    /\ call.at \in Configuring \ {"configure"} => call.net \in Applicable /\ Renderable(call.net)
    /\ compose # None => compose.net \in Applicable /\ Renderable(compose.net)

\* An instance is in public mode only if some caller asked for that, and beyond
\* the intranet it is reachable only if one asked for a public server with a
\* name of its own: no default, no plan that ran out, no call that disables
\* public mode and no rule of the renderer ever opens one.
ExposedAsAsked ==
    compose # None =>
        /\ compose.net.public => \E s \in Requests : s.public \/ AsksForPublic(s.profile, s.mode)
        /\ Open(compose.net) /\ compose.net.profile # "intranet_private" =>
               \E s \in Requests : s.profile = "public_vps" /\ s.host = "named"

\* Applying a setting keeps what the rules look at, but for public mode.
LEMMA AppliedSetting ==
    ASSUME NEW s \in Settings
    PROVE  /\ Normal(s).profile = s.profile /\ Normal(s).mode = s.mode /\ Normal(s).host = s.host
           /\ Normal(s).expires = s.expires
           /\ Normal(s).public <=> s.public \/ AsksForPublic(s.profile, s.mode)
           /\ Plan(s) \in Settings /\ Plan(s).profile = s.profile /\ Plan(s).host = s.host
           /\ Plan(s).public => s.public
           /\ Plan(s).mode \in PublicModes => s.mode \in PublicModes
<1>1. /\ Normal(s).profile = s.profile /\ Normal(s).mode = s.mode /\ Normal(s).host = s.host
      /\ Normal(s).expires = s.expires
      /\ Normal(s).public <=> s.public \/ AsksForPublic(s.profile, s.mode)
    BY DEF Normal, Settings
<1>2. Plan(s) \in Settings
    BY SettingsAre
<1>3. Plan(s).profile = s.profile /\ Plan(s).host = s.host
    BY DEF Plan, Settings
<1>4. (Plan(s).public => s.public) /\ (Plan(s).mode \in PublicModes => s.mode \in PublicModes)
    BY DEF Plan, Settings, PublicModes
<1> QED
    BY <1>1, <1>2, <1>3, <1>4

\* The settings that are applied come from requests if they expose anything.
LEMMA ApplicableIs ==
    ASSUME NEW net \in Applicable
    PROVE  /\ net.public => \E s \in Requests : s.public \/ AsksForPublic(s.profile, s.mode)
           /\ net.profile = "public_vps" => \E s \in Requests : s.profile = "public_vps" /\ s.host = net.host
<1>1. PICK s \in Askable : net = Normal(s) \/ net = Normal(Plan(s))
    BY DEF Applicable
<1>2. s \in Settings
    BY <1>1, AskableTyped
<1>3. net.profile = s.profile /\ net.host = s.host
    BY <1>1, <1>2, AppliedSetting
<1>4. net.public => s.public \/ AsksForPublic(s.profile, s.mode)
    BY <1>1, <1>2, AppliedSetting DEF AsksForPublic
<1>5. CASE s \in Requests
    BY <1>3, <1>4, <1>5
<1>6. CASE s \in {CreateDefault, PrivateFallback("loopback")}
  <2>1. /\ s.profile \in {"local_only", "intranet_private"} /\ s.mode = "private" /\ s.public = FALSE
    BY <1>6 DEF CreateDefault, PrivateFallback
  <2> QED
    BY <1>3, <1>4, <2>1 DEF AsksForPublic, PublicProfiles, PublicModes
<1> QED
    BY <1>5, <1>6 DEF Askable

\* The renderer's rules say the same of a setting before and after.
LEMMA NormalRenderable ==
    ASSUME NEW s \in Settings
    PROVE  Renderable(Normal(s)) <=> Renderable(s)
BY AppliedSetting DEF Renderable

LEMMA AskedInvKeeps ==
    ASSUME Typed, AskedInv
    PROVE  ExposedAsAsked
<1> SUFFICES ASSUME compose # None
             PROVE  /\ compose.net.public => \E s \in Requests : s.public \/ AsksForPublic(s.profile, s.mode)
                    /\ Open(compose.net) /\ compose.net.profile # "intranet_private" =>
                           \E s \in Requests : s.profile = "public_vps" /\ s.host = "named"
    BY DEF ExposedAsAsked
<1>1. compose.net \in Applicable /\ Renderable(compose.net)
    BY DEF AskedInv
<1>2. Open(compose.net) => compose.net.profile \in {"intranet_private", "public_vps"}
    BY DEF Open, Bindings
<1>3. compose.net.profile = "public_vps" => compose.net.host = "named"
    BY <1>1 DEF Renderable
<1> QED
    BY <1>1, <1>2, <1>3, ApplicableIs

\* A step that leaves the setting of the call and the compose file alone.
LEMMA AskedKept ==
    ASSUME AskedInv, compose' = compose,
           \/ call'.at \notin Configuring
           \/ call'.net = call.net /\ call'.at = call.at
           \/ /\ call'.net = call.net /\ call'.at # "configure"
              /\ call.at \in Configuring \ {"configure"}
    PROVE  AskedInv'
BY DEF AskedInv, Configuring

LEMMA NextAsked ==
    ASSUME Typed, AskedInv, [Next]_vars
    PROVE  AskedInv'
<1>0. call \in Calls
    BY TypedIs DEF CallInv
<1>1. CASE Requesting
  <2>1. compose' = compose
    BY <1>1, RequestIs DEF files
  <2>2. Admitted(call')
    BY <1>1, RequestIs
  <2>3. call'.at = "configure" => call'.net \in Askable
    BY <2>2 DEF Admitted
  <2>4. call'.at \notin Configuring \ {"configure"}
    BY <2>2 DEF Admitted, Configuring
  <2> QED
    BY <2>1, <2>3, <2>4 DEF AskedInv
<1>2. CASE Refusing \/ UNCHANGED <<call, files, host, shelf, audit, answer>>
    BY <1>2, AskedKept DEF Refusing, RefuseUnrecorded, RefuseStranger, files
<1>3. CASE RecordOutcome \/ KillAgent
    BY <1>3, IdleIs, AskedKept DEF RecordOutcome, KillAgent, files, Configuring
<1>4. ASSUME NEW r \in Handled, Finish(r), compose' = compose
      PROVE  AskedInv'
    BY <1>0, <1>4, FinishIs, AskedKept DEF Configuring
<1>5. CASE Configure /\ ~Finish("failed")
  <2>1. /\ call' = [call EXCEPT !.at = IF call.ensure THEN "ensure" ELSE "render",
                                !.net = Normal(Wanted), !.capsule = Resolve(call.capsule)]
        /\ Renderable(Wanted) /\ call.at = "configure" /\ compose' = compose
    BY <1>5 DEF Configure, files
  <2>2. call.net \in Askable /\ call.net \in Settings
    BY <2>1, AskableTyped DEF AskedInv
  <2>3. Wanted \in {call.net, Plan(call.net)} /\ Wanted \in Settings
    BY <2>2, SettingsAre DEF Wanted
  <2>4. Normal(Wanted) \in Applicable /\ Renderable(Normal(Wanted))
    BY <2>1, <2>2, <2>3, NormalRenderable DEF Applicable
  <2>5. call'.at # "configure" /\ call'.net = Normal(Wanted)
    BY <1>0, <2>1 DEF Calls
  <2> QED
    BY <2>1, <2>4, <2>5 DEF AskedInv
<1>6. ASSUME DelegateEnv \/ WriteDelegated \/ Copying \/ CheckDelegated \/ Fallback \/ WriteMinimal
                 \/ (CheckMinimal /\ ~Finish("failed"))
      PROVE  AskedInv'
  <2>1. compose' = compose /\ call.at \in Ensuring
    BY <1>6 DEF DelegateEnv, Delegate, Delegating, WriteDelegated, Write, Copying, CopyPostgres, CopyRuntime,
                CheckDelegated, Fallback, WriteMinimal, CheckMinimal, files, Ensuring
  <2>2. call'.net = call.net /\ call'.at # "configure"
    <3>1. CASE DelegateEnv \/ Fallback
      BY <1>0, <3>1 DEF DelegateEnv, Delegate, Fallback, Leave, Calls
    <3>2. CASE WriteDelegated \/ WriteMinimal
      BY <1>0, <3>2 DEF WriteDelegated, WriteMinimal, Write, Calls
    <3>3. CASE CheckDelegated \/ (CheckMinimal /\ ~Finish("failed"))
      BY <1>0, <3>3 DEF CheckDelegated, CheckMinimal, Leave, Calls
    <3>4. CASE Copying
      BY <1>0, <3>4 DEF Copying, CopyPostgres, CopyRuntime, Go, Calls
    <3> QED
      BY <1>6, <3>1, <3>2, <3>3, <3>4
  <2> QED
    BY <2>1, <2>2, AskedKept DEF Configuring, Ensuring
<1>7. CASE WriteCompose
  <2>1. "traefik" \in Places
    BY DEF Places
  <2>2. /\ call.at = "render" /\ call'.net = call.net /\ call'.at = "traefik"
        /\ compose' = [net |-> call.net, capsule |-> call.capsule]
    BY <1>0, <1>7, <2>1, GoIs DEF WriteCompose, SameCall
  <2> QED
    BY <2>2 DEF AskedInv, Configuring
<1>8. CASE WriteTraefik
    BY <1>4, <1>8 DEF WriteTraefik, Handled
<1>9. CASE CheckSecurity \/ LoadImages \/ ComposeDown \/ ComposeUp
  <2>1. compose' = compose
    BY <1>9 DEF CheckSecurity, LoadImages, ComposeDown, ComposeUp, files
  <2>2. call'.at \notin Configuring
    <3>1. {"ok", "failed", "blocked"} \subseteq Handled /\ {"load", "down", "up"} \subseteq Places
      BY DEF Handled, Places
    <3> QED
      BY <1>0, <1>9, <3>1, GoIs, FinishIs DEF CheckSecurity, LoadImages, ComposeDown, ComposeUp, Configuring
  <2> QED
    BY <2>1, <2>2, AskedKept
<1>10. ASSUME NEW c \in Capsules, NEW b \in Builds \cup {None}, ChangeShelf(c, b)
       PROVE  AskedInv'
    BY <1>10, AskedKept DEF ChangeShelf, files
<1>11. CASE Raise \/ ((Configure \/ CheckMinimal) /\ Finish("failed"))
    BY <1>4, <1>11 DEF Configure, CheckMinimal, Raise, files, Handled
<1> QED
    BY <1>1, <1>2, <1>3, <1>5, <1>6, <1>7, <1>8, <1>9, <1>10, <1>11, Steps

\* An instance exposes no more than some caller asked for.
THEOREM ExposureIsAsked == Spec => []ExposedAsAsked
<1>1. Init => AskedInv
    BY IdleIs DEF Init, AskedInv, Configuring
<1>2. Typed /\ AskedInv /\ [Next]_vars => AskedInv'
    BY NextAsked
<1>3. Typed /\ AskedInv => ExposedAsAsked
    BY AskedInvKeeps
<1> QED
    BY <1>1, <1>2, <1>3, Types, PTL DEF Spec

-----------------------------------------------------------------------------
(* The Security Gate.                                                      *)

\* What a check of a context can answer.
LEMMA ResultIs ==
    ASSUME NEW c, NEW check \in Checks
    PROVE  /\ Results(c)[check] \in {"PASS", "WARN", "FAIL_BLOCKING"}
           /\ Results(c)[check] = "FAIL_BLOCKING"
                  <=> check \notin c.relaxed /\ check \in Offends(c) /\ check \notin Advisory
BY DEF Results

\* The gate opens exactly if each blocking check that offends was relaxed.
LEMMA GateOpens ==
    ASSUME NEW c
    PROVE  GatePasses(c) <=> Offends(c) \cap Blocking \subseteq c.relaxed
<1>1. Blocking \subseteq Checks /\ \A check \in Blocking : check \notin Advisory
    BY DEF Blocking
<1> QED
    BY <1>1, ResultIs DEF GatePasses, Passing

\* The status that is derived from the checks and reported, and the verdict by
\* which a start is allowed, are computed apart and always agree; the status
\* that the caller falls back to is never needed.
THEOREM StatusIsVerdict ==
    ASSUME NEW c, NEW fallback
    PROVE  /\ GatePasses(c) => Derived(Results(c), fallback) \in {"PASS", "WARN"}
           /\ ~GatePasses(c) => Derived(Results(c), fallback) = "FAIL_BLOCKING"
<1>1. Blocking \subseteq Checks
    BY DEF Blocking
<1>2. \A check \in Checks : Results(c)[check] \in {"PASS", "WARN", "FAIL_BLOCKING"}
    BY ResultIs
<1>3. \A check \in Checks : Results(c)[check] = "FAIL_BLOCKING" => check \in Blocking
    BY ResultIs DEF Blocking
<1> DEFINE r == Results(c)
<1> HIDE DEF r
<1>4. /\ \A check \in Checks : r[check] \in {"PASS", "WARN", "FAIL_BLOCKING"}
      /\ \A check \in Checks : r[check] = "FAIL_BLOCKING" => check \in Blocking
    BY <1>2, <1>3 DEF r
<1>5. Passing(r) => Derived(r, fallback) \in {"PASS", "WARN"}
    BY <1>1, <1>4 DEF Passing, Derived
<1>6. ~Passing(r) => Derived(r, fallback) = "FAIL_BLOCKING"
    BY <1>1, <1>4 DEF Passing, Derived
<1> QED
    BY <1>5, <1>6 DEF GatePasses, r

\* Without a relaxed check it does not open for an unsigned capsule.
LEMMA OpenedIs ==
    ASSUME NEW capsule, Opened(capsule)
    PROVE  capsule # None /\ shelf[capsule] # None /\ shelf[capsule] \in Signed
<1>1. PICK firewall \in BOOLEAN, backup \in BOOLEAN : GatePasses(GateContext(capsule, firewall, backup))
    BY DEF Opened
<1> DEFINE c == GateContext(capsule, firewall, backup)
<1>2. /\ c.relaxed = {}
      /\ c.signature = (capsule # None /\ shelf[capsule] # None /\ shelf[capsule] \in Signed)
    BY DEF GateContext
<1>3. GatePasses(c)
    BY <1>1
<1> HIDE DEF c
<1>4. "capsule_signature" \in Blocking
    BY DEF Blocking, Checks, Relaxable, Advisory
<1>5. "capsule_signature" \notin Offends(c)
    BY <1>2, <1>3, <1>4, GateOpens
<1>6. c.signature
    BY <1>5 DEF Offends, OfCapsule, Of
<1> QED
    BY <1>2, <1>6

\* What a gated start has been verified for, and what it has loaded.
GateInv ==
    LET capsule == Resolve(call.capsule)
    IN  /\ call.at \in {"load", "down", "up"} /\ Checked =>
              capsule # None /\ shelf[capsule] # None /\ shelf[capsule] \in Signed
        /\ call.at \in {"down", "up"} /\ Checked => store = shelf[capsule]

LEMMA ResolveKept ==
    ASSUME UNCHANGED files, NEW c
    PROVE  Resolve(c)' = Resolve(c)
BY DEF Resolve, files

\* A gated start that goes on.
LEMMA GateKept ==
    ASSUME UNCHANGED <<files, shelf>>, SameCall
    PROVE  /\ Checked' = Checked /\ Resolve(call.capsule)' = Resolve(call.capsule)
           /\ shelf[Resolve(call.capsule)]' = shelf[Resolve(call.capsule)]
<1>1. Resolve(call.capsule)' = Resolve(call.capsule)
    BY DEF Resolve, files, SameCall
<1> QED
    BY <1>1 DEF Checked, files, SameCall

LEMMA NextGate ==
    ASSUME Typed, GateInv, [Next]_vars
    PROVE  GateInv'
<1>0. call \in Calls
    BY TypedIs DEF CallInv
<1>1. CASE call'.at \notin {"load", "down", "up"}
    BY <1>1 DEF GateInv
<1>2. CASE UNCHANGED <<call, files, host, shelf, audit, answer>> \/ Refusing
  <2>1. UNCHANGED <<call, files, store, shelf>>
    BY <1>2 DEF Refusing, RefuseUnrecorded, RefuseStranger, host
  <2>2. Checked' = Checked /\ Resolve(call.capsule)' = Resolve(call.capsule)
    BY <2>1 DEF Checked, Resolve, files
  <2> QED
    BY <2>1, <2>2 DEF GateInv
<1>3. CASE CheckSecurity
  <2>1. CASE Finish("blocked")
    BY <1>0, <2>1, <1>1, FinishIs DEF Handled
  <2>2. CASE Go("load") /\ (Checked => Opened(Resolve(call.capsule)))
    <3>1. "load" \in Places
      BY DEF Places
    <3>2. SameCall /\ call'.at = "load" /\ UNCHANGED <<files, shelf>>
      BY <1>0, <1>3, <2>2, <3>1, GoIs DEF CheckSecurity
    <3> QED
      BY <2>2, <3>2, GateKept, OpenedIs DEF GateInv
  <2> QED
    BY <1>3, <2>1, <2>2 DEF CheckSecurity
<1>4. CASE LoadImages
  <2> DEFINE capsule == Resolve(call.capsule)
             found == capsule # None /\ shelf[capsule] # None
  <2>1. CASE Finish("failed")
    BY <1>0, <2>1, <1>1, FinishIs DEF Handled
  <2>2. CASE (Go("down") \/ Go("up")) /\ (store' = shelf[capsule] \/ ~found)
    <3>1. {"down", "up"} \subseteq Places
      BY DEF Places
    <3>2. SameCall /\ UNCHANGED <<files, shelf>> /\ call.at = "load"
      BY <1>0, <1>4, <2>2, <3>1, GoIs DEF LoadImages
    <3>3. Checked => found
      BY <3>2 DEF GateInv
    <3> QED
      BY <2>2, <3>2, <3>3, GateKept DEF GateInv
  <2> QED
    BY <1>4, <2>1, <2>2 DEF LoadImages
<1>5. CASE ComposeDown
  <2>1. CASE Finish("ok") \/ Finish("failed")
    BY <1>0, <2>1, <1>1, FinishIs DEF Handled
  <2>2. CASE call.at = "down" /\ Go("up")
    <3>1. "up" \in Places
      BY DEF Places
    <3>2. SameCall /\ UNCHANGED <<files, shelf, store>>
      BY <1>0, <1>5, <2>2, <3>1, GoIs DEF ComposeDown
    <3> QED
      BY <2>2, <3>2, GateKept DEF GateInv
  <2> QED
    BY <1>5, <2>1, <2>2 DEF ComposeDown
<1>6. CASE ComposeUp
  <2>1. Finish("ok") \/ Finish("failed")
    BY <1>6 DEF ComposeUp
  <2> QED
    BY <1>0, <2>1, <1>1, FinishIs DEF Handled
<1>7. CASE Requesting
    BY <1>1, <1>7, RequestIs, IdleIs DEF Admitted
<1>8. CASE RecordOutcome \/ KillAgent
    BY <1>1, <1>8, IdleIs DEF RecordOutcome, KillAgent
<1>9. ASSUME Configure \/ DelegateEnv \/ WriteDelegated \/ Copying \/ CheckDelegated \/ Fallback
                 \/ WriteMinimal \/ CheckMinimal \/ WriteCompose \/ WriteTraefik \/ Raise
      PROVE  GateInv'
  <2>1. call'.op = "configure"
    <3>1. call.op = "configure"
      BY <1>9, TypedIs DEF CallInv, Configuring, Configure, DelegateEnv, Delegate, Delegating,
                  WriteDelegated, Write, Copying, CopyPostgres, CopyRuntime, CheckDelegated, Fallback,
                  WriteMinimal, CheckMinimal, WriteCompose, WriteTraefik, Raise
    <3>2. call'.op = call.op
      BY <1>0, <1>9 DEF Calls, Go, Leave, Finish, Configure, DelegateEnv, Delegate, WriteDelegated, Write,
                  Copying, CopyPostgres, CopyRuntime, CheckDelegated, Fallback, WriteMinimal, CheckMinimal,
                  WriteCompose, WriteTraefik, Raise
    <3> QED
      BY <3>1, <3>2
  <2>2. Typed'
    BY NextTyped
  <2>3. CallInv'
    BY <2>2 DEF Typed
  <2> QED
    BY <2>1, <2>3, <1>1 DEF CallInv, Starting
<1>10. ASSUME NEW c \in Capsules, NEW b \in Builds \cup {None}, ChangeShelf(c, b)
       PROVE  GateInv'
    BY <1>1, <1>10 DEF ChangeShelf
<1> QED
    BY <1>2, <1>3, <1>4, <1>5, <1>6, <1>7, <1>8, <1>9, <1>10, Steps

\* What a gated start brings up.
Verified ==
    call.at = "up" /\ call.gate /\ call'.result = "ok" =>
        LET capsule == Resolve(call.capsule)
        IN  shelf[capsule] \in Signed /\ containers' = shelf[capsule]

LEMMA StepVerified ==
    ASSUME Typed, GateInv, [Next]_vars
    PROVE  Verified
<1> SUFFICES ASSUME call.at = "up", call.gate, call'.result = "ok"
             PROVE  LET capsule == Resolve(call.capsule)
                    IN  shelf[capsule] \in Signed /\ containers' = shelf[capsule]
    BY DEF Verified
<1>0. call \in Calls /\ call.result = "none"
    BY TypedIs DEF CallInv, Calls
<1>1. CASE ComposeUp
  <2>1. "failed" \in Handled
    BY DEF Handled
  <2>2. ~Finish("failed")
    BY <1>0, <2>1, FinishIs
  <2>3. compose # None /\ containers' = store
    BY <1>1, <2>2 DEF ComposeUp, CanCreate
  <2> QED
    BY <2>3 DEF GateInv, Checked
<1>2. CASE RecordOutcome \/ KillAgent
    BY <1>2, IdleIs DEF RecordOutcome, KillAgent
<1>3. CASE Refusing \/ UNCHANGED <<call, files, host, shelf, audit, answer>>
    BY <1>0, <1>3 DEF Refusing, RefuseUnrecorded, RefuseStranger
<1>4. CASE Requesting
    BY <1>4, RequestIs
<1>5. ASSUME NEW c \in Capsules, NEW b \in Builds \cup {None}
      PROVE  ~ChangeShelf(c, b)
    BY DEF ChangeShelf
<1>6. ~ (Configure \/ DelegateEnv \/ WriteDelegated \/ Copying \/ CheckDelegated \/ Fallback
            \/ WriteMinimal \/ CheckMinimal \/ WriteCompose \/ WriteTraefik \/ Raise
            \/ CheckSecurity \/ LoadImages \/ ComposeDown)
    BY DEF Configure, DelegateEnv, Delegate, Delegating, WriteDelegated, Write, Copying, CopyPostgres,
           CopyRuntime, CheckDelegated, Fallback, WriteMinimal, CheckMinimal, WriteCompose, WriteTraefik,
           Raise, CheckSecurity, LoadImages, ComposeDown
<1> QED
    BY <1>1, <1>2, <1>3, <1>4, <1>5, <1>6, Steps

\* What a gated start brings up is the build that the gate verified.
THEOREM GatedStartVerified == Spec => GatedStartRunsVerified
<1>1. Init => GateInv
    BY IdleIs DEF Init, GateInv
<1>2. Typed /\ GateInv /\ [Next]_vars => GateInv'
    BY NextGate
<1>3. Typed /\ GateInv /\ [Next]_vars => Verified
    BY StepVerified
<1> QED
    BY <1>1, <1>2, <1>3, Types, PTL DEF Spec, GatedStartRunsVerified, Verified

-----------------------------------------------------------------------------
(* The contract.  A call is seen at a stage, with its capsule and host; a  *)
(* step of the Agent is a step of the contract or is not seen.             *)

Job(at, capsule, host_, gate, result) ==
    [at |-> at, capsule |-> capsule, host |-> host_, gate |-> gate, result |-> result]
HostOf(net) == IF net = None THEN None ELSE net.host
Seen == Job(Stage, call.capsule, HostOf(call.net), call.gate, call.result)
RenderedFor == IF compose = None THEN None
               ELSE [capsule |-> compose.capsule, host |-> compose.net.host]

LEMMA JobFields ==
    ASSUME NEW a, NEW c, NEW h, NEW g, NEW r
    PROVE  /\ Job(a, c, h, g, r).at = a /\ Job(a, c, h, g, r).capsule = c /\ Job(a, c, h, g, r).host = h
           /\ Job(a, c, h, g, r).gate = g /\ Job(a, c, h, g, r).result = r
BY DEF Job

\* The contract's moves of a job.
Settled(j, a, c) == [j EXCEPT !.at = a, !.capsule = c]
Ended(j, a, r) == [j EXCEPT !.at = a, !.result = r]
Begun(j, a, c, h, g) == [j EXCEPT !.at = a, !.capsule = c, !.host = h, !.gate = g]

LEMMA JobGoes ==
    ASSUME NEW a, NEW c, NEW h, NEW g, NEW r, NEW a2
    PROVE  [Job(a, c, h, g, r) EXCEPT !.at = a2] = Job(a2, c, h, g, r)
BY DEF Job

LEMMA JobSettles ==
    ASSUME NEW a, NEW c, NEW h, NEW g, NEW r, NEW a2, NEW c2
    PROVE  Settled(Job(a, c, h, g, r), a2, c2) = Job(a2, c2, h, g, r)
<1>1. [Job(a, c, h, g, r) EXCEPT !.at = a2, !.capsule = c2]
          = [[Job(a, c, h, g, r) EXCEPT !.at = a2] EXCEPT !.capsule = c2]
    BY Zenon
<1>2. [Job(a, c, h, g, r) EXCEPT !.at = a2] = Job(a2, c, h, g, r)
    BY JobGoes
<1>3. [Job(a2, c, h, g, r) EXCEPT !.capsule = c2] = Job(a2, c2, h, g, r)
    BY DEF Job
<1> QED
    BY <1>1, <1>2, <1>3 DEF Settled

LEMMA JobEnds ==
    ASSUME NEW a, NEW c, NEW h, NEW g, NEW r, NEW a2, NEW r2
    PROVE  Ended(Job(a, c, h, g, r), a2, r2) = Job(a2, c, h, g, r2)
<1>1. [Job(a, c, h, g, r) EXCEPT !.at = a2, !.result = r2]
          = [[Job(a, c, h, g, r) EXCEPT !.at = a2] EXCEPT !.result = r2]
    BY Zenon
<1>2. [Job(a, c, h, g, r) EXCEPT !.at = a2] = Job(a2, c, h, g, r)
    BY JobGoes
<1>3. [Job(a2, c, h, g, r) EXCEPT !.result = r2] = Job(a2, c, h, g, r2)
    BY DEF Job
<1> QED
    BY <1>1, <1>2, <1>3 DEF Ended

LEMMA JobBegins ==
    ASSUME NEW a, NEW c, NEW h, NEW g, NEW r, NEW a2, NEW c2, NEW h2, NEW g2
    PROVE  Begun(Job(a, c, h, g, r), a2, c2, h2, g2) = Job(a2, c2, h2, g2, r)
<1>1. [Job(a, c, h, g, r) EXCEPT !.at = a2, !.capsule = c2, !.host = h2, !.gate = g2]
          = [[[[Job(a, c, h, g, r) EXCEPT !.at = a2] EXCEPT !.capsule = c2] EXCEPT !.host = h2] EXCEPT !.gate = g2]
    BY Zenon
<1>2. [Job(a, c, h, g, r) EXCEPT !.at = a2] = Job(a2, c, h, g, r)
    BY JobGoes
<1>3. [Job(a2, c, h, g, r) EXCEPT !.capsule = c2] = Job(a2, c2, h, g, r)
    BY DEF Job
<1>4. [Job(a2, c2, h, g, r) EXCEPT !.host = h2] = Job(a2, c2, h2, g, r)
    BY DEF Job
<1>5. [Job(a2, c2, h2, g, r) EXCEPT !.gate = g2] = Job(a2, c2, h2, g2, r)
    BY DEF Job
<1> QED
    BY <1>1, <1>2, <1>3, <1>4, <1>5 DEF Begun

LEMMA GoSeen ==
    ASSUME NEW p, Seen' = Job(p, call.capsule, HostOf(call.net), call.gate, call.result)
    PROVE  Contract!Go(p)
<1>1. [Job(Stage, call.capsule, HostOf(call.net), call.gate, call.result) EXCEPT !.at = p]
          = Job(p, call.capsule, HostOf(call.net), call.gate, call.result)
    BY JobGoes
<1>2. Seen = Job(Stage, call.capsule, HostOf(call.net), call.gate, call.result)
    BY DEF Seen
<1>3. Seen' = [Seen EXCEPT !.at = p]
    BY <1>1, <1>2
<1> QED
    BY Zenon, <1>3 DEF Contract!Go, Seen, Job, HostOf

LEMMA FinishSeen ==
    ASSUME NEW r, Seen' = Job("outcome", call.capsule, HostOf(call.net), call.gate, r)
    PROVE  Contract!Finish(r)
<1>1. Ended(Job(Stage, call.capsule, HostOf(call.net), call.gate, call.result), "outcome", r)
          = Job("outcome", call.capsule, HostOf(call.net), call.gate, r)
    BY JobEnds
<1>2. Seen = Job(Stage, call.capsule, HostOf(call.net), call.gate, call.result)
    BY DEF Seen
<1>3. Seen' = Ended(Seen, "outcome", r)
    BY <1>1, <1>2
<1> QED
    BY Zenon, <1>3 DEF Contract!Finish, Ended, Seen, Job, HostOf

\* How a call is seen after it went on, or came to its result.
LEMMA SeenGoes ==
    ASSUME SameCall, call'.result = call.result
    PROVE  Seen' = Job(Stage', call.capsule, HostOf(call.net), call.gate, call.result)
BY DEF Seen, SameCall, HostOf

LEMMA SeenEnds ==
    ASSUME call \in Calls, NEW r \in Handled, Finish(r)
    PROVE  Seen' = Job("outcome", call.capsule, HostOf(call.net), call.gate, r)
<1>1. SameCall /\ call'.at = "outcome" /\ call'.result = r
    BY FinishIs
<1> QED
    BY <1>1 DEF Seen, SameCall, HostOf, Stage

LEMMA Ends ==
    ASSUME call \in Calls, NEW r \in Handled, Finish(r)
    PROVE  Contract!Finish(r)
BY SeenEnds, FinishSeen

\* The capsule a call is about is one that the contract allows.
LEMMA MeantIs ==
    ASSUME Typed
    PROVE  Resolve(call.capsule) \in Contract!Meant
<1>1. call.capsule \in Capsules \cup {None} /\ (compose # None => compose.capsule \in Capsules)
    BY TypedIs DEF CallInv, Calls, RestOK, Rendered
<1>2. Resolve(call.capsule) \in Capsules \cup {None}
    BY <1>1, ResolveIs, TypedIs
<1>3. CASE call.capsule # None
    BY <1>3 DEF Resolve, Contract!Meant
<1>4. CASE call.capsule = None /\ compose # None
  <2>1. [capsule |-> compose.capsule, host |-> compose.net.host] # None
    BY <1>4, SettingsAre, TypedIs DEF RestOK, Rendered
  <2> QED
    BY <1>4, <2>1 DEF Resolve, Contract!Meant
<1>5. CASE call.capsule = None /\ compose = None
    BY <1>2, <1>5 DEF Contract!Meant
<1> QED
    BY <1>3, <1>4, <1>5

LEMMA StageIs ==
    ASSUME call \in Calls
    PROVE  Stage = "idle" <=> call.at = "idle"
BY DEF Stage, Calls, Places

\* What the contract does not see.
Unseen == Seen' = Seen /\ UNCHANGED <<RenderedFor, shelf, store, containers, answer>>

LEMMA UnseenStutters ==
    ASSUME Unseen
    PROVE  UNCHANGED Contract!contract
BY Zenon DEF Unseen, Seen, Job, HostOf, RenderedFor, Contract!contract

LEMMA IdleSeen ==
    /\ Idle = call' => Seen' = Contract!Idle
    /\ Contract!Idle = Job("idle", None, None, FALSE, "none")
<1>1. Contract!Idle = Job("idle", None, None, FALSE, "none")
    BY DEF Contract!Idle, Job
<1>2. Idle = call' => Seen' = Job("idle", None, None, FALSE, "none")
    BY IdleIs DEF Seen, Stage, HostOf
<1> QED
    BY <1>1, <1>2

\* A step of a call that is being served.
Serving ==
    Contract!Settle \/ Contract!Render \/ Contract!Complete \/ Contract!Gate \/ Contract!Load
        \/ Contract!Down \/ Contract!Up \/ Contract!Answer \/ Contract!Kill

LEMMA ServingIs ==
    ASSUME call \in Calls, call.at # "idle", Serving
    PROVE  Contract!Next
<1>1. Stage # "idle"
    BY StageIs
<1> QED
    BY <1>1 DEF Serving, Contract!Next

LEMMA ConfigureSettles ==
    ASSUME Typed, Configure
    PROVE  Contract!Settle
<1>1. /\ call \in Calls /\ call.at = "configure" /\ call.net \in Settings
      /\ UNCHANGED <<compose, shelf, store, containers, answer>>
    BY TypedIs DEF Configure, CallInv, Configuring, files, host
<1>2. Stage = "configure"
    BY <1>1 DEF Stage
<1>3. CASE Finish("failed")
  <2>1. "failed" \in Handled
    BY DEF Handled
  <2>2. Contract!Finish("failed")
    BY <1>1, <1>3, <2>1, Ends
  <2> QED
    BY Zenon, <1>1, <1>2, <2>2 DEF Contract!Settle
<1>4. CASE ~Finish("failed")
  <2> DEFINE c == Resolve(call.capsule)
             place == IF call.ensure THEN "ensure" ELSE "render"
  <2>1. call' = [call EXCEPT !.at = place, !.net = Normal(Wanted), !.capsule = c] /\ c # None
    BY <1>4 DEF Configure
  <2>2. c \in Contract!Meant
    BY MeantIs
  <2>3. Normal(Wanted) \in Settings /\ Normal(Wanted).host = call.net.host
    BY <1>1, SettingsAre DEF Wanted
  <2> HIDE DEF c
  <2>4. /\ call'.at = place /\ call'.net = Normal(Wanted) /\ call'.capsule = c
        /\ call'.gate = call.gate /\ call'.result = call.result
    BY <1>1, <2>1 DEF Calls
  <2>5. Stage' = "settled" /\ HostOf(call.net)' = HostOf(call.net)
    BY <1>1, <2>3, <2>4 DEF Stage, HostOf
  <2>6. Seen' = Job("settled", c, HostOf(call.net), call.gate, call.result)
    BY <2>4, <2>5 DEF Seen, HostOf
  <2>7. Settled(Job(Stage, call.capsule, HostOf(call.net), call.gate, call.result), "settled", c)
            = Job("settled", c, HostOf(call.net), call.gate, call.result)
    BY JobSettles
  <2>8. Seen' = Settled(Seen, "settled", c)
    BY <2>6, <2>7 DEF Seen
  <2>9. c \in Contract!Meant \ {None}
    BY <2>1, <2>2
  <2> QED
    BY Zenon, <1>1, <1>2, <2>8, <2>9 DEF Contract!Settle, Settled, Seen, Job, HostOf
<1> QED
    BY <1>3, <1>4

\* The environment is written out of sight.
LEMMA SettledStays ==
    ASSUME call.at \in Ensuring, call'.at \in Ensuring \cup {"render"},
           call'.capsule = call.capsule, call'.net = call.net, call'.gate = call.gate,
           call'.result = call.result, UNCHANGED <<compose, shelf, store, containers, answer>>
    PROVE  Unseen
<1>1. Stage' = Stage
    BY DEF Stage, Ensuring
<1>2. HostOf(call.net)' = HostOf(call.net)
    BY DEF HostOf
<1>3. Seen' = Seen
    BY <1>1, <1>2 DEF Seen
<1> QED
    BY <1>3 DEF Unseen, RenderedFor

LEMMA EnsuringSteps ==
    ASSUME Typed,
           DelegateEnv \/ WriteDelegated \/ Copying \/ CheckDelegated \/ Fallback \/ WriteMinimal
               \/ (CheckMinimal /\ ~Finish("failed"))
    PROVE  Unseen
<1>0. call \in Calls /\ Ensuring \cup {"render"} \subseteq Places
    BY TypedIs DEF CallInv, Places, Ensuring
<1>1. UNCHANGED <<compose, shelf, store, containers, answer>>
    BY DEF DelegateEnv, Delegate, WriteDelegated, Write, Copying, CopyPostgres, CopyRuntime, CheckDelegated,
           Fallback, WriteMinimal, CheckMinimal, files, host
<1> DEFINE Stays == /\ call.at \in Ensuring
                    /\ call'.at \in Ensuring \cup {"render"}
                    /\ call'.capsule = call.capsule /\ call'.net = call.net
                    /\ call'.gate = call.gate /\ call'.result = call.result
<1>2. CASE DelegateEnv
  <2>1. CASE Leave("fallback")
    BY <1>0, <1>2, <2>1, <1>1, LeaveIs, SettledStays DEF DelegateEnv, Delegate, Delegating, Ensuring, SameCall
  <2>2. CASE ~Leave("fallback")
    <3>1. Stays
      BY <1>0, <1>2, <2>2 DEF DelegateEnv, Delegate, Delegating, Ensuring, Calls
    <3> QED
      BY <1>1, <3>1, SettledStays
  <2> QED
    BY <2>1, <2>2
<1>3. CASE Fallback
  <2>1. Stays
    BY <1>0, <1>3 DEF Fallback, Calls, Ensuring
  <2> QED
    BY <1>1, <2>1, SettledStays
<1>4. CASE WriteDelegated \/ WriteMinimal
  <2>1. Stays
    BY <1>0, <1>4 DEF WriteDelegated, WriteMinimal, Write, Calls, Ensuring
  <2> QED
    BY <1>1, <2>1, SettledStays
<1>5. CASE CheckDelegated \/ (CheckMinimal /\ ~Finish("failed"))
  <2>1. Stays
    BY <1>0, <1>5, LeaveIs DEF CheckDelegated, CheckMinimal, SameCall, Ensuring
  <2> QED
    BY <1>1, <2>1, SettledStays
<1>6. CASE Copying
  <2>1. Stays
    BY <1>0, <1>6, GoIs DEF Copying, CopyPostgres, CopyRuntime, SameCall, Ensuring
  <2> QED
    BY <1>1, <2>1, SettledStays
<1> QED
    BY <1>2, <1>3, <1>4, <1>5, <1>6

LEMMA WritingSteps ==
    ASSUME Typed, (CheckMinimal /\ Finish("failed")) \/ WriteCompose \/ WriteTraefik \/ Raise
    PROVE  Contract!Render \/ Contract!Complete
<1>0. /\ call \in Calls /\ {"render", "traefik"} \subseteq Places /\ {"ok", "failed"} \subseteq Handled
      /\ call.net \in Settings
    BY TypedIs DEF CallInv, Places, Handled, Configuring, CheckMinimal, WriteCompose, WriteTraefik, Raise
<1>1. CASE CheckMinimal /\ Finish("failed")
  <2>1. Stage = "settled" /\ UNCHANGED <<compose, shelf, store, containers, answer>>
    BY <1>1 DEF CheckMinimal, Stage, files, host
  <2>2. Contract!Finish("failed")
    BY <1>0, <1>1, Ends
  <2> QED
    BY Zenon, <2>1, <2>2 DEF Contract!Render
<1>2. CASE WriteCompose
  <2>1. /\ Stage = "settled" /\ UNCHANGED <<shelf, store, containers, answer>>
        /\ compose' = [net |-> call.net, capsule |-> call.capsule]
    BY <1>2 DEF WriteCompose, Stage, host
  <2>2. SameCall /\ call'.at = "traefik" /\ call'.result = call.result
    BY <1>0, <1>2, GoIs DEF WriteCompose
  <2>3. Seen' = Job("rendered", call.capsule, HostOf(call.net), call.gate, call.result)
    BY <2>2, SeenGoes DEF Stage
  <2>4. Contract!Go("rendered")
    BY <2>3, GoSeen
  <2>5. compose' # None
    <3>1. call.capsule \in Capsules
      BY <1>2, TypedIs DEF WriteCompose, CallInv, Configuring
    <3>2. compose' \in Rendered
      BY <1>0, <2>1, <3>1 DEF Rendered
    <3> QED
      BY <3>2
  <2>6. RenderedFor' = [capsule |-> call.capsule, host |-> HostOf(call.net)]
    <3>1. call.net # None
      BY <1>0
    <3> QED
      BY <2>1, <2>5, <3>1 DEF RenderedFor, HostOf
  <2>7. Contract!Render
    <3>1. Seen.capsule = call.capsule /\ Seen.host = HostOf(call.net)
      BY JobFields DEF Seen
    <3>2. RenderedFor' = [capsule |-> Seen.capsule, host |-> Seen.host] /\ Seen.at = "settled"
      BY <2>1, <2>6, <3>1, JobFields DEF Seen
    <3> QED
      BY Zenon, <2>1, <2>4, <3>2 DEF Contract!Render, RenderedFor, Seen, Job, HostOf
  <2> QED
    BY <2>7
<1>3. CASE WriteTraefik
  <2>1. Stage = "rendered" /\ UNCHANGED <<compose, shelf, store, containers, answer>>
    BY <1>3 DEF WriteTraefik, Stage, files, host
  <2>2. Contract!Finish("ok") \/ Contract!Finish("failed")
    BY <1>0, <1>3, Ends DEF WriteTraefik
  <2>3. Contract!Complete
    BY Zenon, <2>1, <2>2 DEF Contract!Complete
  <2> QED
    BY <2>3
<1>4. CASE Raise
  <2>1. Stage \in {"settled", "rendered"} /\ UNCHANGED <<compose, shelf, store, containers, answer>>
    BY <1>4 DEF Raise, Stage, files, host
  <2>2. Contract!Finish("failed")
    BY <1>0, <1>4, Ends DEF Raise
  <2>3. CASE Stage = "settled"
    BY Zenon, <2>1, <2>2, <2>3 DEF Contract!Render
  <2>4. CASE Stage = "rendered"
    BY Zenon, <2>1, <2>2, <2>4 DEF Contract!Complete
  <2> QED
    BY <2>1, <2>3, <2>4
<1> QED
    BY <1>1, <1>2, <1>3, <1>4

\* A gated start of a rendered instance is about one capsule, which all agree on.
LEMMA RenderedIs ==
    ASSUME Typed
    PROVE  compose # None => RenderedFor # None /\ RenderedFor.capsule = compose.capsule
<1> SUFFICES ASSUME compose # None
             PROVE  RenderedFor # None /\ RenderedFor.capsule = compose.capsule
    OBVIOUS
<1>1. RenderedFor = [capsule |-> compose.capsule, host |-> compose.net.host]
    BY DEF RenderedFor
<1>2. RenderedFor \in [capsule : Capsules, host : Hosts]
    BY <1>1, SettingsAre, TypedIs DEF RestOK, Rendered
<1> QED
    BY <1>1, <1>2

LEMMA GatedIs ==
    ASSUME Typed
    PROVE  /\ Contract!Gated = Checked
           /\ Contract!Gated => Contract!Meant = {Resolve(call.capsule)}
<1>1. Contract!Gated = (Seen.gate /\ RenderedFor # None)
    BY Zenon DEF Contract!Gated, Seen, Job, RenderedFor, HostOf
<1>2. Seen.gate = call.gate
    BY JobFields DEF Seen
<1>3. RenderedFor # None <=> compose # None
    BY RenderedIs DEF RenderedFor
<1>4. call.gate \in BOOLEAN
    BY TypedIs DEF CallInv, Calls
<1>5. Contract!Gated = Checked
    BY <1>1, <1>2, <1>3, <1>4 DEF Checked
<1>6. Contract!Meant = IF Seen.capsule # None THEN {Seen.capsule}
                       ELSE IF RenderedFor # None THEN {RenderedFor.capsule} ELSE Capsules \cup {None}
    BY Zenon DEF Contract!Meant, Seen, Job, RenderedFor, HostOf
<1>7. Seen.capsule = call.capsule
    BY JobFields DEF Seen
<1>8. compose # None => Contract!Meant = {Resolve(call.capsule)}
    BY <1>3, <1>6, <1>7, RenderedIs DEF Resolve
<1> QED
    BY <1>5, <1>8 DEF Checked

LEMMA GateSeen ==
    ASSUME Typed, CheckSecurity
    PROVE  Contract!Gate
<1>0. /\ call \in Calls /\ "load" \in Places /\ "blocked" \in Handled
      /\ Stage = "start" /\ UNCHANGED <<compose, shelf, store, containers, answer>>
    BY TypedIs DEF CallInv, Places, Handled, CheckSecurity, Stage, files, host
<1>1. CASE Go("load") /\ (Checked => Opened(Resolve(call.capsule)))
  <2>1. SameCall /\ call'.at = "load" /\ call'.result = call.result
    BY <1>0, <1>1, GoIs
  <2>2. Seen' = Job("load", call.capsule, HostOf(call.net), call.gate, call.result)
    BY <2>1, SeenGoes DEF Stage
  <2>3. Contract!Go("load")
    BY <2>2, GoSeen
  <2>4. Contract!Gated => \A c \in Contract!Meant : shelf[c] \in Signed
    <3>1. SUFFICES ASSUME Contract!Gated
                   PROVE  shelf[Resolve(call.capsule)] \in Signed
      BY GatedIs
    <3>2. Opened(Resolve(call.capsule))
      BY <1>1, <3>1, GatedIs
    <3> QED
      BY <3>2, OpenedIs
  <2> QED
    BY Zenon, <1>0, <2>3, <2>4 DEF Contract!Gate
<1>2. CASE Checked /\ Finish("blocked")
  <2>1. Contract!Finish("blocked")
    BY <1>0, <1>2, Ends
  <2>2. Contract!Gated
    BY <1>2, GatedIs
  <2> QED
    BY Zenon, <1>0, <2>1, <2>2 DEF Contract!Gate
<1> QED
    BY <1>1, <1>2 DEF CheckSecurity

\* A start that goes on is seen to.
LEMMA StartSeen ==
    ASSUME call \in Calls, NEW p \in {"load", "down", "up"}, Go(p)
    PROVE  Contract!Go(p)
<1>1. p \in Places
    BY DEF Places
<1>2. SameCall /\ call'.at = p /\ call'.result = call.result
    BY <1>1, GoIs
<1>3. Stage' = p
    BY <1>2 DEF Stage
<1> QED
    BY <1>2, <1>3, SeenGoes, GoSeen

LEMMA LoadSeen ==
    ASSUME Typed, LoadImages
    PROVE  Contract!Load
<1>0. /\ call \in Calls /\ "failed" \in Handled
      /\ Stage = "load" /\ UNCHANGED <<compose, shelf, containers, answer>>
    BY TypedIs DEF CallInv, Handled, LoadImages, Stage, files
<1> DEFINE c == Resolve(call.capsule)
           found == c # None /\ shelf[c] # None
<1>1. c \in Contract!Meant
    BY MeantIs
<1>2. \/ found /\ store' = shelf[c] /\ (Contract!Go("down") \/ Contract!Go("up"))
      \/ ~found /\ Contract!Go("up") /\ UNCHANGED store
      \/ Contract!Finish("failed") /\ store' \in {store} \cup IF found THEN {shelf[c]} ELSE {}
  <2>1. \/ found /\ store' = shelf[c] /\ (Go("down") \/ Go("up"))
        \/ ~found /\ Go("up") /\ UNCHANGED store
        \/ Finish("failed") /\ store' \in {store} \cup IF found THEN {shelf[c]} ELSE {}
    BY DEF LoadImages
  <2>2. Go("down") => Contract!Go("down")
    BY <1>0, StartSeen
  <2>3. Go("up") => Contract!Go("up")
    BY <1>0, StartSeen
  <2>4. Finish("failed") => Contract!Finish("failed")
    BY <1>0, Ends
  <2> QED
    BY <2>1, <2>2, <2>3, <2>4
<1> QED
    BY Zenon, <1>0, <1>1, <1>2 DEF Contract!Load

LEMMA DownSeen ==
    ASSUME Typed, ComposeDown
    PROVE  Contract!Down
<1>0. /\ call \in Calls /\ {"ok", "failed"} \subseteq Handled
      /\ call.at \in {"down", "stop"} /\ Stage = call.at /\ UNCHANGED <<compose, shelf, store, answer>>
    BY TypedIs DEF CallInv, Handled, ComposeDown, Stage, files
<1>1. Go("up") => Contract!Go("up")
    BY <1>0, StartSeen
<1>2. Finish("ok") => Contract!Finish("ok")
    BY <1>0, Ends
<1>3. Finish("failed") => Contract!Finish("failed")
    BY <1>0, Ends
<1>4. \/ /\ containers' = None
         /\ IF Stage = "down" THEN Contract!Go("up") ELSE Contract!Finish("ok")
      \/ containers' \in {containers, None} /\ Contract!Finish("failed")
    BY <1>0, <1>1, <1>2, <1>3 DEF ComposeDown
<1>5. Stage \in {"down", "stop"}
    BY <1>0
<1> QED
    BY Zenon, <1>0, <1>4, <1>5 DEF Contract!Down

LEMMA UpSeen ==
    ASSUME Typed, ComposeUp
    PROVE  Contract!Up
<1>0. /\ call \in Calls /\ {"ok", "failed"} \subseteq Handled
      /\ Stage = "up" /\ UNCHANGED <<compose, shelf, store, answer>>
    BY TypedIs DEF CallInv, Handled, ComposeUp, Stage, files
<1>1. Finish("ok") => Contract!Finish("ok")
    BY <1>0, Ends
<1>2. Finish("failed") => Contract!Finish("failed")
    BY <1>0, Ends
<1>3. \/ /\ RenderedFor # None /\ store # Unloaded
         /\ containers' = store
         /\ Contract!Finish("ok") \/ Contract!Finish("failed")
      \/ Contract!Finish("failed") /\ UNCHANGED containers
    BY <1>1, <1>2, RenderedIs DEF ComposeUp, CanCreate
<1> QED
    BY Zenon, <1>0, <1>3 DEF Contract!Up, RenderedFor

LEMMA EndSeen ==
    ASSUME Typed, RecordOutcome \/ KillAgent
    PROVE  Contract!Answer \/ Contract!Kill
<1>0. /\ call \in Calls /\ UNCHANGED <<compose, shelf, store, containers>> /\ call' = Idle
    BY TypedIs DEF CallInv, RecordOutcome, KillAgent, files, host
<1>1. Seen' = Contract!Idle
    BY <1>0, IdleSeen
<1>2. CASE RecordOutcome
  <2>1. Stage = "outcome" /\ answer' \in {call.result, "error"}
    BY <1>2 DEF RecordOutcome, Stage
  <2> QED
    BY Zenon, <1>0, <1>1, <2>1 DEF Contract!Answer, Seen, Job, HostOf
<1>3. CASE KillAgent
  <2>1. Stage # "idle" /\ UNCHANGED answer
    BY <1>0, <1>3, StageIs DEF KillAgent
  <2> QED
    BY Zenon, <1>0, <1>1, <2>1 DEF Contract!Kill, Seen, Job, HostOf
<1> QED
    BY <1>2, <1>3

\* Between two calls nothing is left of the last one.
IdleInv == call.at = "idle" => call = Idle

LEMMA NextIdle ==
    ASSUME Typed, IdleInv, [Next]_vars
    PROVE  IdleInv'
<1>0. call \in Calls
    BY TypedIs DEF CallInv
<1>1. CASE call' = Idle \/ call' = call \/ call'.at # "idle"
    BY <1>1 DEF IdleInv
<1>2. CASE Requesting
    BY <1>1, <1>2, RequestIs DEF Admitted
<1>3. CASE Refusing \/ RecordOutcome \/ KillAgent
    BY <1>1, <1>3 DEF Refusing, RefuseUnrecorded, RefuseStranger, RecordOutcome, KillAgent
<1>4. ASSUME Configure \/ DelegateEnv \/ WriteDelegated \/ Copying \/ CheckDelegated \/ Fallback
                 \/ WriteMinimal \/ CheckMinimal \/ WriteCompose \/ WriteTraefik \/ Raise
      PROVE  call'.at # "idle"
  <2>1. CASE Configure
    <3>1. CASE Finish("failed")
      BY <1>0, <3>1 DEF Calls, Finish
    <3>2. CASE ~Finish("failed")
      <4>1. call'.at = IF call.ensure THEN "ensure" ELSE "render"
        BY <1>0, <2>1, <3>2 DEF Calls, Configure
      <4> QED
        BY <4>1
    <3> QED
      BY <3>1, <3>2
  <2>2. CASE DelegateEnv \/ Fallback
    BY <1>0, <2>2 DEF Calls, Leave, DelegateEnv, Delegate, Fallback
  <2>3. CASE WriteDelegated \/ WriteMinimal
    BY <1>0, <2>3 DEF Calls, WriteDelegated, WriteMinimal, Write
  <2>4. CASE Copying \/ CheckDelegated \/ CheckMinimal \/ Raise
    BY <1>0, <2>4 DEF Calls, Go, Leave, Finish, Copying, CopyPostgres, CopyRuntime, CheckDelegated,
                      CheckMinimal, Raise
  <2>5. CASE WriteCompose \/ WriteTraefik
    BY <1>0, <2>5 DEF Calls, Go, Finish, WriteCompose, WriteTraefik
  <2> QED
    BY <1>4, <2>1, <2>2, <2>3, <2>4, <2>5
<1>5. ASSUME CheckSecurity \/ LoadImages \/ ComposeDown \/ ComposeUp
      PROVE  call'.at # "idle"
    BY <1>0, <1>5 DEF Calls, Go, Finish, CheckSecurity, LoadImages, ComposeDown, ComposeUp
<1>6. ASSUME NEW c \in Capsules, NEW b \in Builds \cup {None}, ChangeShelf(c, b)
      PROVE  IdleInv'
    BY <1>1, <1>6 DEF ChangeShelf
<1> QED
    BY <1>1, <1>2, <1>3, <1>4, <1>5, <1>6, Steps

\* Steps between two calls.
Outside ==
    \/ \E c \in Capsules \cup {None}, h \in Hosts : Contract!Begin("configure", c, h, FALSE)
    \/ \E c \in Capsules \cup {None}, gate \in BOOLEAN : Contract!Begin("start", c, None, gate)
    \/ Contract!Begin("stop", None, None, FALSE)
    \/ \E e \in Contract!Errors : Contract!Refuse(e)
    \/ \E c \in Capsules, b \in Builds \cup {None} : Contract!Shelve(c, b)

LEMMA OutsideIs ==
    ASSUME call.at = "idle", Outside
    PROVE  Contract!Next
<1>1. Stage = "idle"
    BY DEF Stage
<1> QED
    BY <1>1 DEF Outside, Contract!Next

LEMMA BeginSeen ==
    ASSUME call.at = "idle", UNCHANGED <<compose, shelf, store, containers>>, answer' = "none",
           Admitted(call')
    PROVE  Contract!Begin(call'.op, call'.capsule, HostOf(call'.net), call'.gate)
<1> DEFINE a == call'.op
           c == call'.capsule
           h == HostOf(call'.net)
           g == call'.gate
<1>1. Seen' = Job(a, c, h, g, "none")
    BY DEF Admitted, Seen, Stage, HostOf
<1>2. Stage = "idle"
    BY DEF Stage
<1> HIDE DEF a, c, h, g
<1>3. ASSUME NEW f
      PROVE  Begun(Job("idle", None, None, f, "none"), a, c, h, g) = Job(a, c, h, g, "none")
    BY JobBegins
<1>4. Begun(Job("idle", None, None, FALSE, "none"), a, c, h, g) = Job(a, c, h, g, "none")
    BY Zenon, <1>3
<1>5. Seen' = Begun(Contract!Idle, a, c, h, g)
    BY <1>1, <1>4, IdleSeen
<1>6. Contract!Begin(a, c, h, g)
    BY Zenon, <1>2, <1>5 DEF Contract!Begin, Begun, Seen, Job, HostOf
<1> QED
    BY <1>6 DEF a, c, h, g

LEMMA RefuseSeen ==
    ASSUME call.at = "idle", call' = call, UNCHANGED <<compose, shelf, store, containers>>,
           answer' \in {"unauthorized", "unavailable", "error"}
    PROVE  Outside
<1>1. Stage = "idle"
    BY DEF Stage
<1>2. Contract!Refuse(answer')
    BY Zenon, <1>1 DEF Contract!Refuse, Stage
<1>3. answer' \in Contract!Errors
    BY DEF Contract!Errors
<1> QED
    BY <1>2, <1>3 DEF Outside

LEMMA OutsideSteps ==
    ASSUME Typed, IdleInv,
           \/ Requesting \/ Refusing
           \/ \E c \in Capsules, b \in Builds \cup {None} : ChangeShelf(c, b)
    PROVE  call.at = "idle" /\ Outside
<1>1. CASE Requesting
  <2>1. call.at = "idle" /\ UNCHANGED <<compose, shelf, store, containers>>
    BY <1>1, RequestIs DEF files, host
  <2>3. CASE Admitted(call') /\ answer' = "none"
    <3>1. Contract!Begin(call'.op, call'.capsule, HostOf(call'.net), call'.gate)
      BY <2>1, <2>3, BeginSeen
    <3>2. call' \in Calls /\ call'.capsule \in Capsules \cup {None} /\ call'.gate \in BOOLEAN
      BY <2>3 DEF Admitted, Calls
    <3>3. CASE call'.op = "configure"
      <4>1. HostOf(call'.net) \in Hosts /\ call'.gate = FALSE
        BY <2>3, <3>3, SettingsAre, AskableTyped DEF Admitted, HostOf
      <4>2. Contract!Begin("configure", call'.capsule, HostOf(call'.net), FALSE)
        BY <3>1, <3>3, <4>1
      <4> QED
        BY <2>1, <3>2, <4>1, <4>2 DEF Outside
    <3>4. CASE call'.op = "start"
      <4>1. HostOf(call'.net) = None
        BY <2>3, <3>4 DEF Admitted, HostOf
      <4> QED
        BY <2>1, <3>1, <3>2, <3>4, <4>1 DEF Outside
    <3>5. CASE call'.op = "stop"
      <4>1. HostOf(call'.net) = None /\ call'.gate = FALSE /\ call'.capsule = None
        BY <2>3, <3>5 DEF Admitted, HostOf
      <4> QED
        BY <2>1, <3>1, <3>5, <4>1 DEF Outside
    <3>6. call'.op \in {"configure", "start", "stop"}
      BY <2>3 DEF Admitted
    <3> QED
      BY <2>1, <3>3, <3>4, <3>5, <3>6
  <2> QED
    BY <1>1, <2>1, <2>3, RequestIs
<1>2. CASE Refusing
    BY <1>2, RefuseSeen DEF Refusing, RefuseUnrecorded, RefuseStranger, files, host
<1>3. ASSUME NEW c \in Capsules, NEW b \in Builds \cup {None}, ChangeShelf(c, b)
      PROVE  call.at = "idle" /\ Outside
  <2>1. /\ call.at = "idle" /\ UNCHANGED <<call, compose, store, containers, answer>>
        /\ shelf' = [shelf EXCEPT ![c] = b]
    BY <1>3 DEF ChangeShelf, files, host
  <2>2. Stage = "idle"
    BY <2>1 DEF Stage
  <2>3. Contract!Shelve(c, b)
    BY Zenon, <2>1, <2>2 DEF Contract!Shelve, Stage
  <2> QED
    BY <2>1, <2>3 DEF Outside
<1> QED
    BY <1>1, <1>2, <1>3

LEMMA ServingSteps ==
    ASSUME Typed,
           \/ Configure \/ (CheckMinimal /\ Finish("failed")) \/ WriteCompose \/ WriteTraefik \/ Raise
           \/ CheckSecurity \/ LoadImages \/ ComposeDown \/ ComposeUp \/ RecordOutcome \/ KillAgent
    PROVE  Contract!Next
<1>1. call \in Calls /\ call.at # "idle"
    BY TypedIs DEF CallInv, Configure, CheckMinimal, WriteCompose, WriteTraefik, Raise, CheckSecurity, LoadImages,
                   ComposeDown, ComposeUp, RecordOutcome, KillAgent
<1>2. Serving
    BY ConfigureSettles, WritingSteps, GateSeen, LoadSeen, DownSeen, UpSeen, EndSeen DEF Serving
<1> QED
    BY <1>1, <1>2, ServingIs

LEMMA StepKeepsContract ==
    ASSUME Typed, IdleInv, [Next]_vars
    PROVE  [Contract!Next]_(Contract!contract)
<1>1. CASE UNCHANGED <<call, files, host, shelf, audit, answer>>
  <2>1. UNCHANGED <<call, compose, shelf, store, containers, answer>>
    BY <1>1 DEF files, host
  <2>2. Unseen
    BY <2>1 DEF Unseen, Seen, HostOf, RenderedFor, Stage
  <2> QED
    BY <2>2, UnseenStutters
<1>2. CASE \/ Requesting \/ Refusing
           \/ \E c \in Capsules, b \in Builds \cup {None} : ChangeShelf(c, b)
    BY <1>2, OutsideSteps, OutsideIs
<1>3. CASE DelegateEnv \/ WriteDelegated \/ Copying \/ CheckDelegated \/ Fallback \/ WriteMinimal
               \/ (CheckMinimal /\ ~Finish("failed"))
    BY <1>3, EnsuringSteps, UnseenStutters
<1>4. CASE \/ Configure \/ (CheckMinimal /\ Finish("failed")) \/ WriteCompose \/ WriteTraefik \/ Raise
           \/ CheckSecurity \/ LoadImages \/ ComposeDown \/ ComposeUp \/ RecordOutcome \/ KillAgent
    BY <1>4, ServingSteps
<1> QED
    BY <1>1, <1>2, <1>3, <1>4, Steps

\* Whatever writers, refusals, kills and half-written files a call goes
\* through, its callers see the steps of InstanceContract and no others.
THEOREM ContractKept == Spec => KeepsContract
<1>1. Init => Contract!Init
  <2> SUFFICES ASSUME Init PROVE Contract!Init
    OBVIOUS
  <2>1. Seen = Job("idle", None, None, FALSE, "none")
    BY IdleIs DEF Init, Seen, Stage, HostOf
  <2>2. Seen = Contract!Idle
    BY <2>1, IdleSeen
  <2>3. RenderedFor = None
    BY DEF Init, RenderedFor
  <2>4. shelf = [c \in Capsules |-> None] /\ store = Unloaded /\ containers = None /\ answer = "none"
    BY DEF Init
  <2> QED
    BY Zenon, <2>2, <2>3, <2>4 DEF Contract!Init, Seen, Job, HostOf, RenderedFor
<1>2. Init => IdleInv
    BY DEF Init, IdleInv
<1>3. Typed /\ IdleInv /\ [Next]_vars => IdleInv'
    BY NextIdle
<1>4. Typed /\ IdleInv /\ [Next]_vars => [Contract!Next]_(Contract!contract)
    BY StepKeepsContract
<1> QED
    BY <1>1, <1>2, <1>3, <1>4, Types, PTL DEF Spec, KeepsContract, Contract!Spec
=============================================================================

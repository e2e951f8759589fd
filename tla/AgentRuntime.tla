---------------------------- MODULE AgentRuntime ----------------------------
(***************************************************************************)
(* The Agent and the runtime of one instance: the audited boundary of its  *)
(* API (src/kx_agent/api.py), the handlers that configure, start and stop  *)
(* the instance (actions.py), the writers of its environment, compose and  *)
(* Traefik files (runtime/compose.py, instances/secrets.py), and what the  *)
(* containers and the database keep of them.                               *)
(*                                                                         *)
(* Handlers run one at a time and to their end, unless the process is      *)
(* killed, which can happen between any two steps.  The files are written  *)
(* one after the other, each atomically, and writing any may fail.         *)
(***************************************************************************)
EXTENDS Exposure, SecurityGate, Sequences

CONSTANTS
    Capsules, DefaultCapsule,   \* DEFAULT_CAPSULE_ID is one of them
    Builds, Signed, Unloaded,   \* contents of capsules, those that verify; none are loaded
    Passwords, Placeholder,     \* generated ones; what DATABASE_ENV_DEFAULTS has for one
    Requests,                   \* settings that callers ask for
    RequireToken, RequireAudit, \* KX_REQUIRE_AGENT_TOKEN, KX_REQUIRE_AGENT_AUDIT
    None

ASSUME AgentAssumption ==
    /\ DefaultCapsule \in Capsules
    /\ Signed \subseteq Builds /\ Unloaded \notin Builds
    /\ Requests \subseteq Settings
    /\ RequireToken \in BOOLEAN /\ RequireAudit \in BOOLEAN
    /\ Placeholder \notin Passwords \cup {None}

VARIABLES
    call,        \* the request being served
    env,         \* the files of the instance's env/ directory
    mirror,      \* passwords that the copies in state/env/ hold
    compose,     \* what docker-compose.runtime.yml was rendered for
    traefik,     \* host that Traefik's dynamic file routes, which it reads at once
    containers,  \* build that the containers run
    db,          \* password that the database was initialised with
    shelf,       \* builds of the extracted capsules
    store,       \* build that Docker has under the image tags, which capsules share
    audit,       \* outcome of the call's last audit record
    answer       \* what the last caller was told

files == <<env, mirror, compose, traefik>>
host == <<containers, db, store>>
vars == <<call, files, host, shelf, audit, answer>>

-----------------------------------------------------------------------------
(* The environment files.  A field is None in a file that does not have it.*)
(* redis.env and frontend.env, which have none of them, are left out.      *)

DelegateOrder == <<"kx", "django", "postgres", "runtime">>
FallbackOrder == <<"kx", "postgres", "django", "runtime">>
Files == {DelegateOrder[i] : i \in 1..4}

Contents == [net : Settings \cup {None}, capsule : Capsules \cup {None},
             pw : Passwords \cup {None}, url : Passwords \cup {Placeholder, None}]
Blank == [net |-> None, capsule |-> None, pw |-> None, url |-> None]
Rendered == [net : Settings, capsule : Capsules]

ASSUME NoneAssumption ==
    None \notin Capsules \cup Builds \cup Passwords \cup Settings \cup Contents \cup Rendered
                   \cup [capsule : Capsules, host : Hosts]

DefaultNet == [profile |-> "intranet_private", mode |-> "private", public |-> FALSE,
               expires |-> "none", host |-> "loopback"]

\* build_env_files: postgres.env keeps the default DATABASE_URL.
Delegated(f, b) ==
    CASE f = "kx"       -> [Blank EXCEPT !.net = b.net, !.capsule = b.capsule]
      [] f = "django"   -> [Blank EXCEPT !.url = b.url]
      [] f = "postgres" -> [Blank EXCEPT !.pw = b.pw, !.url = Placeholder]
      [] f = "runtime"  -> b

\* _write_minimal_instance_env_files
Minimal(f, b) ==
    CASE f = "kx"       -> [Blank EXCEPT !.net = b.net, !.capsule = b.capsule]
      [] f = "postgres" -> [Blank EXCEPT !.pw = b.pw]
      [] f = "django"   -> [b EXCEPT !.net = None]
      [] f = "runtime"  -> b

\* load_instance_env: files in this order, a later one wins.
ReadOrder == <<"kx", "django", "postgres", "runtime">>
Having(field) == {i \in 1..4 : env[ReadOrder[i]] # None /\ env[ReadOrder[i]][field] # None}
Merged(field) ==
    IF Having(field) = {} THEN None
    ELSE env[ReadOrder[CHOOSE i \in Having(field) : \A j \in Having(field) : j <= i]][field]

\* read_existing_instance_env_values: a copy is read after the file it copies.
Known(f) == IF mirror[f] # None \/ env[f] = None THEN mirror[f] ELSE env[f].pw
Knowing == {i \in 1..4 : Known(ReadOrder[i]) # None}
Preserved ==
    IF Knowing = {} THEN None
    ELSE Known(ReadOrder[CHOOSE i \in Knowing : \A j \in Knowing : j <= i])

\* _env_files_completeness: a placeholder in DATABASE_URL counts as a value.
Complete(wanted) ==
    /\ \A f \in Files : env[f] # None
    /\ Merged("pw") # None /\ Merged("url") # None
    /\ Merged("net").host = wanted

InUse == {db} \cup {mirror[f] : f \in Files} \cup {env[f].pw : f \in {g \in Files : env[g] # None}}
              \cup {env[f].url : f \in {g \in Files : env[g] # None}}
Fresh == Passwords \ InUse

-----------------------------------------------------------------------------
(* The audited boundary of the API.                                        *)

Idle == [at |-> "idle", op |-> "none", capsule |-> None, net |-> None, plan |-> FALSE,
         ensure |-> FALSE, gate |-> FALSE,
         attempt |-> 1, bundle |-> Blank, todo |-> <<>>, result |-> "none"]

Init ==
    /\ call = Idle
    /\ env = [f \in Files |-> None] /\ mirror = [f \in Files |-> None]
    /\ compose = None /\ traefik = None
    /\ containers = None /\ db = None /\ store = Unloaded
    /\ shelf = [c \in Capsules |-> None]
    /\ audit = "none" /\ answer = "none"

Go(place) == call' = [call EXCEPT !.at = place]
Leave(place) == call' = [call EXCEPT !.at = place, !.attempt = 1, !.bundle = Blank, !.todo = <<>>]
Finish(result) == call' = [call EXCEPT !.at = "outcome", !.result = result,
                                       !.attempt = 1, !.bundle = Blank, !.todo = <<>>]

\* Mutant of Admit: a log that cannot be written does not stop the call.
AdmitAnyway(request) ==
    /\ call' = [request EXCEPT !.at = request.op]
    /\ audit' \in {"none", "started"}
    /\ answer' = "none"

\* The handler runs once its start is recorded.
Admit(request) ==
    /\ call' = [request EXCEPT !.at = request.op]
    /\ audit' = IF RequireAudit THEN "started" ELSE "none"
    /\ answer' = "none"

Receive(request) ==
    /\ call.at = "idle"
    /\ Admit(request)
    /\ UNCHANGED <<files, host, shelf>>

\* Any call is refused if its start cannot be recorded.
RefuseUnrecorded ==
    /\ call.at = "idle" /\ RequireAudit
    /\ audit' = "none" /\ answer' = "unavailable"
    /\ UNCHANGED <<call, files, host, shelf>>

\* A call without the token is refused, and recorded if it can be.
RefuseStranger ==
    /\ call.at = "idle" /\ RequireToken
    /\ \/ answer' = "unauthorized" /\ audit' = IF RequireAudit THEN "blocked" ELSE "none"
       \/ RequireAudit /\ answer' = "error" /\ audit' = "none"
    /\ UNCHANGED <<call, files, host, shelf>>

\* The request models let a caller of create or set-profile choose a setting; a
\* call to update, disable-public or expire-temporary-public has only defaults.
\* Create and update never overwrite the environment, the others do ("plan").
RequestConfigure(net, capsule, plan, ensure) ==
    Receive([Idle EXCEPT !.op = "configure", !.net = net, !.capsule = capsule,
                         !.plan = plan, !.ensure = ensure])

RequestCreate(net, capsule, ensure) ==
    ApiAccepts(net) /\ RequestConfigure(net, capsule, FALSE, ensure)
RequestUpdate(capsule) == RequestConfigure(CreateDefault, capsule, FALSE, TRUE)
RequestProfile(net, capsule) == ApiAccepts(net) /\ RequestConfigure(net, capsule, TRUE, TRUE)
RequestPrivate == RequestConfigure(PrivateFallback("loopback"), None, TRUE, TRUE)
RequestStart(capsule, gate) ==
    Receive([Idle EXCEPT !.op = "start", !.capsule = capsule, !.gate = gate])
RequestStop == Receive([Idle EXCEPT !.op = "stop"])

\* A handler's failure is a result, which the API answers with status 200;
\* if the record cannot be written the caller only sees an error.
RecordOutcome ==
    /\ call.at = "outcome"
    /\ call' = Idle
    /\ \/ answer' = call.result /\ audit' = IF RequireAudit THEN "succeeded" ELSE audit
       \/ RequireAudit /\ answer' = "error" /\ UNCHANGED audit
    /\ UNCHANGED <<files, host, shelf>>

\* Whatever was written stays.
KillAgent ==
    /\ call.at # "idle"
    /\ call' = Idle
    /\ UNCHANGED <<files, host, shelf, audit, answer>>

-----------------------------------------------------------------------------
(* instance.create, instance.update, network.set_profile, .disable_public, *)
(* .expire_temporary_public: write_runtime_compose.                        *)

\* _resolve_capsule_id: the caller's, the compose file's, the environment's.
Resolve(capsule) ==
    CASE capsule # None -> capsule
      [] capsule = None /\ compose # None -> compose.capsule
      [] OTHER -> IF env["kx"] = None THEN None ELSE env["kx"].capsule

Wanted == IF call.plan THEN Plan(call.net) ELSE call.net

\* Mutant of Configure: a capsule is not required.
ConfigureUnresolved ==
    /\ call.at = "configure"
    /\ IF (call.plan => Plannable(call.net)) /\ Renderable(Wanted)
       THEN call' = [call EXCEPT !.at = IF call.ensure THEN "ensure" ELSE "render",
                                 !.net = Normal(Wanted), !.capsule = Resolve(call.capsule)]
       ELSE Finish("failed")
    /\ UNCHANGED <<files, host, shelf, audit, answer>>

Configure ==
    /\ call.at = "configure"
    /\ IF /\ call.plan => Plannable(call.net)
          /\ Resolve(call.capsule) # None
          /\ Renderable(Wanted)
       THEN call' = [call EXCEPT !.at = IF call.ensure THEN "ensure" ELSE "render",
                                 !.net = Normal(Wanted), !.capsule = Resolve(call.capsule)]
       ELSE Finish("failed")
    /\ UNCHANGED <<files, host, shelf, audit, answer>>

\* SecretGenerationPolicy.validate
PolicyValid(net) == net.public => net.host # "loopback"

\* preserve_existing_secrets, _existing_or_new_secret
Keep(password) == IF password # None THEN {password} ELSE Fresh

\* _try_delegate_env_file_creation calls the writer of secrets.py in four ways,
\* until one does not raise: in full, with fewer arguments, in full again, and
\* with the name of the instance only, by which it never overwrites.
Asked(n) ==
    CASE n \in {1, 3} -> call.net
      [] n = 2 -> [call.net EXCEPT !.public = AsksForPublic(call.net.profile, call.net.mode),
                                   !.expires = "none"]
      [] n = 4 -> DefaultNet

\* It raises before it writes if the policy is invalid, or at kx.env, the first
\* file of both writers, if that is there and not to be overwritten.
Creates == env["kx"] = None
Writable(n) == PolicyValid(Asked(n)) /\ (Creates \/ (call.plan /\ n # 4))
Bundle(n, password) ==
    [net     |-> Asked(n),
     capsule |-> IF n \in {1, 3} THEN call.capsule ELSE DefaultCapsule,
     pw      |-> password,
     url     |-> password]

\* Whatever a call of it raises is swallowed, and what it wrote stays, for the
\* next.  (A write that fails with its file in place is a write and then this.)
Delegating == {"delegate", "mirror", "mirrored"}
Delegate(passwords, otherwise) ==
    /\ call.at \in {"ensure"} \cup Delegating
    /\ LET left == {n \in call.attempt..4 : Writable(n)}
       IN  \/ \E n \in left, p \in passwords :
                /\ \A m \in left : n <= m
                /\ call' = [call EXCEPT !.at = "delegate", !.attempt = n + 1, !.todo = DelegateOrder,
                                       !.bundle = Bundle(n, p)]
           \/ left = {} /\ Leave(otherwise)
    /\ UNCHANGED <<files, host, shelf, audit, answer>>

\* Mutants of DelegateEnv: existing passwords are not looked for; files that
\* exist and are not to be overwritten are left alone.
DelegateAnew == Delegate(Fresh, "fallback")
DelegateOrLeave == Delegate(Keep(Preserved), "render")

DelegateEnv == Delegate(Keep(Preserved), "fallback")

Write(place, contents) ==
    /\ call.at = place /\ call.todo # <<>>
    /\ env' = [env EXCEPT ![Head(call.todo)] = contents[Head(call.todo)]]
    /\ call' = [call EXCEPT !.todo = Tail(@)]
    /\ UNCHANGED <<mirror, compose, traefik, host, shelf, audit, answer>>

WriteDelegated == Write("delegate", [f \in Files |-> Delegated(f, call.bundle)])

\* Then the copies, in the same order; those without a password are left out.
CopyPostgres ==
    /\ call.at = "delegate" /\ call.todo = <<>>
    /\ mirror' = [mirror EXCEPT !["postgres"] = call.bundle.pw]
    /\ Go("mirror")
    /\ UNCHANGED <<env, compose, traefik, host, shelf, audit, answer>>

CopyRuntime ==
    /\ call.at = "mirror"
    /\ mirror' = [mirror EXCEPT !["runtime"] = call.bundle.pw]
    /\ Go("mirrored")
    /\ UNCHANGED <<env, compose, traefik, host, shelf, audit, answer>>

CheckDelegated ==
    /\ call.at = "mirrored"
    /\ Leave(IF Complete(call.net.host) THEN "render" ELSE "fallback")
    /\ UNCHANGED <<files, host, shelf, audit, answer>>

\* The fallback keeps a password and, separately, a URL.
Fallback ==
    /\ call.at = "fallback"
    /\ \E p \in Keep(Merged("pw")) :
          call' = [call EXCEPT !.at = "minimal", !.todo = FallbackOrder,
             !.bundle = [net |-> call.net, capsule |-> call.capsule, pw |-> p,
                         url |-> IF Merged("url") # None THEN Merged("url") ELSE p]]
    /\ UNCHANGED <<files, host, shelf, audit, answer>>

WriteMinimal == Write("minimal", [f \in Files |-> Minimal(f, call.bundle)])

CheckMinimal ==
    /\ call.at = "minimal" /\ call.todo = <<>>
    /\ IF Complete(call.net.host) THEN Leave("render") ELSE Finish("failed")
    /\ UNCHANGED <<files, host, shelf, audit, answer>>

WriteCompose ==
    /\ call.at = "render"
    /\ compose' = [net |-> call.net, capsule |-> call.capsule]
    /\ Go("traefik")
    /\ UNCHANGED <<env, mirror, traefik, host, shelf, audit, answer>>

\* What is read back for the answer may fail once everything is written.
WriteTraefik ==
    /\ call.at = "traefik"
    /\ traefik' = call.net.host
    /\ Finish("ok") \/ Finish("failed")
    /\ UNCHANGED <<env, mirror, compose, host, shelf, audit, answer>>

\* Anything raised elsewhere, by a write or a directory that cannot be made,
\* ends the call, after any number of its files.
Raise ==
    /\ call.at \in {"ensure", "fallback", "minimal", "render", "traefik"}
    /\ Finish("failed")
    /\ UNCHANGED <<files, host, shelf, audit, answer>>

-----------------------------------------------------------------------------
(* instance.start and instance.stop.                                       *)

Services(net) ==
    {[name |-> n, image |-> n, privileges |-> {},
      ports |-> IF n = "traefik" THEN {b.port : b \in Bindings(net)} ELSE {}] :
        n \in {"traefik", "frontend-next", "django-api", "postgres", "redis", "media-nginx"}}

\* The context the handler collects, on a host with or without a firewall and
\* backups.  Capsules name the same images; those of a missing one are unknown.
GateContext(capsule, firewall, backup) ==
    LET found == capsule # None /\ shelf[capsule] # None
        good == found /\ shelf[capsule] \in Signed
    IN  [signature |-> good, checksums |-> good, manifest |-> found,
         secrets |-> IF Merged("pw") # None /\ Merged("url") # None THEN "generated" ELSE "missing",
         services |-> Services(compose.net),
         allowed |-> IF found THEN {s.image : s \in Services(compose.net)} ELSE {},
         firewall |-> firewall, backup |-> backup, relaxed |-> {}]

\* Without a compose file the gate is skipped.
Checked == call.gate /\ compose # None
Opened(capsule) == \E firewall, backup \in BOOLEAN : GatePasses(GateContext(capsule, firewall, backup))

\* Mutant of CheckSecurity: a capsule that is not there is not an offence.
CheckSecurityOfFound ==
    /\ call.at = "start"
    /\ LET capsule == Resolve(call.capsule)
       IN  \/ (Checked /\ shelf[capsule] # None => Opened(capsule)) /\ Go("load")
           \/ Checked /\ Finish("blocked")
    /\ UNCHANGED <<files, host, shelf, audit, answer>>

\* Evidence that cannot be written blocks, too.
CheckSecurity ==
    /\ call.at = "start"
    /\ \/ (Checked => Opened(Resolve(call.capsule))) /\ Go("load")
       \/ Checked /\ Finish("blocked")
    /\ UNCHANGED <<files, host, shelf, audit, answer>>

\* Mutant of LoadImages: images that Docker already has are not loaded again.
LoadMissing ==
    /\ call.at = "load"
    /\ LET capsule == Resolve(call.capsule)
       IN  \/ /\ capsule # None /\ shelf[capsule] # None
              /\ store' = IF store = Unloaded THEN shelf[capsule] ELSE store
              /\ Go("down")
           \/ Finish("failed") /\ UNCHANGED store
    /\ UNCHANGED <<files, containers, db, shelf, audit, answer>>

\* Docker may be missing.  The caller can keep the containers from being taken
\* down after a load, and none are if nothing was loaded.
LoadImages ==
    /\ call.at = "load"
    /\ LET capsule == Resolve(call.capsule)
           found == capsule # None /\ shelf[capsule] # None
       IN  \/ found /\ store' = shelf[capsule] /\ (Go("down") \/ Go("up"))
           \/ ~found /\ Go("up") /\ UNCHANGED store
           \/ Finish("failed") /\ store' \in {store} \cup IF found THEN {shelf[capsule]} ELSE {}
    /\ UNCHANGED <<files, containers, db, shelf, audit, answer>>

\* A command may fail having done its work; it needs the compose file.
ComposeDown ==
    /\ call.at \in {"down", "stop"}
    /\ \/ /\ compose # None
          /\ containers' = None
          /\ IF call.at = "down" THEN Go("up") ELSE Finish("ok")
       \/ /\ containers' \in {containers} \cup IF compose # None THEN {None} ELSE {}
          /\ Finish("failed")
    /\ UNCHANGED <<files, db, store, shelf, audit, answer>>

\* Containers are created from the compose file and the env files that it
\* names; Postgres initialises an empty database with postgres.env.
CanCreate ==
    /\ compose # None /\ store # Unloaded
    /\ \A f \in {"kx", "django", "postgres"} : env[f] # None

ComposeUp ==
    /\ call.at = "up"
    /\ \/ /\ CanCreate
          /\ containers' = store
          /\ db' = IF db = None THEN env["postgres"].pw ELSE db
          /\ Finish("ok") \/ Finish("failed")
       \/ UNCHANGED <<containers, db>> /\ Finish("failed")
    /\ UNCHANGED <<files, store, shelf, audit, answer>>

\* A capsule is imported, replaced or lost, between two calls.
ChangeShelf(capsule, build) ==
    /\ call.at = "idle"
    /\ shelf' = [shelf EXCEPT ![capsule] = build]
    /\ UNCHANGED <<call, files, host, audit, answer>>

-----------------------------------------------------------------------------
Next ==
    \/ \E net \in Requests, c \in Capsules, ensure \in BOOLEAN : RequestCreate(net, c, ensure)
    \/ \E c \in Capsules : RequestUpdate(c)
    \/ \E net \in Requests, c \in Capsules \cup {None} : RequestProfile(net, c)
    \/ RequestPrivate
    \/ \E c \in Capsules \cup {None}, gate \in BOOLEAN : RequestStart(c, gate)
    \/ RequestStop
    \/ RefuseUnrecorded \/ RefuseStranger \/ RecordOutcome \/ KillAgent
    \/ Configure \/ DelegateEnv \/ WriteDelegated \/ CopyPostgres
    \/ CopyRuntime \/ CheckDelegated
    \/ Fallback \/ WriteMinimal \/ CheckMinimal \/ WriteCompose \/ WriteTraefik \/ Raise
    \/ CheckSecurity \/ LoadImages \/ ComposeDown \/ ComposeUp
    \/ \E c \in Capsules, b \in Builds \cup {None} : ChangeShelf(c, b)

Spec == Init /\ [][Next]_vars

-----------------------------------------------------------------------------
(* Properties.                                                             *)

Places == {"idle", "configure", "start", "stop", "ensure", "delegate", "mirror",
           "mirrored", "fallback", "minimal", "render", "traefik", "load", "down", "up", "outcome"}
Handled == {"ok", "failed", "blocked"}

CallOK ==
    /\ call.at \in Places /\ call.op \in {"none", "configure", "start", "stop"}
    /\ call.capsule \in Capsules \cup {None} /\ call.net \in Settings \cup {None}
    /\ {call.plan, call.ensure, call.gate} \subseteq BOOLEAN
    /\ call.attempt \in 1..5 /\ call.bundle \in Contents /\ call.result \in Handled \cup {"none"}
    /\ \E n \in 0..4 : call.todo \in {SubSeq(DelegateOrder, n + 1, 4), SubSeq(FallbackOrder, n + 1, 4)}

\* Type correctness of the request, the files and what runs.
TypeOK ==
    /\ CallOK
    /\ env \in [Files -> Contents \cup {None}]
    /\ mirror \in [Files -> Passwords \cup {None}] /\ db \in Passwords \cup {None}
    /\ compose \in Rendered \cup {None} /\ traefik \in Hosts \cup {None}
    /\ containers \in Builds \cup {None} /\ shelf \in [Capsules -> Builds \cup {None}]
    /\ store \in Builds \cup {Unloaded}
    /\ audit \in {"none", "started", "blocked", "succeeded"}
    /\ answer \in Handled \cup {"none", "unauthorized", "unavailable", "error"}

\* The password that Postgres is given is the one its data was initialised
\* with, whichever writers ran or died half-way since: a database outlives
\* every overwrite of the environment (secrets.py, preserve_existing_secrets).
PasswordKept == db # None => env["postgres"] # None /\ env["postgres"].pw = db

\* When a call that ensures the environment is about to succeed, all files
\* exist, and the environment, the compose file and Traefik's file are for the
\* host it asked for (compose.py, write_runtime_compose).
AppliedIsWhole ==
    call.at = "outcome" /\ call.op = "configure" /\ call.result = "ok" =>
        /\ compose = [net |-> call.net, capsule |-> call.capsule]
        /\ traefik = compose.net.host
        /\ call.ensure => Complete(compose.net.host)

\* What a gated start brings up is the build that the gate verified, though
\* capsules share image tags and the shelf changes between starts.
GatedStartRunsVerified ==
    [][call.at = "up" /\ call.gate /\ call'.result = "ok" =>
          LET capsule == Resolve(call.capsule)
          IN  shelf[capsule] \in Signed /\ containers' = shelf[capsule]]_vars

\* With auditing required nothing is changed before the call is recorded, and
\* a call answered by its handler has its outcome recorded (api.py).
ChangesAreRecorded ==
    [][RequireAudit =>
          /\ <<files, host>>' # <<files, host>> => audit = "started"
          /\ answer' # answer /\ answer' \in Handled => audit = "started" /\ audit' = "succeeded"]_vars

-----------------------------------------------------------------------------
(* The contract, which leaves out the environment, the database, Traefik's *)
(* file and the audit.                                                     *)

Stage ==
    CASE call.at \in {"ensure", "delegate", "mirror", "mirrored", "fallback",
                  "minimal", "render"} -> "settled"
      [] call.at = "traefik" -> "rendered"
      [] OTHER -> call.at

Contract == INSTANCE InstanceContract WITH
    job <- [at |-> Stage, capsule |-> call.capsule,
            host |-> IF call.net = None THEN None ELSE call.net.host,
            gate |-> call.gate, result |-> call.result],
    rendered <- IF compose = None THEN None
                ELSE [capsule |-> compose.capsule, host |-> compose.net.host],
    loaded <- store, running <- containers, reply <- answer

\* Whatever writers, refusals, kills and half-written files a call goes
\* through, its callers see the steps of InstanceContract and no others.
KeepsContract == Contract!Spec

-----------------------------------------------------------------------------
(* What documents promise and the code does not keep (README, Divergences).*)

\* Django and the workers read kx.env, django.env and postgres.env in
\* this order, and reach the database with the DATABASE_URL they end up with.
DjangoUrl == IF env["postgres"].url # None THEN env["postgres"].url ELSE env["django"].url
DjangoConnects == containers # None /\ call.at = "idle" => DjangoUrl = db

\* An action that was blocked or failed is not recorded as succeeded.
AuditIsTrue == answer \in {"blocked", "failed"} => audit # "succeeded"

\* The runtime environment names the profile that was rendered.
EnvironmentNamesProfile ==
    call.at = "outcome" /\ call.op = "configure" /\ call.result = "ok" /\ call.ensure =>
        env["kx"].net = compose.net

\* A plan that reverted to private mode is not rendered as a public one.
RevertedIsPrivate == compose # None => (compose.net.expires = "over" => ~compose.net.public)
=============================================================================

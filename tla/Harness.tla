------------------------------ MODULE Harness -------------------------------
(***************************************************************************)
(* What a process does around its stores: build_runtime, which opens an    *)
(* event store and a graph store, loads packs from a checkout and hands    *)
(* both stores to a SurrealPackRuntime (harness.py); import_pack, which    *)
(* reads and changes sys.path and sys.modules; and the polls for a server  *)
(* that starts or stops (runtime.py).  Every step may raise, the teardown  *)
(* of a connection too, and the question is what is left behind.           *)
(*                                                                         *)
(* One thread runs the calls.  While it holds a handle it may go on        *)
(* importing packs and close the handle; a second build_runtime, or a      *)
(* wait, while a handle is held is left out.  A socket stands for a        *)
(* connection and its session (connection.py); closing it always releases  *)
(* the socket, and may raise because close_session, which is called first, *)
(* does.                                                                   *)
(***************************************************************************)
EXTENDS Integers, Sequences, SequencesExt

CONSTANTS Roots,        \* pack checkouts, each with a regular package packs
          Packs,        \* the modules of the packs package
          Provides,     \* the modules that can be imported from a checkout
          ModuleLists,  \* the lists of modules a runtime is built with
          Polls,        \* bound: the polls before the deadline of a wait
          None

ASSUME HarnessAssumption ==
    /\ Provides \in [Roots -> SUBSET Packs]
    /\ ModuleLists \subseteq Seq(Packs)
    /\ Polls \in Nat
    /\ None \notin Roots

VARIABLES
    sys_path,   \* the checkouts in sys.path
    package,    \* the checkout of the cached package packs, or None
    modules,    \* the checkouts of the cached modules packs.<name>, or None
    pc,         \* where the thread is
    store,      \* the store under construction
    sockets,    \* the sockets that are open
    stack,      \* the callbacks of the ExitStack, the last one first
    job,        \* the checkout and the modules build_runtime still has to load
    loaded,     \* the packs of the runtime, with the checkout they came from
    polls,      \* polls made by the wait at hand
    outcome     \* how the last call ended

imports == <<sys_path, package, modules>>
vars == <<sys_path, package, modules, pc, store, sockets, stack, job, loaded,
          polls, outcome>>

\* Every variable ranges over the values the code gives it; a checkout is in
\* sys.path once.
TypeOK ==
    /\ sys_path \in Seq(Roots)
    /\ \A i, j \in DOMAIN sys_path : sys_path[i] = sys_path[j] => i = j
    /\ package \in Roots \cup {None}
    /\ modules \in [Packs -> Roots \cup {None}]
    /\ pc \in {"idle", "connect", "signin", "construct", "assemble", "load",
               "unwind", "held", "until_ready", "until_unavailable"}
    /\ store \in {"event", "graph"}
    /\ sockets \subseteq {"event", "graph", "probe"}
    /\ stack \in {<<>>, <<"event">>, <<"graph", "event">>}
    /\ job \in [root : Roots, modules : Seq(Packs)] \cup {None}
    /\ loaded \subseteq Packs \X Roots
    /\ polls \in 0 .. Polls
    /\ outcome \in {"none", "ok", "raised", "TimeoutError"}

Init ==
    /\ sys_path = <<>> /\ package = None /\ modules = [m \in Packs |-> None]
    /\ pc = "idle" /\ store = "event"
    /\ sockets = {} /\ stack = <<>>
    /\ job = None /\ loaded = {}
    /\ polls = 0 /\ outcome = "none"

Goto(p) == pc' = p /\ outcome' = "none"
Ends(o) == pc' = "idle" /\ outcome' = o

-----------------------------------------------------------------------------
(* import_pack                                                             *)

\* Variant: the checkout is inserted whether or not it is there.
EnsureImportable_Again(r) == <<r>> \o sys_path

\* _ensure_importable: a checkout that is there stays where it is.
EnsureImportable(r) ==
    IF Contains(sys_path, r) THEN sys_path ELSE <<r>> \o sys_path

\* Variant: only the package itself is dropped.
EvictForeignPacks_PackageOnly(r) ==
    [package |-> IF package = r THEN r ELSE None, modules |-> modules]

\* _evict_foreign_packs: sys.modules without a package of another checkout.
EvictForeignPacks(r) ==
    IF package \in {None, r}
    THEN [package |-> package, modules |-> modules]
    ELSE [package |-> None, modules |-> [m \in Packs |-> None]]

\* The import system: a package that is not cached is found in the first
\* checkout of sys.path, and its modules where it was found.
ImportModule(m, path, kept) ==
    LET found == IF kept.package = None THEN Head(path) ELSE kept.package
    IN  [package |-> found,
         modules |-> IF kept.modules[m] = None /\ m \in Provides[found]
                     THEN [kept.modules EXCEPT ![m] = found]
                     ELSE kept.modules]

\* import_pack raised when modules'[m] is None.
Import(m, r) ==
    LET path == EnsureImportable(r)
        after == ImportModule(m, path, EvictForeignPacks(r))
    IN  /\ sys_path' = path
        /\ package' = after.package
        /\ modules' = after.modules

\* A call of import_pack on its own, with or without a runtime at hand.
ImportPack(m, r) ==
    /\ pc \in {"idle", "held"}
    /\ Import(m, r)
    /\ outcome' = IF modules'[m] = None THEN "raised" ELSE "ok"
    /\ UNCHANGED <<pc, store, sockets, stack, job, loaded, polls>>

-----------------------------------------------------------------------------
(* build_runtime and SurrealPackRuntime.close                              *)

BuildRuntime(r, ms) ==
    /\ pc = "idle"
    /\ Goto("connect")
    /\ store' = "event"
    /\ job' = [root |-> r, modules |-> ms]
    /\ UNCHANGED <<imports, sockets, stack, loaded, polls>>

\* Surreal(endpoint) opens the socket, or raises without one.
Connect ==
    /\ pc = "connect"
    /\ \/ Goto("signin") /\ sockets' = sockets \cup {store}
       \/ Goto("unwind") /\ UNCHANGED sockets
    /\ UNCHANGED <<imports, store, stack, job, loaded, polls>>

\* The rest of SurrealConnection.__init__, which closes what it opened.
SignIn ==
    /\ pc = "signin"
    /\ \/ Goto("construct") /\ UNCHANGED sockets
       \/ Goto("unwind") /\ sockets' = sockets \ {store}
    /\ UNCHANGED <<imports, store, stack, job, loaded, polls>>

\* The rest of the store's constructor, which closes its connection when it
\* raises, and the callback that build_runtime registers when it does not.
Construct ==
    /\ pc = "construct"
    /\ \/ /\ Goto(IF store = "event" THEN "connect" ELSE "assemble")
          /\ store' = "graph"
          /\ stack' = <<store>> \o stack
          /\ UNCHANGED sockets
       \/ /\ Goto("unwind")
          /\ sockets' = sockets \ {store}
          /\ UNCHANGED <<store, stack>>
    /\ UNCHANGED <<imports, job, loaded, polls>>

\* Graph(...), Runtime(...) and the handle, on the two stores.
Assemble ==
    /\ pc = "assemble"
    /\ Goto("load") \/ Goto("unwind")
    /\ UNCHANGED <<imports, store, sockets, stack, job, loaded, polls>>

\* One round of _load_modules: the import fails, the module exports no pack or
\* load_pack raises, or the pack is loaded.
LoadModule ==
    /\ pc = "load" /\ job.modules # <<>>
    /\ LET m == Head(job.modules)
       IN  /\ Import(m, job.root)
           /\ \/ /\ modules'[m] # None
                 /\ Goto("load")
                 /\ job' = [job EXCEPT !.modules = Tail(@)]
                 /\ loaded' = loaded \cup {<<m, modules'[m]>>}
              \/ Goto("unwind") /\ UNCHANGED <<job, loaded>>
    /\ UNCHANGED <<store, sockets, stack, polls>>

\* stack.pop_all(): the handle keeps the stores.
ReturnHandle ==
    /\ pc = "load" /\ job.modules = <<>>
    /\ pc' = "held" /\ outcome' = "ok"
    /\ stack' = <<>>
    /\ job' = None
    /\ UNCHANGED <<imports, store, sockets, loaded, polls>>

\* The ExitStack runs its callbacks, last one first, and goes on when one of
\* them raises.
Unwind ==
    /\ pc = "unwind"
    /\ IF stack = <<>>
       THEN /\ Ends("raised")
            /\ job' = None
            /\ loaded' = {}
            /\ UNCHANGED <<sockets, stack>>
       ELSE /\ sockets' = sockets \ {Head(stack)}
            /\ stack' = Tail(stack)
            /\ UNCHANGED <<pc, outcome, job, loaded>>
    /\ UNCHANGED <<imports, store, polls>>

\* Variant: the graph store is closed only if the event store could be.
CloseHandle_NoFinally ==
    /\ pc = "held"
    /\ \/ Ends("ok") /\ sockets' = {}
       \/ Ends("raised") /\ sockets' = sockets \ {"event"}
    /\ loaded' = {}
    /\ UNCHANGED <<imports, store, stack, job, polls>>

\* close(): the graph store is closed in a finally clause.
CloseHandle ==
    /\ pc = "held"
    /\ sockets' = sockets \ {"event", "graph"}
    /\ Ends("ok") \/ Ends("raised")
    /\ loaded' = {}
    /\ UNCHANGED <<imports, store, stack, job, polls>>

-----------------------------------------------------------------------------
(* wait_until_ready and wait_until_unavailable                             *)

Waiting == pc \in {"until_ready", "until_unavailable"}

Wait(p) ==
    /\ pc = "idle"
    /\ Goto(p)
    /\ polls' = 0
    /\ UNCHANGED <<imports, store, sockets, stack, job, loaded>>

\* The loop ends once the deadline has passed, which may be at any poll.
Deadline ==
    /\ Waiting /\ sockets = {}
    /\ Ends("TimeoutError")
    /\ polls' = 0
    /\ UNCHANGED <<imports, store, sockets, stack, job, loaded>>

\* What the poll found is what the wait is for, or not yet.
Judge(answered) ==
    IF answered = (pc = "until_ready")
    THEN Ends("ok") /\ polls' = 0
    ELSE polls' = polls + 1 /\ UNCHANGED <<pc, outcome>>

\* The connection is refused; the constructor leaves nothing behind.
PollRefused ==
    /\ Waiting /\ polls < Polls
    /\ sockets = {}
    /\ Judge(FALSE)
    /\ UNCHANGED <<imports, store, sockets, stack, job, loaded>>

PollConnects ==
    /\ Waiting /\ polls < Polls
    /\ sockets = {}
    /\ sockets' = sockets \cup {"probe"}
    /\ UNCHANGED <<imports, pc, store, stack, job, loaded, polls, outcome>>

\* Variant: the poll is not counted against the deadline.
PollAnswer_Endless ==
    /\ "probe" \in sockets
    /\ sockets' = sockets \ {"probe"}
    /\ \E answered \in BOOLEAN :
          IF answered = (pc = "until_ready")
          THEN Ends("ok") /\ polls' = 0
          ELSE UNCHANGED <<pc, outcome, polls>>
    /\ UNCHANGED <<imports, store, stack, job, loaded>>

\* server_version is answered or raises.  The finally clause then closes the
\* connection; an error of close leaves the wait in place of its result.
PollAnswer ==
    /\ "probe" \in sockets
    /\ sockets' = sockets \ {"probe"}
    /\ \/ \E answered \in BOOLEAN : Judge(answered)
       \/ Ends("raised") /\ polls' = 0
    /\ UNCHANGED <<imports, store, stack, job, loaded>>

-----------------------------------------------------------------------------

\* The call at hand goes on.
Continue ==
    \/ Connect \/ SignIn \/ Construct \/ Assemble \/ LoadModule \/ ReturnHandle \/ Unwind
    \/ PollRefused \/ PollConnects \/ PollAnswer \/ Deadline

Next ==
    \/ Continue
    \/ \E m \in Packs, r \in Roots : ImportPack(m, r)
    \/ \E ms \in ModuleLists, r \in Roots : BuildRuntime(r, ms)
    \/ CloseHandle
    \/ Wait("until_ready") \/ Wait("until_unavailable")

Spec == Init /\ [][Next]_vars

\* A thread that is in a call goes on with it.
FairSpec == Spec /\ WF_vars(Continue)

-----------------------------------------------------------------------------
(* Properties                                                              *)

\* Whichever step raised, and whether or not the teardown raised as well, no
\* socket outlives the call or the handle it was opened for, and a handle has
\* both of its own (SurrealConnection, the constructors, build_runtime, close,
\* wait_until_ready, wait_until_unavailable).
NoSocketLeaks ==
    /\ pc = "idle" => sockets = {}
    /\ pc = "held" => sockets = {"event", "graph"}

\* The packs a runtime has loaded are those of one checkout, and so are the
\* modules that are cached, whichever checkouts were asked for before and whichever
\* imports failed (_evict_foreign_packs, _load_modules).
PacksOfOneCheckout ==
    /\ \A p, q \in loaded : p[2] = q[2]
    /\ \A m \in Packs : modules[m] \in {None, package}

\* Every call ends: build_runtime with a handle or an exception, a wait with
\* its answer or at its deadline (build_runtime, wait_until_ready).
CallsEnd == pc \notin {"idle", "held"} ~> pc \in {"idle", "held"}

\* "Evict the cached package (and its submodules) so the requested root wins":
\* import_pack returns the module of the checkout it was asked for.
RequestedRootWins ==
    [][\A m \in Packs, r \in Roots :
          ImportPack(m, r) /\ outcome' = "ok" => modules'[m] = r]_vars

\* "Best-effort ... teardown": a wait ends with its answer or with a
\* TimeoutError, never with the error of closing a probe (close,
\* wait_until_ready, wait_until_unavailable).
WaitsEndByAnswerOrDeadline ==
    [][(Waiting /\ pc' = "idle") => outcome' \in {"ok", "TimeoutError"}]_vars

-----------------------------------------------------------------------------
(* The inductive invariant behind the safety properties                    *)

\* Where each socket stands: registered with the ExitStack, held by the store
\* under construction, handed to the caller, or a probe that is not judged yet.
SocketsOK ==
    /\ pc \in {"idle", "held", "until_ready", "until_unavailable"} =>
          stack = <<>>
    /\ pc = "idle" => sockets = {}
    /\ pc \in {"connect", "signin", "construct"} =>
          stack = IF store = "event" THEN <<>> ELSE <<"event">>
    /\ pc \in {"assemble", "load"} =>
          store = "graph" /\ stack = <<"graph", "event">>
    /\ pc \in {"connect", "assemble", "load", "unwind"} =>
          sockets = ToSet(stack)
    /\ pc \in {"signin", "construct"} => sockets = ToSet(stack) \cup {store}
    /\ pc = "held" => sockets = {"event", "graph"}
    /\ Waiting => sockets \subseteq {"probe"}
    /\ "probe" \in sockets => polls < Polls

\* Packs are loaded only between the last constructor and the end of the
\* handle, all from one checkout, that of the cached package while more are
\* loaded: importing again from the same checkout finds that package again.
PacksOK ==
    /\ pc \in {"connect", "signin", "construct", "assemble", "load"} =>
          job \in [root : Roots, modules : Seq(Packs)]
    /\ \A m \in Packs : modules[m] \in {None, package}
    /\ pc \notin {"load", "unwind", "held"} => loaded = {}
    /\ \A p, q \in loaded : p[2] = q[2]
    /\ pc = "load" => \A p \in loaded : p[2] = package
    /\ pc = "load" /\ loaded # {} =>
          Contains(sys_path, job.root) /\ package \in {job.root, Head(sys_path)}

\* The strengthening of NoSocketLeaks and PacksOfOneCheckout that every step
\* preserves.
HInv == TypeOK /\ SocketsOK /\ PacksOK
=============================================================================

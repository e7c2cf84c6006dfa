--------------------------- MODULE HarnessProofs ----------------------------
(***************************************************************************)
(* Proofs about Harness for any checkouts, packs, lists of modules and     *)
(* number of polls.                                                        *)
(***************************************************************************)
EXTENDS Harness, SequenceTheorems, TLAPS

-----------------------------------------------------------------------------
(* The stack of callbacks                                                  *)

\* Putting one element in front of another.
LEMMA TwoElements ==
    ASSUME NEW a, NEW b
    PROVE  <<a>> \o <<b>> = <<a, b>>
<1> DEFINE s == <<a>> \o <<b>>
           t == <<a, b>>
<1>1. <<a>> \in Seq({a, b}) /\ <<b>> \in Seq({a, b})
    OBVIOUS
<1>2. /\ s \in Seq({a, b}) /\ Len(s) = 2
      /\ \A i \in 1 .. 2 : s[i] = IF i <= 1 THEN <<a>>[i] ELSE <<b>>[i - 1]
    BY <1>1, ConcatProperties
<1>3. t \in Seq({a, b}) /\ Len(t) = 2 /\ t[1] = a /\ t[2] = b
    OBVIOUS
<1> HIDE DEF s
<1>4. s[1] = a /\ s[2] = b
    BY <1>2
<1>5. \A i \in 1 .. 2 : i = 1 \/ i = 2
    OBVIOUS
<1> HIDE DEF t
<1>6. s = t
    BY <1>2, <1>3, <1>4, <1>5, SeqEqual
<1> QED
    BY <1>6 DEF s, t

\* What unwinding the ExitStack meets.
LEMMA Stacks ==
    /\ ToSet(<<>>) = {}
    /\ ToSet(<<"event">>) = {"event"}
    /\ ToSet(<<"graph", "event">>) = {"graph", "event"}
    /\ Head(<<"event">>) = "event" /\ Tail(<<"event">>) = <<>>
    /\ Head(<<"graph", "event">>) = "graph"
    /\ Tail(<<"graph", "event">>) = <<"event">>
    /\ <<"event">> \o <<>> = <<"event">>
    /\ <<"graph">> \o <<"event">> = <<"graph", "event">>
<1>1. ToSet(<<>>) = {}
    BY DEF ToSet
<1>2. ToSet(<<"event">>) = {"event"}
    BY DEF ToSet
<1>3. ToSet(<<"graph", "event">>) = {"graph", "event"}
    BY DEF ToSet
<1>4. Head(<<"event">>) = "event" /\ Tail(<<"event">>) = <<>>
    OBVIOUS
<1>5. Head(<<"graph", "event">>) = "graph"
    OBVIOUS
<1>6. Tail(<<"graph", "event">>) = <<"event">>
    OBVIOUS
<1>7. <<"event">> \o <<>> = <<"event">>
    OBVIOUS
<1>8. <<"graph">> \o <<"event">> = <<"graph", "event">>
    BY TwoElements
<1> QED
    BY <1>1, <1>2, <1>3, <1>4, <1>5, <1>6, <1>7, <1>8

-----------------------------------------------------------------------------
(* import_pack                                                             *)

\* _ensure_importable leaves a path that holds the checkout, once.
LEMMA ImportablePath ==
    ASSUME TypeOK, NEW r \in Roots
    PROVE  LET path == EnsureImportable(r)
           IN  /\ path \in Seq(Roots)
               /\ \A i, j \in DOMAIN path : path[i] = path[j] => i = j
               /\ Head(path) \in Roots
               /\ Contains(path, r)
               /\ Contains(sys_path, r) => path = sys_path
<1> DEFINE path == EnsureImportable(r)
<1>1. /\ sys_path \in Seq(Roots) /\ Len(sys_path) \in Nat
      /\ DOMAIN sys_path = 1 .. Len(sys_path)
      /\ \A i \in 1 .. Len(sys_path) : sys_path[i] \in Roots
    BY LenProperties, ElementOfSeq DEF TypeOK
<1>2. CASE Contains(sys_path, r)
    <2>1. path = sys_path
        BY <1>2 DEF EnsureImportable
    <2>2. Len(sys_path) # 0
        BY <1>1, <1>2 DEF Contains
    <2>3. Head(sys_path) \in Roots
        BY <1>1, <2>2, HeadTailProperties
    <2> QED
        BY <1>1, <1>2, <2>1, <2>3 DEF TypeOK
<1>3. CASE ~Contains(sys_path, r)
    <2>1. path = <<r>> \o sys_path
        BY <1>3 DEF EnsureImportable
    <2>2. <<r>> \in Seq(Roots) /\ Len(<<r>>) = 1 /\ <<r>>[1] = r
        OBVIOUS
    <2>3. /\ path \in Seq(Roots) /\ Len(path) = 1 + Len(sys_path)
          /\ path[1] = r
          /\ \A i \in 2 .. Len(path) : path[i] = sys_path[i - 1]
        BY <1>1, <2>1, <2>2, ConcatProperties
    <2> HIDE DEF path
    <2>4. DOMAIN path = 1 .. Len(path)
        BY <2>3, LenProperties
    <2>5. \A i \in 2 .. Len(path) : i - 1 \in 1 .. Len(sys_path) /\ path[i] # r
        BY <1>1, <1>3, <2>3 DEF Contains
    <2>6. ASSUME NEW i \in DOMAIN path, NEW j \in DOMAIN path, path[i] = path[j]
          PROVE  i = j
        <3>1. CASE i = 1 \/ j = 1
            BY <1>1, <2>3, <2>4, <2>5, <2>6, <3>1
        <3>2. CASE i # 1 /\ j # 1
            <4>1. i \in 2 .. Len(path) /\ j \in 2 .. Len(path)
                BY <1>1, <2>3, <2>4, <3>2
            <4>2. sys_path[i - 1] = sys_path[j - 1]
                BY <2>3, <2>6, <4>1
            <4>3. i - 1 = j - 1
                BY <1>1, <2>5, <4>1, <4>2 DEF TypeOK
            <4> QED
                BY <1>1, <2>3, <4>1, <4>3
        <3> QED
            BY <3>1, <3>2
    <2>7. 1 \in 1 .. Len(path) /\ path # <<>>
        BY <1>1, <2>3
    <2>8. Head(path) = r
        BY <2>3, <2>7, HeadTailProperties
    <2>9. Contains(path, r)
        BY <2>3, <2>7 DEF Contains
    <2> QED
        BY <1>3, <2>3, <2>6, <2>8, <2>9 DEF path
<1> QED
    BY <1>2, <1>3

\* What import_pack leaves in sys.path and sys.modules.
LEMMA ImportTypes ==
    ASSUME TypeOK, \A m \in Packs : modules[m] \in {None, package},
           NEW m \in Packs, NEW r \in Roots, Import(m, r)
    PROVE  /\ sys_path' \in Seq(Roots)
           /\ \A i, j \in DOMAIN sys_path' : sys_path'[i] = sys_path'[j] => i = j
           /\ package' \in Roots
           /\ modules' \in [Packs -> Roots \cup {None}]
           /\ \A k \in Packs : modules'[k] \in {None, package'}
           /\ Contains(sys_path', r)
           /\ package' \in {r, Head(sys_path')}
<1> DEFINE path == EnsureImportable(r)
           kept == EvictForeignPacks(r)
           found == IF kept.package = None THEN Head(path) ELSE kept.package
<1>1. /\ path \in Seq(Roots) /\ Head(path) \in Roots /\ Contains(path, r)
      /\ \A i, j \in DOMAIN path : path[i] = path[j] => i = j
    BY ImportablePath
<1>2. /\ kept.package \in {None, r}
      /\ kept.modules \in [Packs -> Roots \cup {None}]
      /\ \A k \in Packs : kept.modules[k] \in {None, kept.package}
    BY DEF EvictForeignPacks, TypeOK
<1>3. sys_path' = path /\ package' = ImportModule(m, path, kept).package
      /\ modules' = ImportModule(m, path, kept).modules
    BY DEF Import
<1> HIDE DEF path, kept
<1>4. /\ package' = found
      /\ modules' = IF kept.modules[m] = None /\ m \in Provides[found]
                    THEN [kept.modules EXCEPT ![m] = found] ELSE kept.modules
    BY <1>3 DEF ImportModule
<1>5. found \in {r, Head(path)} /\ found \in Roots
    BY <1>1, <1>2
<1>6. \A k \in Packs : kept.modules[k] \in {None, found}
    BY <1>2
<1> HIDE DEF found
<1>7. modules' \in [Packs -> Roots \cup {None}]
    BY <1>2, <1>4, <1>5
<1>8. \A k \in Packs : modules'[k] \in {None, found}
    BY <1>2, <1>4, <1>6
<1> QED
    BY <1>1, <1>3, <1>4, <1>5, <1>7, <1>8

\* Importing again from a checkout of the path, whose package was found there
\* or first in the path, finds the same package again.
LEMMA ImportAgain ==
    ASSUME TypeOK, NEW m \in Packs, NEW r \in Roots, Import(m, r),
           Contains(sys_path, r), package \in {r, Head(sys_path)}, package # None
    PROVE  package' = package
<1>1. EnsureImportable(r) = sys_path
    BY DEF EnsureImportable
<1>2. CASE package = r
    BY <1>1, <1>2 DEF Import, ImportModule, EvictForeignPacks
<1>3. CASE package # r
    <2>1. EvictForeignPacks(r).package = None
        BY <1>3 DEF EvictForeignPacks
    <2>2. package' = Head(sys_path)
        BY <1>1, <2>1 DEF Import, ImportModule
    <2> QED
        BY <1>3, <2>2
<1> QED
    BY <1>2, <1>3

-----------------------------------------------------------------------------
(* Steps                                                                   *)

\* The empty process satisfies the invariant.
LEMMA InitImpliesHInv == Init => HInv
<1> SUFFICES ASSUME Init PROVE HInv
    OBVIOUS
<1>1. TypeOK
    BY HarnessAssumption DEF Init, TypeOK
<1>2. SocketsOK
    BY DEF Init, SocketsOK, Waiting
<1>3. PacksOK
    BY DEF Init, PacksOK
<1> QED
    BY <1>1, <1>2, <1>3 DEF HInv

\* Calling import_pack keeps the invariant.
LEMMA ImportPackKeepsHInv ==
    ASSUME HInv, NEW m \in Packs, NEW r \in Roots, ImportPack(m, r)
    PROVE  HInv'
<1> USE DEF HInv, ImportPack
<1>1. /\ sys_path' \in Seq(Roots)
      /\ \A i, j \in DOMAIN sys_path' : sys_path'[i] = sys_path'[j] => i = j
      /\ package' \in Roots
      /\ modules' \in [Packs -> Roots \cup {None}]
      /\ \A k \in Packs : modules'[k] \in {None, package'}
    BY ImportTypes DEF PacksOK
<1>2. pc \in {"idle", "held"}
      /\ UNCHANGED <<pc, store, sockets, stack, job, loaded, polls>>
    OBVIOUS
<1>3. TypeOK'
    <2>1. outcome' \in {"none", "ok", "raised", "TimeoutError"}
        OBVIOUS
    <2> QED
        BY <1>1, <1>2, <2>1 DEF TypeOK
<1>4. SocketsOK'
    BY <1>2 DEF SocketsOK, Waiting
<1>5. PacksOK'
    BY <1>1, <1>2 DEF PacksOK
<1> QED
    BY <1>3, <1>4, <1>5

\* Starting build_runtime keeps the invariant.
LEMMA BuildRuntimeKeepsHInv ==
    ASSUME HInv, NEW ms \in ModuleLists, NEW r \in Roots, BuildRuntime(r, ms)
    PROVE  HInv'
<1> USE DEF HInv, BuildRuntime, Goto, imports
<1>1. job' \in [root : Roots, modules : Seq(Packs)]
    BY HarnessAssumption
<1>2. TypeOK'
    BY <1>1 DEF TypeOK
<1>3. SocketsOK'
    BY Stacks DEF SocketsOK, Waiting
<1>4. PacksOK'
    BY <1>1 DEF PacksOK
<1> QED
    BY <1>2, <1>3, <1>4

\* Opening a socket, or failing to, keeps the invariant.
LEMMA ConnectKeepsHInv ==
    ASSUME HInv, Connect
    PROVE  HInv'
<1> USE DEF HInv, Connect, Goto, imports
<1>1. TypeOK'
    BY DEF TypeOK
<1>2. SocketsOK'
    BY Stacks DEF SocketsOK, Waiting, TypeOK
<1>3. PacksOK'
    BY DEF PacksOK
<1> QED
    BY <1>1, <1>2, <1>3

\* The rest of the connection's constructor keeps the invariant.
LEMMA SignInKeepsHInv ==
    ASSUME HInv, SignIn
    PROVE  HInv'
<1> USE DEF HInv, SignIn, Goto, imports
<1>1. TypeOK'
    BY DEF TypeOK
<1>2. SocketsOK'
    <2>1. /\ store = "event" => stack = <<>> /\ sockets = {"event"}
          /\ store = "graph" => stack = <<"event">> /\ sockets = {"event", "graph"}
        BY Stacks DEF SocketsOK
    <2>2. CASE Goto("construct") /\ UNCHANGED sockets
        BY <2>1, <2>2, Stacks DEF SocketsOK, Waiting, TypeOK
    <2>3. CASE Goto("unwind") /\ sockets' = sockets \ {store}
        BY <2>1, <2>3, Stacks DEF SocketsOK, Waiting, TypeOK
    <2> QED
        BY <2>2, <2>3
<1>3. PacksOK'
    BY DEF PacksOK
<1> QED
    BY <1>1, <1>2, <1>3

\* The rest of a store's constructor, and the callback that is registered for
\* it, keep the invariant.
LEMMA ConstructKeepsHInv ==
    ASSUME HInv, Construct
    PROVE  HInv'
<1> USE DEF HInv, Construct, Goto, imports
<1>1. CASE store = "event"
    <2>1. stack = <<>> /\ sockets = {"event"} /\ stack' \in {<<>>, <<"event">>}
        BY <1>1, Stacks DEF SocketsOK
    <2>2. TypeOK'
        BY <1>1, <2>1 DEF TypeOK
    <2>3. SocketsOK'
        BY <1>1, <2>1, Stacks DEF SocketsOK, Waiting
    <2>4. PacksOK'
        BY <1>1 DEF PacksOK
    <2> QED
        BY <2>2, <2>3, <2>4
<1>2. CASE store = "graph"
    <2>1. /\ stack = <<"event">> /\ sockets = {"event", "graph"}
          /\ stack' \in {<<"event">>, <<"graph", "event">>}
        BY <1>2, Stacks DEF SocketsOK
    <2>2. TypeOK'
        BY <1>2, <2>1 DEF TypeOK
    <2>3. SocketsOK'
        BY <1>2, <2>1, Stacks DEF SocketsOK, Waiting
    <2>4. PacksOK'
        BY <1>2 DEF PacksOK
    <2> QED
        BY <2>2, <2>3, <2>4
<1> QED
    BY <1>1, <1>2 DEF TypeOK

\* Building the graph and the runtime, or failing to, keeps the invariant.
LEMMA AssembleKeepsHInv ==
    ASSUME HInv, Assemble
    PROVE  HInv'
<1> USE DEF HInv, Assemble, Goto, imports
<1>1. TypeOK'
    BY DEF TypeOK
<1>2. SocketsOK'
    BY DEF SocketsOK, Waiting
<1>3. PacksOK'
    BY DEF PacksOK
<1> QED
    BY <1>1, <1>2, <1>3

\* Loading one more pack keeps the invariant: the import finds the package that
\* the packs loaded so far came from.
LEMMA LoadModuleKeepsHInv ==
    ASSUME HInv, LoadModule
    PROVE  HInv'
<1> USE DEF HInv
<1>1. /\ pc = "load" /\ job \in [root : Roots, modules : Seq(Packs)]
      /\ job.root \in Roots /\ job.modules \in Seq(Packs) /\ job.modules # <<>>
    BY DEF LoadModule, TypeOK, PacksOK
<1> DEFINE m == Head(job.modules)
           r == job.root
<1>2. m \in Packs /\ Tail(job.modules) \in Seq(Packs)
    BY <1>1, HeadTailProperties
<1>3. Import(m, r)
    BY DEF LoadModule
<1>4. /\ sys_path' \in Seq(Roots)
      /\ \A i, j \in DOMAIN sys_path' : sys_path'[i] = sys_path'[j] => i = j
      /\ package' \in Roots
      /\ modules' \in [Packs -> Roots \cup {None}]
      /\ \A k \in Packs : modules'[k] \in {None, package'}
      /\ Contains(sys_path', r)
      /\ package' \in {r, Head(sys_path')}
    BY <1>1, <1>2, <1>3, ImportTypes DEF PacksOK
<1>5. \A p \in loaded : p[2] = package'
    <2>1. CASE loaded = {}
        BY <2>1
    <2>2. CASE loaded # {}
        <3>1. /\ Contains(sys_path, r) /\ package \in {r, Head(sys_path)}
              /\ \A p \in loaded : p[2] = package
            BY <1>1, <2>2 DEF PacksOK
        <3>2. package # None
            BY <2>2, <3>1, HarnessAssumption DEF TypeOK
        <3>3. package' = package
            BY <1>1, <1>2, <1>3, <3>1, <3>2, ImportAgain
        <3> QED
            BY <3>1, <3>3
    <2> QED
        BY <2>1, <2>2
<1> HIDE DEF m, r
<1>6. UNCHANGED <<store, sockets, stack, polls>>
    BY DEF LoadModule
<1>7. \/ /\ modules'[m] # None /\ pc' = "load" /\ outcome' = "none"
         /\ job' = [job EXCEPT !.modules = Tail(job.modules)]
         /\ loaded' = loaded \cup {<<m, modules'[m]>>}
      \/ pc' = "unwind" /\ outcome' = "none" /\ UNCHANGED <<job, loaded>>
    BY DEF LoadModule, Goto, m
<1>8. CASE /\ modules'[m] # None /\ pc' = "load" /\ outcome' = "none"
           /\ job' = [job EXCEPT !.modules = Tail(job.modules)]
           /\ loaded' = loaded \cup {<<m, modules'[m]>>}
    <2>1. job' \in [root : Roots, modules : Seq(Packs)] /\ job'.root = r
        <3>1. PICK t \in Seq(Packs) : t = Tail(job.modules)
            BY <1>2
        <3> QED
            BY <1>1, <1>8, <3>1 DEF r
    <2>2. modules'[m] = package' /\ <<m, modules'[m]>> \in Packs \X Roots
        BY <1>2, <1>4, <1>8
    <2>3. TypeOK'
        BY <1>4, <1>6, <1>8, <2>1, <2>2 DEF TypeOK
    <2>4. SocketsOK'
        BY <1>1, <1>6, <1>8 DEF SocketsOK, Waiting
    <2>5. \A p \in loaded' : p[2] = package'
        BY <1>5, <1>8, <2>2
    <2>6. PacksOK'
        BY <1>4, <1>8, <2>1, <2>5 DEF PacksOK
    <2> QED
        BY <2>3, <2>4, <2>6
<1>9. CASE pc' = "unwind" /\ outcome' = "none" /\ UNCHANGED <<job, loaded>>
    <2>1. TypeOK'
        BY <1>4, <1>6, <1>9 DEF TypeOK
    <2>2. SocketsOK'
        BY <1>1, <1>6, <1>9 DEF SocketsOK, Waiting
    <2>3. PacksOK'
        BY <1>4, <1>5, <1>9 DEF PacksOK
    <2> QED
        BY <2>1, <2>2, <2>3
<1> QED
    BY <1>7, <1>8, <1>9

\* Handing the stores to the caller keeps the invariant.
LEMMA ReturnHandleKeepsHInv ==
    ASSUME HInv, ReturnHandle
    PROVE  HInv'
<1> USE DEF HInv, ReturnHandle, imports
<1>1. TypeOK'
    BY DEF TypeOK
<1>2. SocketsOK'
    BY Stacks DEF SocketsOK, Waiting
<1>3. PacksOK'
    BY DEF PacksOK
<1> QED
    BY <1>1, <1>2, <1>3

\* One callback of the ExitStack, or its end, keeps the invariant.
LEMMA UnwindKeepsHInv ==
    ASSUME HInv, Unwind
    PROVE  HInv'
<1> USE DEF HInv, Unwind, Ends, imports
<1>1. CASE stack = <<>>
    <2>1. TypeOK'
        BY <1>1 DEF TypeOK
    <2>2. SocketsOK'
        BY <1>1, Stacks DEF SocketsOK, Waiting
    <2>3. PacksOK'
        BY <1>1 DEF PacksOK
    <2> QED
        BY <2>1, <2>2, <2>3
<1>2. CASE stack # <<>>
    <2>1. /\ sockets' = sockets \ {Head(stack)} /\ stack' = Tail(stack)
          /\ UNCHANGED <<pc, outcome, job, loaded, store, polls>>
          /\ UNCHANGED <<sys_path, package, modules>>
        BY <1>2
    <2>2. \/ stack = <<"event">> /\ stack' = <<>> /\ sockets' = {}
          \/ stack = <<"graph", "event">> /\ stack' = <<"event">>
             /\ sockets' = {"event"}
        <3>1. stack = <<"event">> \/ stack = <<"graph", "event">>
            BY <1>2 DEF TypeOK
        <3>2. sockets = ToSet(stack)
            BY DEF SocketsOK
        <3>3. CASE stack = <<"event">>
            BY <2>1, <3>2, <3>3, Stacks
        <3>4. CASE stack = <<"graph", "event">>
            BY <2>1, <3>2, <3>4, Stacks
        <3> QED
            BY <3>1, <3>3, <3>4
    <2>3. TypeOK'
        BY <2>1, <2>2 DEF TypeOK
    <2>4. SocketsOK'
        BY <2>1, <2>2, Stacks DEF SocketsOK, Waiting
    <2>5. PacksOK'
        BY <2>1 DEF PacksOK
    <2> QED
        BY <2>3, <2>4, <2>5
<1> QED
    BY <1>1, <1>2

\* close() keeps the invariant, whether or not it raises.
LEMMA CloseHandleKeepsHInv ==
    ASSUME HInv, CloseHandle
    PROVE  HInv'
<1> USE DEF HInv, CloseHandle, Ends, imports
<1>1. TypeOK'
    BY DEF TypeOK
<1>2. SocketsOK'
    BY DEF SocketsOK, Waiting
<1>3. PacksOK'
    BY DEF PacksOK
<1> QED
    BY <1>1, <1>2, <1>3

\* Starting a wait, and its deadline, keep the invariant.
LEMMA WaitKeepsHInv ==
    ASSUME HInv,
           Wait("until_ready") \/ Wait("until_unavailable") \/ Deadline
    PROVE  HInv'
<1> USE DEF HInv, Wait, Deadline, Waiting, Goto, Ends, imports
<1>1. TypeOK'
    <2>1. polls' \in 0 .. Polls
        BY HarnessAssumption
    <2>2. CASE Wait("until_ready") \/ Wait("until_unavailable")
        BY <2>1, <2>2 DEF TypeOK
    <2>3. CASE Deadline
        BY <2>1, <2>3 DEF TypeOK
    <2> QED
        BY <2>2, <2>3
<1>2. SocketsOK'
    BY DEF SocketsOK
<1>3. PacksOK'
    BY DEF PacksOK
<1> QED
    BY <1>1, <1>2, <1>3

\* A poll keeps the invariant: its probe is closed before it is judged.
LEMMA PollKeepsHInv ==
    ASSUME HInv, PollRefused \/ PollConnects \/ PollAnswer
    PROVE  HInv'
<1> USE DEF HInv, imports
<1>1. /\ Waiting /\ polls < Polls /\ sockets' \subseteq {"probe"} /\ loaded = {}
      /\ UNCHANGED <<sys_path, package, modules, store, stack, job, loaded>>
    <2>1. CASE PollRefused \/ PollConnects
        BY <2>1 DEF PollRefused, PollConnects, Waiting, PacksOK
    <2>2. CASE PollAnswer
        <3>1. "probe" \in sockets
            BY <2>2 DEF PollAnswer
        <3>2. ToSet(stack) \subseteq {"event", "graph"}
            BY Stacks DEF TypeOK
        <3>3. Waiting
            BY <3>1, <3>2 DEF SocketsOK, TypeOK, Waiting
        <3> QED
            BY <2>2, <3>1, <3>3 DEF PollAnswer, SocketsOK, PacksOK, Waiting
    <2> QED
        BY <2>1, <2>2
<1>2. \/ sockets' = {} /\ pc' = "idle" /\ polls' = 0 /\ outcome' \in {"ok", "raised"}
      \/ sockets' = {} /\ polls' = polls + 1 /\ UNCHANGED <<pc, outcome>>
      \/ sockets' = {"probe"} /\ UNCHANGED <<polls, pc, outcome>>
    <2>1. CASE PollRefused
        BY <2>1 DEF PollRefused, Judge, Ends
    <2>2. CASE PollConnects
        BY <2>2 DEF PollConnects
    <2>3. CASE PollAnswer
        <3>1. sockets' = {}
            BY <1>1, <2>3 DEF PollAnswer
        <3> QED
            BY <2>3, <3>1 DEF PollAnswer, Judge, Ends
    <2> QED
        BY <2>1, <2>2, <2>3
<1>3. TypeOK'
    <2>1. polls' \in 0 .. Polls
        BY <1>1, <1>2, HarnessAssumption DEF TypeOK
    <2> QED
        BY <1>1, <1>2, <2>1 DEF TypeOK
<1>4. SocketsOK'
    BY <1>1, <1>2 DEF SocketsOK, Waiting
<1>5. PacksOK'
    BY <1>1, <1>2 DEF PacksOK, Waiting
<1> QED
    BY <1>3, <1>4, <1>5

-----------------------------------------------------------------------------
(* Theorems                                                                *)

\* Every step keeps the invariant.
LEMMA NextKeepsHInv == HInv /\ [Next]_vars => HInv'
<1> SUFFICES ASSUME HInv, [Next]_vars PROVE HInv'
    OBVIOUS
<1>1. CASE Continue
    BY <1>1, ConnectKeepsHInv, SignInKeepsHInv, ConstructKeepsHInv,
       AssembleKeepsHInv, LoadModuleKeepsHInv, ReturnHandleKeepsHInv, UnwindKeepsHInv,
       PollKeepsHInv, WaitKeepsHInv DEF Continue
<1>2. CASE UNCHANGED vars
    <2>1. TypeOK'
        BY <1>2 DEF vars, HInv, TypeOK
    <2>2. SocketsOK'
        BY <1>2 DEF vars, HInv, SocketsOK, Waiting
    <2>3. PacksOK'
        BY <1>2 DEF vars, HInv, PacksOK
    <2> QED
        BY <2>1, <2>2, <2>3 DEF HInv
<1> QED
    BY <1>1, <1>2, ImportPackKeepsHInv, BuildRuntimeKeepsHInv,
       CloseHandleKeepsHInv, WaitKeepsHInv DEF Next

\* The inductive invariant: where every socket stands, and which checkout every
\* cached or loaded pack belongs to.
THEOREM HarnessInvariant == Spec => []HInv
    BY InitImpliesHInv, NextKeepsHInv, PTL DEF Spec

\* Every variable keeps its type; in particular import_pack never lists a
\* checkout twice in sys.path.
THEOREM HarnessTypeCorrect == Spec => []TypeOK
<1>1. HInv => TypeOK
    BY DEF HInv
<1> QED
    BY <1>1, HarnessInvariant, PTL

\* build_runtime, close and the waits leave no socket open, whichever steps and
\* teardowns raise, for any checkouts, lists of packs and number of polls.
THEOREM SocketsNeverLeak == Spec => []NoSocketLeaks
<1>1. HInv => NoSocketLeaks
    BY DEF HInv, SocketsOK, NoSocketLeaks
<1> QED
    BY <1>1, HarnessInvariant, PTL

\* However many checkouts a process imports from, the packs of one runtime, and
\* the modules in sys.modules, come from a single checkout.
THEOREM PacksAreOfOneCheckout == Spec => []PacksOfOneCheckout
<1>1. HInv => PacksOfOneCheckout
    BY DEF HInv, PacksOK, PacksOfOneCheckout
<1> QED
    BY <1>1, HarnessInvariant, PTL
=============================================================================

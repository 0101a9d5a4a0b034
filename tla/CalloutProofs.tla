----------------------------- MODULE CalloutProofs ----------------------------
(***************************************************************************)
(* Proofs about Callouts for any number of CPUs, callouts, threads and        *)
(* buckets.  The invariant Sound has a part for each callout (Fine: the list   *)
(* it is on, the entity that runs it, who moves it), one for each entity and   *)
(* CPU, and one for each call of a thread (Drains).  A step of the wheel is    *)
(* about one callout and one entity; Alike says that it leaves another alone.   *)
(* What is proved of the specification needs HandlersStay, which is named in   *)
(* each theorem.                                                             *)
(***************************************************************************)
EXTENDS Callouts, SeqLemmas

Bucket == 0 .. callwheelsize - 1
At(V, c, d) == V.cc[c].exec[d]

(***************************************************************************)
(* The lists.  A callout is on a list when it is set, neither to be moved nor  *)
(* being moved.                                                             *)
(***************************************************************************)
Queued(o) == o.pending /\ ~o.dfr /\ o.cpu # CPUBLOCK

OnExpireq(V, c, x) == x \in ToSet(V.cc[c].expireq)
OnWheel(V, c, b, x) == x \in ToSet(V.cc[c].wheel[b])

\* The list that the fields of callout x name is the one it is on.
Listed(V, x) ==
  LET o == V.co[x]
  IN  /\ \A c \in Cpu : OnExpireq(V, c, x) <=> Queued(o) /\ o.processed /\ o.cpu = c
      /\ \A c \in Cpu, b \in Bucket :
           OnWheel(V, c, b, x) <=> Queued(o) /\ ~o.processed /\ o.cpu = c /\ b = callout_get_bucket(o.time)

Linked(V, x) ==
  /\ Listed(V, x)
  /\ Queued(V.co[x]) => V.co[x].active /\ (V.co[x].processed => x \notin Direct)

OnceEach(V, c) ==
  /\ IsInjective(V.cc[c].expireq)
  /\ \A b \in Bucket : IsInjective(V.cc[c].wheel[b])

ScanBucket(s) == s.firstb % callwheelsize

\* While the scan of CPU c waits for a direct callout, its place is in cc_next.
Suspended(V, c) ==
  At(V, c, 1).pc # "idle" =>
    /\ V.cc[c].scan # None
    /\ V.cc[c].bucket = ScanBucket(V.cc[c].scan)
    /\ V.cc[c].next \in {None} \cup ToSet(V.cc[c].wheel[V.cc[c].bucket])

Tidy(V, c) == OnceEach(V, c) /\ Suspended(V, c)

(***************************************************************************)
(* The entities.                                                            *)
(***************************************************************************)
Steady(e, d) ==
  /\ e.curr # None <=> e.pc \in {"lock", "run", "finish"}
  /\ e.curr # None => e.curr = e.x
  /\ e.pc \notin {"idle", "relock"} => e.x \in Callout /\ d = dir(e.x)
  /\ e.drain => e.curr # None
  /\ e.waiting => e.pc \in {"lock", "run", "finish", "drain"}
  /\ e.migration # None => e.curr # None
  /\ e.pc = "switch" => e.new \in Moves

\* Entity e runs callout x, whose fields are o.
Current(o, e, x) ==
  /\ e.migration # None <=> o.dfr
  /\ e.drain => ~o.pending /\ ~o.dfr
  /\ e.waiting => ~(o.dfr /\ o.pending)
  /\ x \in Locked => e.cancel \/ (e.pc = "lock" /\ ~o.pending /\ ~o.dfr)

Running(V, x) ==
  LET o == V.co[x]
  IN  /\ \A c \in Cpu, d \in Entity : At(V, c, d).curr = x =>
           c = o.cpu /\ d = dir(x) /\ Current(o, At(V, c, d), x)
      /\ o.dfr => o.cpu \in Cpu /\ At(V, o.cpu, dir(x)).curr = x /\ (o.pending => o.active)

\* One entity or thread at most moves a callout.
EntityMoves(V, c, d, x) == At(V, c, d).pc = "switch" /\ At(V, c, d).x = x
ThreadMoves(k, x) == k.pc = "switch" /\ k.x = x

Moved(V, calls, x) ==
  /\ \A c \in Cpu, d \in Entity : EntityMoves(V, c, d, x) =>
       /\ V.co[x].cpu = CPUBLOCK
       /\ \A p \in Task : ~ThreadMoves(calls[p], x)
       /\ \A c1 \in Cpu, d1 \in Entity : EntityMoves(V, c1, d1, x) => c1 = c /\ d1 = d
  /\ \A p \in Task : ThreadMoves(calls[p], x) =>
       /\ V.co[x].cpu = CPUBLOCK
       /\ \A q \in Task : ThreadMoves(calls[q], x) => q = p

\* What callout_stop has promised of callout x.
Cancels(e) == (e.pc = "lock" /\ e.cancel) \/ e.pc = "finish"

Kept(V, stops, x) ==
  x \in stops =>
    /\ ~V.co[x].pending /\ ~V.co[x].dfr /\ V.co[x].cpu # CPUBLOCK
    /\ \A c \in Cpu, d \in Entity : At(V, c, d).curr = x => Cancels(At(V, c, d))

Fine(V, calls, stops, x) == Linked(V, x) /\ Running(V, x) /\ Moved(V, calls, x) /\ Kept(V, stops, x)

(***************************************************************************)
(* The calls of threads.  From before it sleeps until it looks again, a thread *)
(* that drains knows the entity.                                             *)
(***************************************************************************)
WakeupToCome(e, x) ==
  e.x = x /\ (e.pc = "wakeup" \/ (e.waiting /\ e.pc \in {"lock", "run", "finish", "drain"}))

Drains(V, k) ==
  k.op = "drain" =>
    /\ k.pc \in {"add", "sleep", "woken"} =>
         V.co[k.x].cpu \in Cpu /\ k.ch = <<V.co[k.x].cpu, dir(k.x)>>
    /\ k.pc \in {"add", "sleep"} => WakeupToCome(At(V, V.co[k.x].cpu, dir(k.x)), k.x)
    /\ k.pc = "woken" => ~V.co[k.x].dfr

Legal(k, ops) ==
  /\ k = NoCall \/ (k.op \in ops /\ k.op # "none" /\ k.x \in Callout /\ k.when \in [time : Nat, prec : Int])
  /\ k.op = "reset" => k.cpu \in Cpu
  /\ k.pc \in {"sqlock", "add", "sleep", "woken"} => k.op = "drain"
  /\ k.pc = "switch" => k.op = "reset"
  /\ k.pc = "add" => k.sq

\* Nobody resets what is being drained.
Apart(calls) ==
  \A p, q \in Task : calls[p].op = "drain" /\ calls[q].op = "reset" => calls[p].x # calls[q].x

Sound(V, calls, stops) ==
  /\ V \in Kernel
  /\ \A c \in Cpu : Tidy(V, c)
  /\ \A c \in Cpu, d \in Entity : Steady(At(V, c, d), d)
  /\ \A x \in Callout : Fine(V, calls, stops, x)
  /\ \A p \in Task : Drains(V, calls[p])

CalloutInv ==
  /\ scenario \in Scenarios
  /\ now \in Nat
  /\ call \in [Task -> Call]
  /\ stopped \in SUBSET Callout
  /\ \A p \in Task : Legal(call[p], scenario.ops[p])
  /\ Apart(call)
  /\ \A c \in Cpu : K.cc[c].lastscan <= now
  /\ Sound(K, call, stopped)

(***************************************************************************)
(* Fields, buckets and list neighbours.                                     *)
(***************************************************************************)
LEMMA KernelFields ==
  ASSUME NEW V \in Kernel
  PROVE  /\ \A c \in Cpu :
              /\ V.cc[c] \in callout_cpu
              /\ \A d \in Entity : At(V, c, d) \in cc_exec
              /\ V.cc[c].expireq \in Seq(Callout)
              /\ \A b \in Bucket : V.cc[c].wheel[b] \in Seq(Callout)
              /\ V.cc[c].next \in Callout \cup {None} /\ V.cc[c].bucket \in Nat
              /\ V.cc[c].firstevent \in Int /\ V.cc[c].lastscan \in Nat
              /\ V.cc[c].scan \in Scans \cup {None}
         /\ \A x \in Callout : V.co[x] \in callout
BY DEF Kernel, callout_cpu, At, Bucket

LEMMA ExecFields ==
  ASSUME NEW e \in cc_exec
  PROVE  /\ e.curr \in Callout \cup {None} /\ e.x \in Callout \cup {None}
         /\ e.cancel \in BOOLEAN /\ e.waiting \in BOOLEAN /\ e.drain \in BOOLEAN
         /\ e.migration \in Moves \cup {None} /\ e.new \in Moves \cup {None}
         /\ e.pc \in {"idle", "lock", "run", "finish", "drain", "wakeup", "switch", "relock"}
BY DEF cc_exec

LEMMA CalloutFields ==
  ASSUME NEW o \in callout
  PROVE  /\ o.cpu \in Cpu \cup {CPUBLOCK} /\ o.time \in Nat /\ o.prec \in Int
         /\ o.pending \in BOOLEAN /\ o.processed \in BOOLEAN /\ o.active \in BOOLEAN /\ o.dfr \in BOOLEAN
BY DEF callout

LEMMA BucketFacts ==
  /\ \A n \in Nat : n % callwheelsize \in Bucket
  /\ \A t \in Nat : callout_hash(t) \in Nat /\ callout_get_bucket(t) \in Bucket
<1>1. callwheelsize \in Nat \ {0} /\ BucketSpan \in Nat \ {0} BY CalloutWheelAssumption
<1>2. ASSUME NEW n \in Nat PROVE n % callwheelsize \in Bucket BY <1>1 DEF Bucket
<1>3. ASSUME NEW t \in Nat PROVE callout_hash(t) \in Nat BY <1>1 DEF callout_hash
<1> QED BY <1>2, <1>3 DEF callout_get_bucket

LEMMA DirIsEntity == \A x : dir(x) \in Entity
BY DEF dir, Entity

\* What is next in a list is another member of it.
LEMMA NextFacts ==
  ASSUME NEW q \in Seq(Callout), IsInjective(q), NEW x \in ToSet(q)
  PROVE  LIST_NEXT(q, x) \in {None} \cup (ToSet(q) \ {x})
<1>1. Len(q) \in Nat /\ DOMAIN q = 1 .. Len(q) BY LenProperties
<1> DEFINE i == CHOOSE k \in DOMAIN q : q[k] = x
<1>2. i \in DOMAIN q /\ q[i] = x
  <2>1. \E k \in DOMAIN q : q[k] = x BY DEF ToSet
  <2> QED BY <2>1
<1>3. LIST_NEXT(q, x) = IF i = Len(q) THEN None ELSE q[i + 1] BY DEF LIST_NEXT
<1> HIDE DEF i
<1>4. ASSUME i # Len(q) PROVE q[i + 1] \in ToSet(q) \ {x}
  <2>1. i + 1 \in DOMAIN q /\ i + 1 # i BY <1>1, <1>2, <1>4
  <2>2. q[i + 1] \in ToSet(q) BY <2>1 DEF ToSet
  <2>3. q[i + 1] # x BY <1>2, <2>1 DEF IsInjective
  <2> QED BY <2>2, <2>3
<1> QED BY <1>3, <1>4

LEMMA FirstFacts ==
  ASSUME NEW q \in Seq(Callout), IsInjective(q)
  PROVE  LIST_FIRST(q) \in {None} \cup ToSet(q)
<1>1. CASE q = <<>> BY <1>1 DEF LIST_FIRST
<1>2. CASE q # <<>> BY <1>2, TailFacts DEF LIST_FIRST
<1> QED BY <1>1, <1>2

LEMMA ToSetIsSubset == ASSUME NEW q \in Seq(Callout) PROVE ToSet(q) \subseteq Callout
BY LenProperties, ElementOfSeq DEF ToSet

(***************************************************************************)
(* What a step leaves alone.                                                *)
(***************************************************************************)
Concerns(e, x) == e.curr = x \/ (e.x = x /\ e.pc \notin {"idle", "relock"})

Alike(U, V, x) ==
  /\ U.co[x] = V.co[x]
  /\ \A c \in Cpu : OnExpireq(U, c, x) <=> OnExpireq(V, c, x)
  /\ \A c \in Cpu, b \in Bucket : OnWheel(U, c, b, x) <=> OnWheel(V, c, b, x)
  /\ \A c \in Cpu, d \in Entity :
       At(U, c, d) = At(V, c, d) \/ (~Concerns(At(U, c, d), x) /\ ~Concerns(At(V, c, d), x))

OthersAlike(U, V, x) == \A y \in Callout \ {x} : Alike(U, V, y)

LEMMA AlikeTransitive ==
  ASSUME NEW U, NEW V, NEW W, NEW x, Alike(U, V, x), Alike(V, W, x)
  PROVE  Alike(U, W, x)
<1>1. U.co[x] = W.co[x] BY DEF Alike
<1>2. \A c \in Cpu : OnExpireq(U, c, x) <=> OnExpireq(W, c, x) BY DEF Alike
<1>3. \A c \in Cpu, b \in Bucket : OnWheel(U, c, b, x) <=> OnWheel(W, c, b, x) BY DEF Alike
<1>4. ASSUME NEW c \in Cpu, NEW d \in Entity
      PROVE  At(U, c, d) = At(W, c, d) \/ (~Concerns(At(U, c, d), x) /\ ~Concerns(At(W, c, d), x))
  <2>1. At(U, c, d) = At(V, c, d) \/ (~Concerns(At(U, c, d), x) /\ ~Concerns(At(V, c, d), x)) BY DEF Alike
  <2>2. At(V, c, d) = At(W, c, d) \/ (~Concerns(At(V, c, d), x) /\ ~Concerns(At(W, c, d), x)) BY DEF Alike
  <2>3. ASSUME At(U, c, d) = At(V, c, d) PROVE Concerns(At(U, c, d), x) <=> Concerns(At(V, c, d), x)
    BY <2>3
  <2>4. ASSUME At(V, c, d) = At(W, c, d) PROVE Concerns(At(V, c, d), x) <=> Concerns(At(W, c, d), x)
    BY <2>4
  <2> QED BY <2>1, <2>2, <2>3, <2>4
<1> QED BY <1>1, <1>2, <1>3, <1>4 DEF Alike

LEMMA OthersAlikeTransitive ==
  ASSUME NEW U, NEW V, NEW W, NEW x, OthersAlike(U, V, x), OthersAlike(V, W, x)
  PROVE  OthersAlike(U, W, x)
BY AlikeTransitive DEF OthersAlike

\* What holds of a callout that a step leaves alone still holds.
LEMMA AlikeFine ==
  ASSUME NEW U \in Kernel, NEW V \in Kernel, NEW x \in Callout, Alike(U, V, x), NEW calls, NEW stops,
         Fine(V, calls, stops, x)
  PROVE  Fine(U, calls, stops, x)
<1>1. U.co[x] = V.co[x] BY DEF Alike
<1>2. Linked(U, x)
  <2>1. Linked(V, x) BY DEF Fine
  <2> QED BY <1>1, <2>1 DEF Alike, Linked, Listed
<1>3. ASSUME NEW c \in Cpu, NEW d \in Entity, Concerns(At(U, c, d), x) \/ Concerns(At(V, c, d), x)
      PROVE  At(U, c, d) = At(V, c, d)
  BY <1>3 DEF Alike
<1>4. Running(U, x)
  <2>1. Running(V, x) BY DEF Fine
  <2>2. ASSUME NEW c \in Cpu, NEW d \in Entity, At(U, c, d).curr = x
        PROVE  c = U.co[x].cpu /\ d = dir(x) /\ Current(U.co[x], At(U, c, d), x)
    <3>1. At(U, c, d) = At(V, c, d) BY <1>3, <2>2 DEF Concerns
    <3> QED BY <1>1, <2>1, <2>2, <3>1 DEF Running
  <2>3. ASSUME U.co[x].dfr
        PROVE  /\ U.co[x].cpu \in Cpu /\ At(U, U.co[x].cpu, dir(x)).curr = x
               /\ U.co[x].pending => U.co[x].active
    <3>1. V.co[x].cpu \in Cpu /\ At(V, V.co[x].cpu, dir(x)).curr = x /\ (V.co[x].pending => V.co[x].active)
      BY <1>1, <2>1, <2>3 DEF Running
    <3>2. At(U, V.co[x].cpu, dir(x)) = At(V, V.co[x].cpu, dir(x)) BY <1>3, <3>1, DirIsEntity DEF Concerns
    <3> QED BY <1>1, <3>1, <3>2
  <2> QED BY <2>2, <2>3 DEF Running
<1>5. \A c \in Cpu, d \in Entity : EntityMoves(U, c, d, x) <=> EntityMoves(V, c, d, x)
  BY <1>3 DEF EntityMoves, Concerns
<1>6. Moved(U, calls, x)
  <2>1. Moved(V, calls, x) BY DEF Fine
  <2> QED BY <1>1, <1>5, <2>1 DEF Moved
<1>7. Kept(U, stops, x)
  <2>1. Kept(V, stops, x) BY DEF Fine
  <2>2. \A c \in Cpu, d \in Entity : At(U, c, d).curr = x => At(U, c, d) = At(V, c, d) BY <1>3 DEF Concerns
  <2> QED BY <1>1, <2>1, <2>2 DEF Kept
<1> QED BY <1>2, <1>4, <1>6, <1>7 DEF Fine

LEMMA AlikeDrains ==
  ASSUME NEW U \in Kernel, NEW V \in Kernel, NEW k, k.op = "drain" => k.x \in Callout /\ Alike(U, V, k.x),
         Drains(V, k)
  PROVE  Drains(U, k)
<1> SUFFICES ASSUME k.op = "drain" PROVE Drains(U, k) BY DEF Drains
<1> DEFINE x == k.x
<1>1. U.co[x] = V.co[x] BY DEF Alike
<1>2. ASSUME k.pc \in {"add", "sleep"}
      PROVE  WakeupToCome(At(U, U.co[x].cpu, dir(x)), x)
  <2>1. V.co[x].cpu \in Cpu /\ WakeupToCome(At(V, V.co[x].cpu, dir(x)), x) BY <1>2 DEF Drains
  <2>2. Concerns(At(V, V.co[x].cpu, dir(x)), x) BY <2>1 DEF WakeupToCome, Concerns
  <2>3. At(U, V.co[x].cpu, dir(x)) = At(V, V.co[x].cpu, dir(x)) BY <2>1, <2>2, DirIsEntity DEF Alike
  <2> QED BY <1>1, <2>1, <2>3
<1> QED BY <1>1, <1>2 DEF Drains
(***************************************************************************)
(* What a step does to a CPU and a callout.                                  *)
(***************************************************************************)
\* U is V with q for CPU c and fields o for x.
IsRelinked(U, V, c, q, x, o) ==
  /\ U \in Kernel
  /\ \A c1 \in Cpu : U.cc[c1] = IF c1 = c THEN q ELSE V.cc[c1]
  /\ \A y \in Callout : U.co[y] = IF y = x THEN o ELSE V.co[y]

Relinked(V, c, q, x, o) == [V EXCEPT !.cc = [@ EXCEPT ![c] = q], !.co = [@ EXCEPT ![x] = o]]

LEMMA RelinkedFacts ==
  ASSUME NEW V \in Kernel, NEW c \in Cpu, NEW q \in callout_cpu, NEW x \in Callout, NEW o \in callout,
         NEW U, U = Relinked(V, c, q, x, o)
  PROVE  IsRelinked(U, V, c, q, x, o)
BY DEF Kernel, IsRelinked, Relinked

(***************************************************************************)
(* Steps that change an entity and the fields of a callout, but no list.     *)
(***************************************************************************)
Put(V, c, d, e, x, o) == [V EXCEPT !.cc[c].exec[d] = e, !.co[x] = o]

\* Of entities and callout x, e for (c, d) and o for x are all that changes.
Sets(U, V, c, d, e, x, o) ==
  /\ U.co[x] = o
  /\ \A c1 \in Cpu, d1 \in Entity : At(U, c1, d1) = IF c1 = c /\ d1 = d THEN e ELSE At(V, c1, d1)

SameLists(U, V) ==
  \A c \in Cpu :
    /\ U.cc[c].wheel = V.cc[c].wheel /\ U.cc[c].expireq = V.cc[c].expireq
    /\ U.cc[c].next = V.cc[c].next /\ U.cc[c].bucket = V.cc[c].bucket
    /\ U.cc[c].scan = V.cc[c].scan /\ U.cc[c].lastscan = V.cc[c].lastscan

\* U is V with entity e for (c, d) and fields o for x.
IsPut(U, V, c, d, e, x, o) ==
  /\ U \in Kernel /\ SameLists(U, V)
  /\ \A c1 \in Cpu \ {c} : U.cc[c1] = V.cc[c1]
  /\ \A c1 \in Cpu, d1 \in Entity : At(U, c1, d1) = IF c1 = c /\ d1 = d THEN e ELSE At(V, c1, d1)
  /\ \A y \in Callout : U.co[y] = IF y = x THEN o ELSE V.co[y]

LEMMA PutFacts ==
  ASSUME NEW V \in Kernel, NEW c \in Cpu, NEW d \in Entity, NEW e \in cc_exec,
         NEW x \in Callout, NEW o \in callout, NEW U, U = Put(V, c, d, e, x, o)
  PROVE  IsPut(U, V, c, d, e, x, o)
<1> DEFINE q == [V.cc[c] EXCEPT !.exec = [@ EXCEPT ![d] = e]]
<1>1. V.cc[c] \in callout_cpu BY KernelFields
<1>2. U = [V EXCEPT !.cc = [@ EXCEPT ![c] = q], !.co = [@ EXCEPT ![x] = o]] BY DEF Put, Kernel
<1>3. /\ q \in callout_cpu
      /\ q.wheel = V.cc[c].wheel /\ q.expireq = V.cc[c].expireq /\ q.next = V.cc[c].next
      /\ q.bucket = V.cc[c].bucket /\ q.scan = V.cc[c].scan /\ q.lastscan = V.cc[c].lastscan
      /\ \A d1 \in Entity : q.exec[d1] = IF d1 = d THEN e ELSE V.cc[c].exec[d1]
  BY <1>1 DEF callout_cpu
<1> HIDE DEF q
<1>4. /\ U \in Kernel
      /\ \A c1 \in Cpu : U.cc[c1] = IF c1 = c THEN q ELSE V.cc[c1]
      /\ \A y \in Callout : U.co[y] = IF y = x THEN o ELSE V.co[y]
  <2>1. U = Relinked(V, c, q, x, o) BY <1>2 DEF Relinked
  <2>2. q \in callout_cpu BY <1>3
  <2>3. IsRelinked(U, V, c, q, x, o) BY <2>1, <2>2, RelinkedFacts
  <2> QED BY <2>3 DEF IsRelinked
<1>5. SameLists(U, V) BY <1>3, <1>4 DEF SameLists
<1>6. \A c1 \in Cpu, d1 \in Entity : At(U, c1, d1) = IF c1 = c /\ d1 = d THEN e ELSE At(V, c1, d1)
  BY <1>3, <1>4 DEF At
<1> QED BY <1>4, <1>5, <1>6 DEF IsPut

LEMMA PutSets ==
  ASSUME NEW U, NEW V, NEW c, NEW d, NEW e, NEW x \in Callout, NEW o, IsPut(U, V, c, d, e, x, o)
  PROVE  Sets(U, V, c, d, e, x, o)
BY DEF IsPut, Sets

LEMMA SameListsAre ==
  ASSUME NEW U, NEW V, SameLists(U, V)
  PROVE  /\ \A x : \A c \in Cpu : OnExpireq(U, c, x) <=> OnExpireq(V, c, x)
         /\ \A x : \A c \in Cpu, b \in Bucket : OnWheel(U, c, b, x) <=> OnWheel(V, c, b, x)
         /\ \A c \in Cpu : OnceEach(V, c) => OnceEach(U, c)
         /\ \A c \in Cpu : U.cc[c].lastscan = V.cc[c].lastscan
BY DEF SameLists, OnExpireq, OnWheel, OnceEach

\* Entity e is about no callout but x.
Only(e, x) == e.curr \in {None, x} /\ (e.x = x \/ e.pc \in {"idle", "relock"})

LEMMA OnlyConcerns ==
  ASSUME NEW e, NEW x, Only(e, x), NEW y \in Callout, y # x PROVE ~Concerns(e, y)
BY CalloutWheelAssumption DEF Only, Concerns

\* A steady entity is about its own callout only.
LEMMA SteadyOnly ==
  ASSUME NEW e, NEW d, Steady(e, d), NEW x, e.x = x \/ e.pc \in {"idle", "relock"} PROVE Only(e, x)
BY DEF Steady, Only

LEMMA PutKeeps ==
  ASSUME NEW U, NEW V \in Kernel, NEW c \in Cpu, NEW d \in Entity, NEW e \in cc_exec,
         NEW x \in Callout, NEW o \in callout, IsPut(U, V, c, d, e, x, o),
         e = At(V, c, d) \/ (Only(e, x) /\ Only(At(V, c, d), x)),
         d = 1 /\ e.pc # "idle" => At(V, c, 1).pc # "idle",
         \A c1 \in Cpu : Tidy(V, c1)
  PROVE  /\ OthersAlike(U, V, x)
         /\ \A c1 \in Cpu : Tidy(U, c1)
<1>1. SameLists(U, V) BY DEF IsPut
<1>2. ASSUME NEW y \in Callout, y # x PROVE Alike(U, V, y)
  <2>1. U.co[y] = V.co[y] BY <1>2 DEF IsPut
  <2>2. ASSUME NEW c1 \in Cpu, NEW d1 \in Entity
        PROVE  At(U, c1, d1) = At(V, c1, d1) \/ (~Concerns(At(U, c1, d1), y) /\ ~Concerns(At(V, c1, d1), y))
    <3>1. At(U, c1, d1) = IF c1 = c /\ d1 = d THEN e ELSE At(V, c1, d1) BY DEF IsPut
    <3>2. CASE ~(c1 = c /\ d1 = d) BY <3>1, <3>2
    <3>3. CASE c1 = c /\ d1 = d
      <4>1. At(U, c1, d1) = e BY <3>1, <3>3
      <4>2. CASE e = At(V, c, d) BY <3>3, <4>1, <4>2
      <4>3. CASE Only(e, x) /\ Only(At(V, c, d), x)
        <5>1. ~Concerns(e, y) BY <1>2, <4>3, OnlyConcerns
        <5>2. ~Concerns(At(V, c, d), y) BY <1>2, <4>3, OnlyConcerns
        <5> QED BY <3>3, <4>1, <5>1, <5>2
      <4> QED BY <4>2, <4>3, Zenon
    <3> QED BY <3>2, <3>3
  <2> QED BY <1>1, <2>1, <2>2, SameListsAre DEF Alike
<1>3. ASSUME NEW c1 \in Cpu PROVE Tidy(U, c1)
  <2>1. Tidy(V, c1) OBVIOUS
  <2>2. OnceEach(U, c1) BY <1>1, <2>1, SameListsAre DEF Tidy
  <2>3. At(U, c1, 1).pc # "idle" => At(V, c1, 1).pc # "idle" BY DEF IsPut, Entity
  <2>4. Suspended(U, c1)
    <3>1. Suspended(V, c1) BY <2>1 DEF Tidy
    <3>2. /\ U.cc[c1].wheel = V.cc[c1].wheel /\ U.cc[c1].next = V.cc[c1].next
          /\ U.cc[c1].bucket = V.cc[c1].bucket /\ U.cc[c1].scan = V.cc[c1].scan
      BY <1>1 DEF SameLists
    <3> QED BY <2>3, <3>1, <3>2 DEF Suspended
  <2> QED BY <2>2, <2>4 DEF Tidy
<1> QED BY <1>2, <1>3 DEF OthersAlike

(***************************************************************************)
(* Steps that change the lists of a CPU and the fields of a callout, but no   *)
(* entity.                                                                  *)
(***************************************************************************)
\* But for x, the lists of p are those of q.
ListsBut(p, q, x) ==
  /\ IsInjective(q.expireq) /\ \A b \in Bucket : IsInjective(q.wheel[b])
  /\ \A y \in Callout \ {x} :
       /\ y \in ToSet(q.expireq) <=> y \in ToSet(p.expireq)
       /\ \A b \in Bucket : y \in ToSet(q.wheel[b]) <=> y \in ToSet(p.wheel[b])

ListsOnly(U, V, x) ==
  /\ U \in Kernel
  /\ \A c \in Cpu : Tidy(U, c)
  /\ \A c \in Cpu, d \in Entity : At(U, c, d) = At(V, c, d)
  /\ OthersAlike(U, V, x)
  /\ \A c \in Cpu : U.cc[c].scan = V.cc[c].scan /\ U.cc[c].lastscan = V.cc[c].lastscan

LEMMA RelinkedKeeps ==
  ASSUME NEW U, NEW V \in Kernel, NEW c \in Cpu, NEW q \in callout_cpu, NEW x \in Callout, NEW o \in callout,
         IsRelinked(U, V, c, q, x, o),
         ListsBut(V.cc[c], q, x),
         q.exec = V.cc[c].exec, q.scan = V.cc[c].scan, q.lastscan = V.cc[c].lastscan,
         At(V, c, 1).pc # "idle" =>
           q.bucket = V.cc[c].bucket /\ q.next \in {None} \cup ToSet(q.wheel[q.bucket]),
         \A c1 \in Cpu : Tidy(V, c1)
  PROVE  ListsOnly(U, V, x)
<1>1. \A c1 \in Cpu, d \in Entity : At(U, c1, d) = At(V, c1, d) BY DEF IsRelinked, At
<1>2. ASSUME NEW y \in Callout, y # x PROVE Alike(U, V, y)
  <2>1. U.co[y] = V.co[y] BY <1>2 DEF IsRelinked
  <2>2. \A c1 \in Cpu : OnExpireq(U, c1, y) <=> OnExpireq(V, c1, y)
    BY <1>2 DEF IsRelinked, ListsBut, OnExpireq
  <2>3. \A c1 \in Cpu, b \in Bucket : OnWheel(U, c1, b, y) <=> OnWheel(V, c1, b, y)
    BY <1>2 DEF IsRelinked, ListsBut, OnWheel
  <2> QED BY <1>1, <2>1, <2>2, <2>3 DEF Alike
<1>3. ASSUME NEW c1 \in Cpu PROVE Tidy(U, c1)
  <2>1. CASE c1 # c
    <3>1. U.cc[c1] = V.cc[c1] BY <2>1 DEF IsRelinked
    <3>2. Tidy(V, c1) OBVIOUS
    <3> QED BY <3>1, <3>2 DEF Tidy, OnceEach, Suspended, At
  <2>2. CASE c1 = c
    <3>1. U.cc[c] = q BY DEF IsRelinked
    <3>2. OnceEach(U, c) BY <3>1 DEF OnceEach, ListsBut
    <3>3. Suspended(U, c)
      <4>1. Suspended(V, c) BY DEF Tidy
      <4>2. At(U, c, 1) = At(V, c, 1) BY <1>1 DEF Entity
      <4> QED BY <3>1, <4>1, <4>2 DEF Suspended
    <3> QED BY <2>2, <3>2, <3>3 DEF Tidy
  <2> QED BY <2>1, <2>2
<1>4. \A c1 \in Cpu : U.cc[c1].scan = V.cc[c1].scan /\ U.cc[c1].lastscan = V.cc[c1].lastscan
  BY DEF IsRelinked
<1>5. OthersAlike(U, V, x) BY <1>2 DEF OthersAlike
<1>6. U \in Kernel BY DEF IsRelinked
<1> QED BY <1>1, <1>3, <1>4, <1>5, <1>6 DEF ListsOnly
\* The callout alone, or the entity alone, changes.
LEMMA PutCallout ==
  ASSUME NEW V \in Kernel, NEW x \in Callout, NEW o \in callout, NEW U, U = [V EXCEPT !.co[x] = o],
         NEW c \in Cpu, NEW d \in Entity
  PROVE  IsPut(U, V, c, d, At(V, c, d), x, o)
<1>1. U = [V EXCEPT !.co = [@ EXCEPT ![x] = o]] OBVIOUS
<1>2. U \in Kernel /\ U.cc = V.cc /\ \A y \in Callout : U.co[y] = IF y = x THEN o ELSE V.co[y]
  BY <1>1 DEF Kernel
<1> QED BY <1>2 DEF IsPut, SameLists, At

LEMMA PutEntity ==
  ASSUME NEW V \in Kernel, NEW c \in Cpu, NEW d \in Entity, NEW e \in cc_exec,
         NEW U, U = [V EXCEPT !.cc[c].exec[d] = e], NEW x \in Callout
  PROVE  IsPut(U, V, c, d, e, x, V.co[x])
<1>1. V.co[x] \in callout BY KernelFields
<1>2. [V.co EXCEPT ![x] = V.co[x]] = V.co BY DEF Kernel
<1>3. U = Put(V, c, d, e, x, V.co[x])
  <2>1. U.co = V.co BY DEF Kernel
  <2> QED BY <1>2, <2>1 DEF Put, Kernel
<1> QED BY <1>1, <1>3, PutFacts

Unlisted(V, x) ==
  \A c \in Cpu : ~OnExpireq(V, c, x) /\ \A b \in Bucket : ~OnWheel(V, c, b, x)

LEMMA UnlistedIsLinked ==
  ASSUME NEW V, NEW x, Unlisted(V, x), ~Queued(V.co[x]) PROVE Linked(V, x)
BY DEF Unlisted, Linked, Listed

LEMMA LinkedIsUnlisted ==
  ASSUME NEW V, NEW x, Linked(V, x), ~Queued(V.co[x]) PROVE Unlisted(V, x)
BY DEF Unlisted, Linked, Listed

\* A callout that is set leaves the one list it is on.
LEMMA UnlinkFacts ==
  ASSUME NEW V \in Kernel, NEW x \in Callout, NEW c \in Cpu, c = V.co[x].cpu,
         Listed(V, x), Queued(V.co[x]), \A c1 \in Cpu : Tidy(V, c1),
         NEW U, U = Unlinked(V, c, x)
  PROVE  /\ ListsOnly(U, V, x) /\ Unlisted(U, x)
         /\ \A y \in Callout : U.co[y] = V.co[y]
<1> DEFINE o == V.co[x]
           p == V.cc[c]
           b == callout_get_bucket(o.time)
<1>1. o \in callout /\ p \in callout_cpu /\ [V.co EXCEPT ![x] = o] = V.co BY KernelFields DEF Kernel
<1>2. b \in Bucket /\ o.processed \in BOOLEAN
  BY <1>1, BucketFacts, CalloutFields
<1>3. /\ p.expireq \in Seq(Callout) /\ IsInjective(p.expireq)
      /\ \A i \in Bucket : p.wheel[i] \in Seq(Callout) /\ IsInjective(p.wheel[i])
  BY KernelFields DEF Tidy, OnceEach
<1>4. /\ \A c1 \in Cpu : OnExpireq(V, c1, x) => o.processed /\ c1 = c
      /\ \A c1 \in Cpu, i \in Bucket : OnWheel(V, c1, i, x) => ~o.processed /\ c1 = c /\ i = b
      /\ ~o.processed => x \in ToSet(p.wheel[b])
      /\ \A i \in Bucket : x \in ToSet(p.wheel[i]) => i = b /\ ~o.processed
  BY <1>2 DEF Listed, OnWheel
<1> HIDE DEF b
<1>5. CASE o.processed
  <2> DEFINE l == Without(p.expireq, x)
             q == [p EXCEPT !.expireq = l]
  <2>1. l \in Seq(Callout) /\ IsInjective(l) /\ ToSet(l) = ToSet(p.expireq) \ {x}
    BY <1>3, RemoveFirstFacts DEF Without
  <2>2. U = Relinked(V, c, q, x, o)
    <3>1. U = [V EXCEPT !.cc = [@ EXCEPT ![c] = q]] BY <1>5 DEF Unlinked, Kernel
    <3> HIDE DEF q
    <3> QED BY <1>1, <3>1 DEF Relinked, Kernel
  <2> HIDE DEF l
  <2>3. /\ q \in callout_cpu /\ q.expireq = l /\ q.wheel = p.wheel /\ q.exec = p.exec /\ q.scan = p.scan
        /\ q.lastscan = p.lastscan /\ q.bucket = p.bucket /\ q.next = p.next
    BY <1>1, <2>1 DEF callout_cpu
  <2> HIDE DEF q
  <2>4. IsRelinked(U, V, c, q, x, o) BY <1>1, <2>2, <2>3, RelinkedFacts
  <2>5. ListsBut(p, q, x) BY <1>3, <2>1, <2>3 DEF ListsBut
  <2>6. At(V, c, 1).pc # "idle" => q.bucket = p.bucket /\ q.next \in {None} \cup ToSet(q.wheel[q.bucket])
    BY <2>3 DEF Tidy, Suspended
  <2>7. ListsOnly(U, V, x) BY <1>1, <2>3, <2>4, <2>5, <2>6, RelinkedKeeps
  <2>8. Unlisted(U, x)
    <3>1. \A c1 \in Cpu : U.cc[c1] = IF c1 = c THEN q ELSE V.cc[c1] BY <2>4 DEF IsRelinked
    <3>2. \A c1 \in Cpu : ~OnExpireq(U, c1, x) BY <1>4, <2>1, <2>3, <3>1 DEF OnExpireq
    <3>3. ASSUME NEW c1 \in Cpu, NEW i \in Bucket PROVE ~OnWheel(U, c1, i, x)
      <4>1. ~OnWheel(V, c1, i, x) BY <1>4, <1>5
      <4>2. U.cc[c1].wheel = V.cc[c1].wheel
        <5>1. CASE c1 = c BY <2>3, <3>1, <5>1
        <5>2. CASE c1 # c BY <3>1, <5>2
        <5> QED BY <5>1, <5>2
      <4> QED BY <4>1, <4>2 DEF OnWheel
    <3> QED BY <3>2, <3>3 DEF Unlisted
  <2> QED BY <2>4, <2>7, <2>8 DEF IsRelinked
<1>6. CASE ~o.processed
  <2> DEFINE l == Without(p.wheel[b], x)
             w == [p.wheel EXCEPT ![b] = l]
             n == NextAfter(V, c, x)
             q == [p EXCEPT !.next = n, !.wheel = w]
  <2>1. l \in Seq(Callout) /\ IsInjective(l) /\ ToSet(l) = ToSet(p.wheel[b]) \ {x}
    BY <1>2, <1>3, RemoveFirstFacts DEF Without
  <2>2. U = Relinked(V, c, q, x, o)
    <3>1. U = [V EXCEPT !.cc = [@ EXCEPT ![c] = q]] BY <1>1, <1>6, ZenonT(60) DEF Unlinked, Kernel, b, callout_cpu
    <3> HIDE DEF q
    <3> QED BY <1>1, <3>1 DEF Relinked, Kernel
  <2>3. /\ w \in [Bucket -> Seq(Callout)]
        /\ \A i \in Bucket : w[i] = IF i = b THEN l ELSE p.wheel[i]
    BY <1>1, <1>2, <2>1 DEF callout_cpu, Bucket
  <2>4. n \in Callout \cup {None} /\ n # x
        /\ (n # p.next => p.next = x /\ n \in {None} \cup (ToSet(p.wheel[b]) \ {x}))
    <3>1. LIST_NEXT(p.wheel[b], x) \in {None} \cup (ToSet(p.wheel[b]) \ {x})
      BY <1>2, <1>3, <1>4, <1>6, NextFacts
    <3>2. ToSet(p.wheel[b]) \subseteq Callout BY <1>2, <1>3, ToSetIsSubset
    <3>3. n = IF p.next = x THEN LIST_NEXT(p.wheel[b], x) ELSE p.next BY DEF NextAfter, b
    <3>4. p.next \in Callout \cup {None} BY KernelFields
    <3> QED BY <3>1, <3>2, <3>3, <3>4, CalloutWheelAssumption
  <2> HIDE DEF l, w, n
  <2>5. /\ q \in callout_cpu /\ q.expireq = p.expireq /\ q.wheel = w /\ q.exec = p.exec /\ q.scan = p.scan
        /\ q.lastscan = p.lastscan /\ q.bucket = p.bucket /\ q.next = n
    BY <1>1, <2>3, <2>4 DEF callout_cpu, Bucket
  <2> HIDE DEF q
  <2>6. IsRelinked(U, V, c, q, x, o) BY <1>1, <2>2, <2>5, RelinkedFacts
  <2>7. ListsBut(p, q, x)
    <3>1. \A i \in Bucket : IsInjective(q.wheel[i]) BY <1>3, <2>1, <2>3, <2>5
    <3>2. \A y \in Callout \ {x} : \A i \in Bucket : y \in ToSet(q.wheel[i]) <=> y \in ToSet(p.wheel[i])
      BY <2>1, <2>3, <2>5
    <3> QED BY <1>3, <2>5, <3>1, <3>2 DEF ListsBut
  <2>8. ASSUME At(V, c, 1).pc # "idle"
        PROVE  q.bucket = p.bucket /\ q.next \in {None} \cup ToSet(q.wheel[q.bucket])
    <3>1. p.bucket = ScanBucket(p.scan) /\ p.scan \in Scans
          /\ p.next \in {None} \cup ToSet(p.wheel[p.bucket])
      BY <2>8, KernelFields DEF Tidy, Suspended
    <3>2. p.bucket \in Bucket BY <3>1, BucketFacts DEF Scans, ScanBucket
    <3>3. CASE p.next = x
      <4>1. p.bucket = b BY <1>4, <3>1, <3>2, <3>3, CalloutWheelAssumption
      <4>2. n \in {None} \cup (ToSet(p.wheel[b]) \ {x}) BY <2>4, <3>3
      <4> QED BY <1>2, <2>1, <2>3, <2>5, <4>1, <4>2
    <3>4. CASE p.next # x
      <4>1. n = p.next BY <2>4, <3>4
      <4> QED BY <2>1, <2>3, <2>5, <3>1, <3>2, <3>4, <4>1
    <3> QED BY <3>3, <3>4
  <2>9. ListsOnly(U, V, x) BY <1>1, <2>5, <2>6, <2>7, <2>8, RelinkedKeeps
  <2>10. Unlisted(U, x)
    <3>1. \A c1 \in Cpu : U.cc[c1] = IF c1 = c THEN q ELSE V.cc[c1] BY <2>6 DEF IsRelinked
    <3>2. \A c1 \in Cpu : ~OnExpireq(U, c1, x) BY <1>4, <1>6, <2>5, <3>1 DEF OnExpireq
    <3>3. ASSUME NEW c1 \in Cpu, NEW i \in Bucket PROVE ~OnWheel(U, c1, i, x)
      <4>1. CASE c1 # c BY <1>4, <3>1, <4>1 DEF OnWheel
      <4>2. CASE c1 = c
        <5>1. U.cc[c1].wheel[i] = IF i = b THEN l ELSE p.wheel[i] BY <2>3, <2>5, <3>1, <4>2
        <5>2. x \notin ToSet(l) /\ (i # b => x \notin ToSet(p.wheel[i])) BY <1>4, <2>1
        <5> QED BY <5>1, <5>2 DEF OnWheel
      <4> QED BY <4>1, <4>2
    <3> QED BY <3>2, <3>3 DEF Unlisted
  <2> QED BY <2>6, <2>9, <2>10 DEF IsRelinked
<1> QED BY <1>2, <1>5, <1>6
\* callout_cc_add puts a callout that is on no list before one bucket of its CPU.
LEMMA AddFacts ==
  ASSUME NEW V \in Kernel, NEW x \in Callout, NEW c \in Cpu, NEW when, when.time \in Nat, when.prec \in Int,
         Unlisted(V, x), V.co[x].cpu = c, ~V.co[x].dfr, \A c1 \in Cpu : Tidy(V, c1),
         NEW U, U = callout_cc_add(V, c, x, when)
  PROVE  /\ ListsOnly(U, V, x) /\ Linked(U, x)
         /\ U.co[x].cpu = c /\ ~U.co[x].dfr /\ U.co[x].pending
<1> DEFINE p == V.cc[c]
           sbt == ScannedNext(p, when.time)
           prec == IF SBT_MAX - sbt < when.prec THEN SBT_MAX - sbt ELSE when.prec
           b == callout_get_bucket(sbt)
           l == <<x>> \o p.wheel[b]
           n == IF p.bucket = b THEN x ELSE p.next
           f == IF sbt + prec < p.firstevent THEN sbt + prec ELSE p.firstevent
           w == [p.wheel EXCEPT ![b] = l]
           q == [p EXCEPT !.wheel = w, !.next = n, !.firstevent = f]
           o == [V.co[x] EXCEPT !.pending = TRUE, !.processed = FALSE, !.active = TRUE, !.time = sbt, !.prec = prec]
<1>1. p \in callout_cpu /\ V.co[x] \in callout BY KernelFields
<1>2. sbt \in Nat /\ prec \in Int /\ b \in Bucket /\ f \in Int /\ n \in Callout \cup {None}
  <2>1. p.lastscan \in Nat /\ p.firstevent \in Int /\ p.next \in Callout \cup {None} BY KernelFields
  <2>2. sbt \in Nat BY <2>1 DEF ScannedNext
  <2>3. b \in Bucket BY <2>2, BucketFacts
  <2> HIDE DEF sbt
  <2>4. prec \in Int BY <2>2, CalloutWheelAssumption
  <2> HIDE DEF prec, b
  <2> QED BY <2>1, <2>2, <2>3, <2>4
<1>3. U = Relinked(V, c, q, x, o)
  <2>1. U = [V EXCEPT !.cc[c] = q, !.co[x] = o] BY Zenon DEF callout_cc_add
  <2> HIDE DEF q, o
  <2> QED BY <2>1 DEF Relinked, Kernel
<1>4. o \in callout /\ o.cpu = c /\ ~o.dfr /\ o.pending /\ ~o.processed /\ o.active /\ o.time = sbt
  <2> HIDE DEF sbt, prec
  <2> QED BY <1>1, <1>2 DEF callout
<1>5. b = callout_get_bucket(sbt) OBVIOUS
<1> HIDE DEF sbt, prec, b, f, o
<1>6. /\ p.expireq \in Seq(Callout) /\ IsInjective(p.expireq)
      /\ \A i \in Bucket : p.wheel[i] \in Seq(Callout) /\ IsInjective(p.wheel[i])
  BY KernelFields DEF Tidy, OnceEach
<1>7. x \notin ToSet(p.wheel[b]) BY <1>2 DEF Unlisted, OnWheel
<1>8. l \in Seq(Callout) /\ IsInjective(l) /\ ToSet(l) = ToSet(p.wheel[b]) \cup {x}
  BY <1>2, <1>6, <1>7, ConsFacts
<1>9. /\ w \in [Bucket -> Seq(Callout)]
      /\ \A i \in Bucket : w[i] = IF i = b THEN l ELSE p.wheel[i]
  BY <1>1, <1>2, <1>8 DEF callout_cpu, Bucket
<1>10. n = IF p.bucket = b THEN x ELSE p.next OBVIOUS
<1> HIDE DEF l, w, n
<1>11. /\ q \in callout_cpu /\ q.expireq = p.expireq /\ q.wheel = w /\ q.exec = p.exec /\ q.scan = p.scan
       /\ q.lastscan = p.lastscan /\ q.bucket = p.bucket /\ q.next = n
  BY <1>1, <1>2, <1>9 DEF callout_cpu, Bucket
<1> HIDE DEF q
<1>12. IsRelinked(U, V, c, q, x, o) BY <1>3, <1>4, <1>11, RelinkedFacts
<1>13. ListsBut(p, q, x)
  <2>1. \A i \in Bucket : IsInjective(q.wheel[i]) BY <1>6, <1>8, <1>9, <1>11
  <2>2. \A y \in Callout \ {x} : \A i \in Bucket : y \in ToSet(q.wheel[i]) <=> y \in ToSet(p.wheel[i])
    BY <1>8, <1>9, <1>11
  <2> QED BY <1>6, <1>11, <2>1, <2>2 DEF ListsBut
<1>14. ASSUME At(V, c, 1).pc # "idle"
       PROVE  q.bucket = p.bucket /\ q.next \in {None} \cup ToSet(q.wheel[q.bucket])
  <2>1. /\ p.bucket = ScanBucket(p.scan) /\ p.scan \in Scans
        /\ p.next \in {None} \cup ToSet(p.wheel[p.bucket])
    BY <1>14, KernelFields DEF Tidy, Suspended
  <2>2. p.bucket \in Bucket BY <2>1, BucketFacts DEF Scans, ScanBucket
  <2>3. CASE p.bucket = b BY <1>2, <1>8, <1>9, <1>10, <1>11, <2>3
  <2>4. CASE p.bucket # b BY <1>9, <1>10, <1>11, <2>1, <2>2, <2>4
  <2> QED BY <2>3, <2>4
<1>15. ListsOnly(U, V, x) BY <1>4, <1>11, <1>12, <1>13, <1>14, RelinkedKeeps
<1>16. U.co[x] = o /\ \A c1 \in Cpu : U.cc[c1] = IF c1 = c THEN q ELSE V.cc[c1] BY <1>12 DEF IsRelinked
<1>17. Linked(U, x)
  <2>1. Queued(o) BY <1>4, CalloutWheelAssumption DEF Queued
  <2>2. \A c1 \in Cpu : ~OnExpireq(U, c1, x) BY <1>11, <1>16 DEF Unlisted, OnExpireq
  <2>3. ASSUME NEW c1 \in Cpu, NEW i \in Bucket PROVE OnWheel(U, c1, i, x) <=> c1 = c /\ i = b
    <3>1. CASE c1 # c BY <1>16, <3>1 DEF Unlisted, OnWheel
    <3>2. CASE c1 = c
      <4>1. U.cc[c1].wheel[i] = IF i = b THEN l ELSE p.wheel[i] BY <1>9, <1>11, <1>16, <3>2
      <4>2. x \in ToSet(l) /\ x \notin ToSet(p.wheel[i]) BY <1>8 DEF Unlisted, OnWheel
      <4> QED BY <3>2, <4>1, <4>2 DEF OnWheel
    <3> QED BY <3>1, <3>2
  <2> QED BY <1>4, <1>5, <1>16, <2>1, <2>2, <2>3 DEF Linked, Listed
<1> QED BY <1>4, <1>15, <1>16, <1>17

\* A callout that is not to be moved is taken off its list if it is set.
LEMMA CancelledFacts ==
  ASSUME NEW V \in Kernel, NEW x \in Callout, NEW c \in Cpu, c = V.co[x].cpu, Listed(V, x), ~V.co[x].dfr,
         \A c1 \in Cpu : Tidy(V, c1), NEW U, U = Cancelled(V, c, x)
  PROVE  /\ ListsOnly(U, V, x) /\ Linked(U, x)
         /\ U.co[x].cpu = c /\ ~U.co[x].dfr /\ ~U.co[x].pending
<1>1. CASE ~V.co[x].pending
  <2>1. U = V BY <1>1 DEF Cancelled
  <2>2. OthersAlike(V, V, x) BY DEF OthersAlike, Alike
  <2>3. Linked(V, x) BY <1>1 DEF Linked, Queued
  <2> QED BY <1>1, <2>1, <2>2, <2>3 DEF ListsOnly
<1>2. CASE V.co[x].pending
  <2> DEFINE W == Unlinked(V, c, x)
             o == [W.co[x] EXCEPT !.pending = FALSE, !.active = FALSE]
  <2>1. Queued(V.co[x]) BY <1>2, CalloutWheelAssumption DEF Queued
  <2>2. ListsOnly(W, V, x) /\ Unlisted(W, x) /\ W.co[x] = V.co[x] BY <2>1, UnlinkFacts
  <2>3. U = Idle(W, x) BY <1>2 DEF Cancelled
  <2> HIDE DEF W
  <2>4. W \in Kernel /\ (\A c1 \in Cpu : Tidy(W, c1)) /\ OthersAlike(W, V, x) BY <2>2 DEF ListsOnly
  <2>5. W.co[x] \in callout BY <2>4, KernelFields
  <2>6. U = [W EXCEPT !.co[x] = o] BY <2>3, <2>4, <2>5 DEF Idle, Kernel, callout
  <2>7. o \in callout /\ o.cpu = c /\ ~o.dfr /\ ~o.pending BY <2>2, <2>5 DEF callout
  <2> HIDE DEF o
  <2>8. IsPut(U, W, c, 0, At(W, c, 0), x, o) BY <2>4, <2>6, <2>7, PutCallout DEF Entity
  <2>9. At(W, c, 0) \in cc_exec BY <2>4, KernelFields DEF Entity
  <2>10. OthersAlike(U, W, x) /\ \A c1 \in Cpu : Tidy(U, c1)
    BY <2>4, <2>7, <2>8, <2>9, PutKeeps DEF Entity
  <2>11. OthersAlike(U, V, x) BY <2>4, <2>10, OthersAlikeTransitive
  <2>12. /\ U \in Kernel /\ U.co[x] = o /\ SameLists(U, W)
         /\ \A c1 \in Cpu, d \in Entity : At(U, c1, d) = At(W, c1, d)
    BY <2>8 DEF IsPut
  <2>13. Linked(U, x)
    <3>1. Unlisted(U, x) BY <2>2, <2>12, SameListsAre DEF Unlisted
    <3>2. ~Queued(U.co[x]) BY <2>7, <2>12 DEF Queued
    <3> QED BY <3>1, <3>2, UnlistedIsLinked
  <2>14. ListsOnly(U, V, x)
    <3>1. \A c1 \in Cpu, d \in Entity : At(U, c1, d) = At(V, c1, d) BY <2>2, <2>12 DEF ListsOnly
    <3>2. \A c1 \in Cpu : U.cc[c1].scan = V.cc[c1].scan /\ U.cc[c1].lastscan = V.cc[c1].lastscan
      BY <2>2, <2>12 DEF ListsOnly, SameLists
    <3> QED BY <2>10, <2>11, <2>12, <3>1, <3>2 DEF ListsOnly
  <2> QED BY <2>7, <2>12, <2>13, <2>14
<1> QED BY <1>1, <1>2
(***************************************************************************)
(* What is left to show of a step about callout x.                           *)
(***************************************************************************)
\* The calls that a step changes are about x, or end.
CallsAbout(calls1, calls, x) ==
  \A p \in Task : /\ calls1[p].op = "drain" => calls1[p].x \in Callout
                  /\ calls1[p] = calls[p] \/ calls1[p].x = x \/ calls1[p] = NoCall

DrainsOf(V, calls, x) == \A p \in Task : calls[p].op = "drain" /\ calls[p].x = x => Drains(V, calls[p])

LEMMA NoCallIsIdle == NoCall.op = "none" /\ NoCall.pc = "none" /\ NoCall.x = None /\ ~NoCall.sq
BY DEF NoCall

LEMMA SoundBy ==
  ASSUME NEW V, NEW calls, NEW stops, Sound(V, calls, stops),
         NEW U \in Kernel, NEW calls1, NEW stops1, NEW x \in Callout,
         \A c \in Cpu : Tidy(U, c), \A c \in Cpu, d \in Entity : Steady(At(U, c, d), d),
         OthersAlike(U, V, x), Fine(U, calls1, stops1, x), stops1 \subseteq stops \cup {x},
         CallsAbout(calls1, calls, x), DrainsOf(U, calls1, x)
  PROVE  Sound(U, calls1, stops1)
<1>1. V \in Kernel BY DEF Sound
<1>2. ASSUME NEW y \in Callout PROVE Fine(U, calls1, stops1, y)
  <2>1. CASE y = x BY <2>1
  <2>2. CASE y # x
    <3>1. Fine(V, calls, stops, y) /\ Alike(U, V, y) BY <2>2 DEF Sound, OthersAlike
    <3>2. Fine(U, calls, stops, y) BY <1>1, <3>1, AlikeFine
    <3>3. \A p \in Task : ThreadMoves(calls1[p], y) => ThreadMoves(calls[p], y)
      BY <2>2, NoCallIsIdle DEF CallsAbout, ThreadMoves
    <3>4. Moved(U, calls1, y) BY <3>2, <3>3 DEF Fine, Moved
    <3>5. Kept(U, stops1, y)
      <4>1. y \in stops1 => y \in stops BY <2>2
      <4> QED BY <3>2, <4>1 DEF Fine, Kept
    <3> QED BY <3>2, <3>4, <3>5 DEF Fine
  <2> QED BY <2>1, <2>2
<1>3. ASSUME NEW p \in Task PROVE Drains(U, calls1[p])
  <2>1. CASE calls1[p].op # "drain" BY <2>1 DEF Drains
  <2>2. CASE calls1[p].op = "drain" /\ calls1[p].x = x BY <2>2 DEF DrainsOf
  <2>3. CASE calls1[p].op = "drain" /\ calls1[p].x # x
    <3>1. calls1[p] = calls[p] /\ calls1[p].x \in Callout BY <2>3, NoCallIsIdle DEF CallsAbout
    <3>2. Alike(U, V, calls[p].x) BY <2>3, <3>1 DEF OthersAlike
    <3>3. Drains(V, calls[p]) BY DEF Sound
    <3>4. Drains(U, calls[p]) BY <1>1, <3>1, <3>2, <3>3, AlikeDrains
    <3> QED BY <3>1, <3>4
  <2> QED BY <2>1, <2>2, <2>3
<1> QED BY <1>2, <1>3 DEF Sound

\* Of a step that changes one entity and the fields of x.
LEMMA PutSound ==
  ASSUME NEW V, NEW calls, NEW stops, Sound(V, calls, stops),
         NEW c \in Cpu, NEW d \in Entity, NEW e \in cc_exec, NEW x \in Callout, NEW o \in callout,
         NEW U, IsPut(U, V, c, d, e, x, o), NEW calls1, NEW stops1,
         e = At(V, c, d) \/ (e.x = x /\ (At(V, c, d).x = x \/ At(V, c, d).pc \in {"idle", "relock"})),
         d = 1 /\ e.pc # "idle" => At(V, c, 1).pc # "idle",
         Steady(e, d), Fine(U, calls1, stops1, x), stops1 \subseteq stops \cup {x},
         CallsAbout(calls1, calls, x), DrainsOf(U, calls1, x)
  PROVE  Sound(U, calls1, stops1)
<1>1. V \in Kernel /\ (\A c1 \in Cpu : Tidy(V, c1)) /\ \A c1 \in Cpu, d1 \in Entity : Steady(At(V, c1, d1), d1)
  BY DEF Sound
<1>2. e = At(V, c, d) \/ (Only(e, x) /\ Only(At(V, c, d), x))
  <2>1. CASE e = At(V, c, d) BY <2>1
  <2>2. CASE e.x = x /\ (At(V, c, d).x = x \/ At(V, c, d).pc \in {"idle", "relock"})
    <3>1. Only(e, x) BY <2>2, SteadyOnly
    <3>2. Only(At(V, c, d), x) BY <1>1, <2>2, SteadyOnly
    <3> QED BY <3>1, <3>2
  <2> QED BY <2>1, <2>2
<1>3. OthersAlike(U, V, x) /\ \A c1 \in Cpu : Tidy(U, c1) BY <1>1, <1>2, PutKeeps
<1>4. U \in Kernel BY DEF IsPut
<1>5. ASSUME NEW c1 \in Cpu, NEW d1 \in Entity PROVE Steady(At(U, c1, d1), d1)
  <2>1. At(U, c1, d1) = IF c1 = c /\ d1 = d THEN e ELSE At(V, c1, d1) BY DEF IsPut
  <2>2. CASE c1 = c /\ d1 = d BY <2>1, <2>2
  <2>3. CASE ~(c1 = c /\ d1 = d) BY <1>1, <2>1, <2>3
  <2> QED BY <2>2, <2>3
<1> QED BY <1>3, <1>4, <1>5, SoundBy

LEMMA LinkedAfter ==
  ASSUME NEW U, NEW V, NEW c, NEW d, NEW e, NEW x \in Callout, NEW o, IsPut(U, V, c, d, e, x, o),
         (o = V.co[x] /\ Linked(V, x)) \/ (~Queued(o) /\ Unlisted(V, x))
  PROVE  Linked(U, x)
<1>1. U.co[x] = o /\ SameLists(U, V) BY DEF IsPut
<1>2. CASE o = V.co[x] /\ Linked(V, x)
  BY <1>1, <1>2, SameListsAre DEF Linked, Listed
<1>3. CASE ~Queued(o) /\ Unlisted(V, x)
  <2>1. Unlisted(U, x) BY <1>1, <1>3, SameListsAre DEF Unlisted
  <2> QED BY <1>1, <1>3, <2>1, UnlistedIsLinked
<1> QED BY <1>2, <1>3

\* The entity is the one that runs x, if any does, before or after.
LEMMA RunningAfter ==
  ASSUME NEW U, NEW V, NEW c \in Cpu, NEW d \in Entity, NEW e, NEW x \in Callout, NEW o,
         Sets(U, V, c, d, e, x, o),
         \A c1 \in Cpu, d1 \in Entity : At(V, c1, d1).curr = x => c1 = c /\ d1 = d,
         e.curr = x => c = o.cpu /\ d = dir(x) /\ Current(o, e, x),
         o.dfr => e.curr = x /\ (o.pending => o.active)
  PROVE  Running(U, x)
<1>1. U.co[x] = o /\ At(U, c, d) = e BY DEF Sets
<1>2. ASSUME NEW c1 \in Cpu, NEW d1 \in Entity, At(U, c1, d1).curr = x
      PROVE  c1 = o.cpu /\ d1 = dir(x) /\ Current(o, At(U, c1, d1), x)
  <2>1. c1 = c /\ d1 = d BY <1>2 DEF Sets
  <2> QED BY <1>1, <1>2, <2>1
<1>3. o.dfr => o.cpu \in Cpu /\ At(U, o.cpu, dir(x)).curr = x /\ (o.pending => o.active)
  BY <1>1
<1> QED BY <1>1, <1>2, <1>3 DEF Running

\* The entity does not run x.
LEMMA NotRunningAfter ==
  ASSUME NEW U, NEW V, NEW c \in Cpu, NEW d \in Entity, NEW e, NEW x \in Callout, NEW o,
         Sets(U, V, c, d, e, x, o), Running(V, x), o = V.co[x], At(V, c, d).curr # x, e.curr # x
  PROVE  Running(U, x)
<1>1. U.co[x] = o BY DEF Sets
<1>2. ASSUME NEW c1 \in Cpu, NEW d1 \in Entity, At(U, c1, d1).curr = x \/ At(V, c1, d1).curr = x
      PROVE  At(U, c1, d1) = At(V, c1, d1)
  <2>1. At(U, c1, d1) = IF c1 = c /\ d1 = d THEN e ELSE At(V, c1, d1) BY DEF Sets
  <2> QED BY <1>2, <2>1
<1>3. ASSUME NEW c1 \in Cpu, NEW d1 \in Entity, At(U, c1, d1).curr = x
      PROVE  c1 = o.cpu /\ d1 = dir(x) /\ Current(o, At(U, c1, d1), x)
  <2>1. At(U, c1, d1) = At(V, c1, d1) BY <1>2, <1>3
  <2> QED BY <1>3, <2>1 DEF Running
<1>4. o.dfr => o.cpu \in Cpu /\ At(U, o.cpu, dir(x)).curr = x /\ (o.pending => o.active)
  BY <1>2, DirIsEntity DEF Running
<1> QED BY <1>1, <1>3, <1>4 DEF Running

LEMMA RunsOnce ==
  ASSUME NEW V, NEW x, Running(V, x), NEW c \in Cpu, NEW d \in Entity, At(V, c, d).curr = x
  PROVE  /\ c = V.co[x].cpu /\ d = dir(x) /\ Current(V.co[x], At(V, c, d), x)
         /\ \A c1 \in Cpu, d1 \in Entity : At(V, c1, d1).curr = x => c1 = c /\ d1 = d
BY DEF Running

\* No move of x begins.
LEMMA MovedAfter ==
  ASSUME NEW U, NEW V, NEW c \in Cpu, NEW d \in Entity, NEW e, NEW x \in Callout, NEW o,
         Sets(U, V, c, d, e, x, o), NEW calls, NEW calls1, Moved(V, calls, x),
         e.pc # "switch" \/ e = At(V, c, d), o.cpu = V.co[x].cpu,
         \A p \in Task : ThreadMoves(calls1[p], x) => ThreadMoves(calls[p], x)
  PROVE  Moved(U, calls1, x)
<1>1. U.co[x].cpu = V.co[x].cpu BY DEF Sets
<1>2. ASSUME NEW c1 \in Cpu, NEW d1 \in Entity, EntityMoves(U, c1, d1, x) PROVE EntityMoves(V, c1, d1, x)
  <2>1. At(U, c1, d1) = IF c1 = c /\ d1 = d THEN e ELSE At(V, c1, d1) BY DEF Sets
  <2>2. At(U, c1, d1) = At(V, c1, d1) BY <1>2, <2>1 DEF EntityMoves
  <2> QED BY <1>2, <2>2 DEF EntityMoves
<1> QED BY <1>1, <1>2 DEF Moved

LEMMA KeptAfter ==
  ASSUME NEW U, NEW V, NEW c \in Cpu, NEW d \in Entity, NEW e, NEW x \in Callout, NEW o,
         Sets(U, V, c, d, e, x, o), NEW stops, Kept(V, stops, x),
         x \in stops => ~o.pending /\ ~o.dfr /\ o.cpu # CPUBLOCK /\ (e.curr = x => Cancels(e))
  PROVE  Kept(U, stops, x)
<1>1. U.co[x] = o BY DEF Sets
<1>2. ASSUME NEW c1 \in Cpu, NEW d1 \in Entity, At(U, c1, d1).curr = x, x \in stops
      PROVE  Cancels(At(U, c1, d1))
  <2>1. At(U, c1, d1) = IF c1 = c /\ d1 = d THEN e ELSE At(V, c1, d1) BY DEF Sets
  <2>2. CASE c1 = c /\ d1 = d BY <1>2, <2>1, <2>2
  <2>3. CASE ~(c1 = c /\ d1 = d) BY <1>2, <2>1, <2>3 DEF Kept
  <2> QED BY <2>2, <2>3
<1> QED BY <1>1, <1>2 DEF Kept
LEMMA DrainsAfter ==
  ASSUME NEW U, NEW V, NEW c \in Cpu, NEW d \in Entity, NEW e, NEW x \in Callout, NEW o,
         Sets(U, V, c, d, e, x, o), NEW calls, DrainsOf(V, calls, x),
         o.cpu = V.co[x].cpu, o.dfr => V.co[x].dfr,
         WakeupToCome(At(V, c, d), x) => WakeupToCome(e, x)
  PROVE  DrainsOf(U, calls, x)
<1>1. U.co[x] = o BY DEF Sets
<1>2. ASSUME NEW c1 \in Cpu, NEW d1 \in Entity, WakeupToCome(At(V, c1, d1), x)
      PROVE  WakeupToCome(At(U, c1, d1), x)
  <2>1. At(U, c1, d1) = IF c1 = c /\ d1 = d THEN e ELSE At(V, c1, d1) BY DEF Sets
  <2>2. CASE c1 = c /\ d1 = d BY <1>2, <2>1, <2>2
  <2>3. CASE ~(c1 = c /\ d1 = d) BY <1>2, <2>1, <2>3
  <2> QED BY <2>2, <2>3
<1>3. ASSUME NEW p \in Task, calls[p].op = "drain", calls[p].x = x PROVE Drains(U, calls[p])
  <2>1. Drains(V, calls[p]) BY <1>3 DEF DrainsOf
  <2>2. dir(x) \in Entity BY DirIsEntity
  <2>3. calls[p].pc \in {"add", "sleep"} => WakeupToCome(At(U, o.cpu, dir(x)), x)
    BY <1>2, <1>3, <2>1, <2>2 DEF Drains
  <2> QED BY <1>1, <1>3, <2>1, <2>3 DEF Drains
<1> QED BY <1>3 DEF DrainsOf

LEMMA SoundParts ==
  ASSUME NEW V, NEW calls, NEW stops, Sound(V, calls, stops)
  PROVE  /\ V \in Kernel /\ \A c \in Cpu : Tidy(V, c)
         /\ \A c \in Cpu, d \in Entity : Steady(At(V, c, d), d) /\ At(V, c, d) \in cc_exec
         /\ \A x \in Callout : /\ Linked(V, x) /\ Running(V, x) /\ Moved(V, calls, x) /\ Kept(V, stops, x)
                               /\ DrainsOf(V, calls, x) /\ V.co[x] \in callout
<1>1. V \in Kernel BY DEF Sound
<1> QED BY <1>1, KernelFields DEF Sound, Fine, DrainsOf

\* What the invariant says of the calls alone.
CallsOK == call \in [Task -> Call] /\ \A p \in Task : Legal(call[p], scenario.ops[p])

LEMMA SameCallsAbout == ASSUME CallsOK, NEW x PROVE CallsAbout(call, call, x)
BY NoCallIsIdle DEF CallsOK, Legal, CallsAbout

\* What the invariant and the action properties need of every step.
Quiet(U, V) ==
  /\ \A c \in Cpu : U.cc[c].lastscan = V.cc[c].lastscan
  /\ \A c \in Cpu, d \in Entity : At(U, c, d).pc = "drain" => At(V, c, d).pc = "drain"

LEMMA QuietTransitive ==
  ASSUME NEW U, NEW V, NEW W, Quiet(U, V), Quiet(V, W) PROVE Quiet(U, W)
BY DEF Quiet

LEMMA PutQuiet ==
  ASSUME NEW U, NEW V, NEW c \in Cpu, NEW d \in Entity, NEW e, NEW x, NEW o, IsPut(U, V, c, d, e, x, o),
         e.pc = "drain" => At(V, c, d).pc = "drain"
  PROVE  Quiet(U, V)
<1>1. \A c1 \in Cpu : U.cc[c1].lastscan = V.cc[c1].lastscan BY SameListsAre DEF IsPut
<1>2. ASSUME NEW c1 \in Cpu, NEW d1 \in Entity, At(U, c1, d1).pc = "drain" PROVE At(V, c1, d1).pc = "drain"
  <2>1. At(U, c1, d1) = IF c1 = c /\ d1 = d THEN e ELSE At(V, c1, d1) BY DEF IsPut
  <2> QED BY <1>2, <2>1
<1> QED BY <1>1, <1>2 DEF Quiet

LEMMA ListsOnlyQuiet == ASSUME NEW U, NEW V, NEW x, ListsOnly(U, V, x) PROVE Quiet(U, V)
BY DEF ListsOnly, Quiet

(***************************************************************************)
(* Steps of an entity that goes on with its callout x.                        *)
(***************************************************************************)
LEMMA OwnStep ==
  ASSUME CallsOK, Sound(K, call, stopped), NEW c \in Cpu, NEW d \in Entity, NEW x, At(K, c, d).curr = x, x # None,
         NEW e, e \in cc_exec, NEW U, U = [K EXCEPT !.cc[c].exec[d] = e],
         e.curr = x, e.x = x, Steady(e, d), Current(K.co[x], e, x),
         x \in stopped => Cancels(e), At(K, c, d).waiting => e.waiting
  PROVE  Sound(U, call, stopped) /\ Quiet(U, K)
<1> DEFINE o == K.co[x]
           a == At(K, c, d)
<1>1. /\ K \in Kernel /\ Steady(a, d) /\ a \in cc_exec
  BY SoundParts
<1>2. x \in Callout /\ a.x = x /\ a.pc \in {"lock", "run", "finish"} BY <1>1, ExecFields DEF Steady
<1>3. /\ Linked(K, x) /\ Running(K, x) /\ Moved(K, call, x) /\ Kept(K, stopped, x)
      /\ DrainsOf(K, call, x) /\ o \in callout
  BY <1>2, SoundParts
<1>4. c = o.cpu /\ d = dir(x) /\ \A c1 \in Cpu, d1 \in Entity : At(K, c1, d1).curr = x => c1 = c /\ d1 = d
  BY <1>3, RunsOnce
<1>5. IsPut(U, K, c, d, e, x, o) /\ Sets(U, K, c, d, e, x, o) BY <1>1, <1>2, PutEntity DEF IsPut, Sets
<1>6. e.pc \in {"lock", "run", "finish"} BY <1>2, CalloutWheelAssumption DEF Steady
<1>7. Linked(U, x) BY <1>2, <1>3, <1>5, LinkedAfter
<1>8. Running(U, x)
  <2>1. o.dfr => e.curr = x /\ (o.pending => o.active) BY <1>3 DEF Running
  <2>2. e.curr = x => c = o.cpu /\ d = dir(x) /\ Current(o, e, x) BY <1>4
  <2>3. Sets(U, K, c, d, e, x, o) BY <1>5
  <2>4. \A c1 \in Cpu, d1 \in Entity : At(K, c1, d1).curr = x => c1 = c /\ d1 = d BY <1>4
  <2> HIDE DEF o, a
  <2> QED BY <1>2, <2>1, <2>2, <2>3, <2>4, RunningAfter
<1>9. Moved(U, call, x)
  <2>1. \A p \in Task : ThreadMoves(call[p], x) => ThreadMoves(call[p], x) OBVIOUS
  <2>2. e.pc # "switch" BY <1>6
  <2> QED BY <1>2, <1>3, <1>5, <2>1, <2>2, MovedAfter
<1>10. Kept(U, stopped, x)
  <2>1. x \in stopped => ~o.pending /\ ~o.dfr /\ o.cpu # CPUBLOCK /\ (e.curr = x => Cancels(e))
    BY <1>3 DEF Kept
  <2> QED BY <1>2, <1>3, <1>5, <2>1, KeptAfter
<1>11. DrainsOf(U, call, x)
  <2>1. WakeupToCome(a, x) => WakeupToCome(e, x) BY <1>2, <1>6 DEF WakeupToCome
  <2> QED BY <1>2, <1>3, <1>5, <2>1, DrainsAfter
<1>12. Fine(U, call, stopped, x) BY <1>7, <1>8, <1>9, <1>10 DEF Fine
<1>13. CallsAbout(call, call, x) BY SameCallsAbout
<1>14. d = 1 /\ e.pc # "idle" => At(K, c, 1).pc # "idle" BY <1>2
<1>15. Sound(U, call, stopped) BY <1>2, <1>3, <1>5, <1>11, <1>12, <1>13, <1>14, PutSound
<1>16. Quiet(U, K)
  <2>1. e.pc = "drain" => At(K, c, d).pc = "drain" BY <1>6
  <2> QED BY <1>5, <2>1, PutQuiet
<1> QED BY <1>15, <1>16

LEMMA TakeLockKeeps ==
  ASSUME CallsOK, Sound(K, call, stopped), NEW c \in Cpu, NEW d \in Entity, TakeLock(c, d)
  PROVE  Sound(K', call', stopped') /\ Quiet(K', K)
<1> DEFINE a == At(K, c, d)
           x == a.x
           o == K.co[x]
           f == [a EXCEPT !.pc = "finish"]
           r == [a EXCEPT !.cancel = TRUE, !.pc = "run"]
<1>1. K \in Kernel /\ Steady(a, d) /\ a \in cc_exec BY SoundParts
<1>2. a.pc = "lock" /\ a.curr = x /\ x \in Callout /\ x # None
  BY <1>1, CalloutWheelAssumption DEF TakeLock, At, Steady
<1>3. Running(K, x) /\ Kept(K, stopped, x) BY <1>2, SoundParts
<1>4. Current(o, a, x) BY <1>2, <1>3, RunsOnce
<1>5. call' = call /\ stopped' = stopped BY DEF TakeLock
<1>6. K.cc[c] \in callout_cpu BY <1>1, KernelFields
<1>7. CASE a.cancel
  <2>1. K' = [K EXCEPT !.cc[c].exec[d] = f]
    BY <1>1, <1>6, <1>7 DEF TakeLock, WasCancelled, At
  <2>2. /\ f \in cc_exec /\ f.curr = x /\ f.x = x /\ f.pc = "finish" /\ f.cancel /\ f.waiting = a.waiting
        /\ f.drain = a.drain /\ f.migration = a.migration
    BY <1>1, <1>2, <1>7 DEF cc_exec
  <2>3. Steady(f, d) BY <1>1, <1>2, <2>2, CalloutWheelAssumption DEF Steady
  <2>4. Current(o, f, x) BY <1>4, <2>2 DEF Current
  <2>5. Cancels(f) BY <2>2 DEF Cancels
  <2> HIDE DEF f
  <2> QED BY <1>2, <1>5, <2>1, <2>2, <2>3, <2>4, <2>5, OwnStep
<1>8. CASE ~a.cancel
  <2>1. K' = [K EXCEPT !.cc[c].exec[d] = r]
    BY <1>1, <1>6, <1>8 DEF TakeLock, WasCancelled, At, Kernel, callout_cpu
  <2>2. /\ r \in cc_exec /\ r.curr = x /\ r.x = x /\ r.pc = "run" /\ r.cancel /\ r.waiting = a.waiting
        /\ r.drain = a.drain /\ r.migration = a.migration
    BY <1>1, <1>2, <1>8 DEF cc_exec
  <2>3. Steady(r, d) BY <1>1, <1>2, <2>2, CalloutWheelAssumption DEF Steady
  <2>4. Current(o, r, x) BY <1>4, <2>2 DEF Current
  <2>5. x \notin stopped BY <1>2, <1>3, <1>8 DEF Kept, Cancels
  <2> HIDE DEF r
  <2> QED BY <1>2, <1>5, <2>1, <2>2, <2>3, <2>4, <2>5, OwnStep
<1> QED BY <1>7, <1>8

LEMMA HandlerReturnsKeeps ==
  ASSUME CallsOK, Sound(K, call, stopped), NEW c \in Cpu, NEW d \in Entity, HandlerReturns(c, d)
  PROVE  Sound(K', call', stopped') /\ Quiet(K', K)
<1> DEFINE a == At(K, c, d)
           x == a.x
           o == K.co[x]
           f == [a EXCEPT !.pc = "finish"]
<1>1. K \in Kernel /\ Steady(a, d) /\ a \in cc_exec BY SoundParts
<1>2. a.pc = "run" /\ a.curr = x /\ x \in Callout /\ x # None
  BY <1>1, CalloutWheelAssumption DEF HandlerReturns, At, Steady
<1>3. Running(K, x) BY <1>2, SoundParts
<1>4. Current(o, a, x) BY <1>2, <1>3, RunsOnce
<1>5. call' = call /\ stopped' = stopped BY DEF HandlerReturns
<1>6. K.cc[c] \in callout_cpu BY <1>1, KernelFields
<1>7. K' = [K EXCEPT !.cc[c].exec[d] = f] BY <1>1, <1>6 DEF HandlerReturns, At
<1>8. /\ f \in cc_exec /\ f.curr = x /\ f.x = x /\ f.pc = "finish" /\ f.cancel = a.cancel /\ f.waiting = a.waiting
      /\ f.drain = a.drain /\ f.migration = a.migration
  BY <1>1, <1>2 DEF cc_exec
<1>9. Steady(f, d) BY <1>1, <1>2, <1>8, CalloutWheelAssumption DEF Steady
<1>10. Current(o, f, x) BY <1>2, <1>4, <1>8 DEF Current
<1>11. Cancels(f) BY <1>8 DEF Cancels
<1> HIDE DEF f
<1> QED BY <1>2, <1>5, <1>7, <1>8, <1>9, <1>10, <1>11, OwnStep
(***************************************************************************)
(* Steps of one CPU.                                                        *)
(***************************************************************************)
\* A step of CPU c that is about callout x, or about none.
IsStep(U, V, c, x) ==
  /\ U \in Kernel
  /\ \A y \in Callout \ {x} : U.co[y] = V.co[y]
  /\ \A c1 \in Cpu \ {c} : U.cc[c1] = V.cc[c1]
  /\ \A d \in Entity : At(U, c, d) = At(V, c, d) \/ (Only(At(U, c, d), x) /\ Only(At(V, c, d), x))
  /\ ListsBut(V.cc[c], U.cc[c], x)
  /\ Suspended(U, c)

LEMMA StepKeeps ==
  ASSUME NEW U, NEW V \in Kernel, NEW c \in Cpu, NEW x, IsStep(U, V, c, x), \A c1 \in Cpu : Tidy(V, c1)
  PROVE  OthersAlike(U, V, x) /\ \A c1 \in Cpu : Tidy(U, c1)
<1>1. ASSUME NEW c1 \in Cpu, c1 # c PROVE U.cc[c1] = V.cc[c1] BY <1>1 DEF IsStep
<1>2. ASSUME NEW y \in Callout, y # x PROVE Alike(U, V, y)
  <2>1. U.co[y] = V.co[y] BY <1>2 DEF IsStep
  <2>2. \A c1 \in Cpu : OnExpireq(U, c1, y) <=> OnExpireq(V, c1, y)
    BY <1>1, <1>2 DEF IsStep, ListsBut, OnExpireq
  <2>3. \A c1 \in Cpu, b \in Bucket : OnWheel(U, c1, b, y) <=> OnWheel(V, c1, b, y)
    BY <1>1, <1>2 DEF IsStep, ListsBut, OnWheel
  <2>4. ASSUME NEW c1 \in Cpu, NEW d \in Entity
        PROVE  At(U, c1, d) = At(V, c1, d) \/ (~Concerns(At(U, c1, d), y) /\ ~Concerns(At(V, c1, d), y))
    <3>1. CASE c1 # c BY <1>1, <3>1 DEF At
    <3>2. CASE c1 = c /\ At(U, c, d) = At(V, c, d) BY <3>2
    <3>3. CASE c1 = c /\ Only(At(U, c, d), x) /\ Only(At(V, c, d), x)
      <4>1. ~Concerns(At(U, c, d), y) BY <1>2, <3>3, OnlyConcerns
      <4>2. ~Concerns(At(V, c, d), y) BY <1>2, <3>3, OnlyConcerns
      <4> QED BY <3>3, <4>1, <4>2
    <3> QED BY <3>1, <3>2, <3>3 DEF IsStep
  <2> QED BY <2>1, <2>2, <2>3, <2>4 DEF Alike
<1>3. ASSUME NEW c1 \in Cpu PROVE Tidy(U, c1)
  <2>1. CASE c1 # c
    <3>1. Tidy(V, c1) OBVIOUS
    <3> QED BY <1>1, <2>1, <3>1 DEF Tidy, OnceEach, Suspended, At
  <2>2. CASE c1 = c BY <2>2 DEF IsStep, ListsBut, Tidy, OnceEach
  <2> QED BY <2>1, <2>2
<1> QED BY <1>2, <1>3 DEF OthersAlike

LEMMA StepSound ==
  ASSUME CallsOK, NEW V, Sound(V, call, stopped), NEW U, NEW c \in Cpu, NEW x \in Callout \cup {None},
         IsStep(U, V, c, x), \A d \in Entity : Steady(At(U, c, d), d),
         x # None => Fine(U, call, stopped, x) /\ DrainsOf(U, call, x)
  PROVE  Sound(U, call, stopped)
<1>1. /\ V \in Kernel /\ \A c1 \in Cpu : Tidy(V, c1)
      /\ \A c1 \in Cpu, d \in Entity : Steady(At(V, c1, d), d)
  BY SoundParts
<1>2. OthersAlike(U, V, x) /\ \A c1 \in Cpu : Tidy(U, c1) BY <1>1, StepKeeps
<1>3. U \in Kernel BY DEF IsStep
<1>4. \A c1 \in Cpu, d \in Entity : Steady(At(U, c1, d), d)
  BY <1>1 DEF IsStep, At
<1>5. CASE x # None
  <2>1. x \in Callout BY <1>5
  <2>2. CallsAbout(call, call, x) BY SameCallsAbout
  <2> QED BY <1>2, <1>3, <1>4, <1>5, <2>1, <2>2, SoundBy
<1>6. CASE x = None
  <2>1. \A y \in Callout : Alike(U, V, y) BY <1>2, <1>6, CalloutWheelAssumption DEF OthersAlike
  <2>2. \A y \in Callout : Fine(U, call, stopped, y) BY <1>1, <1>3, <2>1, AlikeFine DEF Sound
  <2>3. ASSUME NEW p \in Task PROVE Drains(U, call[p])
    <3>1. call[p].op = "drain" => call[p].x \in Callout BY NoCallIsIdle DEF CallsOK, Legal
    <3>2. call[p].op = "drain" => call[p].x \in Callout /\ Alike(U, V, call[p].x) BY <2>1, <3>1
    <3>3. Drains(V, call[p]) BY DEF Sound
    <3> QED BY <1>1, <1>3, <3>2, <3>3, AlikeDrains
  <2> QED BY <1>2, <1>3, <1>4, <2>2, <2>3 DEF Sound
<1> QED BY <1>5, <1>6

\* One CPU alone changes.
IsCpu(U, V, c, q) ==
  /\ U \in Kernel /\ U.co = V.co
  /\ \A c1 \in Cpu : U.cc[c1] = IF c1 = c THEN q ELSE V.cc[c1]

CpuPut(V, c, q) == [V EXCEPT !.cc[c] = q]

LEMMA CpuFacts ==
  ASSUME NEW V \in Kernel, NEW c \in Cpu, NEW q \in callout_cpu
  PROVE  IsCpu(CpuPut(V, c, q), V, c, q)
BY DEF Kernel, IsCpu, CpuPut

\* An entity that is idle, or has its callout behind it.
Rests(e) == e.pc \in {"idle", "relock"}

\* The lists stay as they are.
LEMMA CpuSound ==
  ASSUME CallsOK, NEW V, Sound(V, call, stopped), NEW c \in Cpu, NEW q \in callout_cpu,
         NEW U, IsCpu(U, V, c, q), q.wheel = V.cc[c].wheel, q.expireq = V.cc[c].expireq,
         \A d \in Entity :
           q.exec[d] = At(V, c, d) \/ (Rests(q.exec[d]) /\ Rests(At(V, c, d)) /\ Steady(q.exec[d], d)),
         q.exec[1].pc # "idle" =>
           q.scan # None /\ q.bucket = ScanBucket(q.scan)
           /\ q.next \in {None} \cup ToSet(q.wheel[q.bucket])
  PROVE  Sound(U, call, stopped)
<1>1. V \in Kernel /\ Tidy(V, c) /\ \A d \in Entity : Steady(At(V, c, d), d) BY SoundParts
<1>2. U.cc[c] = q BY DEF IsCpu
<1>3. \A d \in Entity : At(U, c, d) = q.exec[d] BY <1>2 DEF At
<1>4. \A d \in Entity : Steady(At(U, c, d), d) BY <1>1, <1>3
<1>5. IsStep(U, V, c, None)
  <2>1. ListsBut(V.cc[c], q, None) BY <1>1 DEF Tidy, OnceEach, ListsBut
  <2>2. Suspended(U, c) BY <1>2 DEF Suspended, At
  <2>3. ASSUME NEW d \in Entity
        PROVE  At(U, c, d) = At(V, c, d) \/ (Only(At(U, c, d), None) /\ Only(At(V, c, d), None))
    <3>1. CASE q.exec[d] = At(V, c, d) BY <1>3, <3>1
    <3>2. CASE Rests(q.exec[d]) /\ Rests(At(V, c, d))
      <4>1. Only(q.exec[d], None) BY <1>3, <1>4, <3>2, SteadyOnly DEF Rests
      <4>2. Only(At(V, c, d), None) BY <1>1, <3>2, SteadyOnly DEF Rests
      <4> QED BY <1>3, <4>1, <4>2
    <3> QED BY <3>1, <3>2
  <2> QED BY <1>2, <2>1, <2>2, <2>3 DEF IsStep, IsCpu
<1> QED BY <1>4, <1>5, StepSound
\* softclock_call_cc with a callout that has been taken off its list.
LEMMA CalledSound ==
  ASSUME CallsOK, NEW V, Sound(V, call, stopped), NEW c \in Cpu, NEW d \in Entity, NEW x \in Callout,
         Queued(V.co[x]), V.co[x].cpu = c, d = dir(x), Rests(At(V, c, d)),
         NEW q \in callout_cpu, ListsBut(V.cc[c], q, x), x \notin ToSet(q.expireq),
         \A b \in Bucket : x \notin ToSet(q.wheel[b]),
         q.exec = V.cc[c].exec, q.lastscan = V.cc[c].lastscan,
         d = 1 \/ q.exec[1].pc # "idle" =>
           q.scan # None /\ q.bucket = ScanBucket(q.scan)
           /\ q.next \in {None} \cup ToSet(q.wheel[q.bucket]),
         NEW U, U = Called(CpuPut(V, c, q), c, d, x)
  PROVE  Sound(U, call, stopped) /\ Quiet(U, V) /\ At(U, c, d).pc # "idle"
<1> DEFINE W == CpuPut(V, c, q)
           a == At(V, c, d)
           e == [W.cc[c].exec[d] EXCEPT !.pc = IF x \in Locked THEN "lock" ELSE "run", !.x = x,
                                        !.curr = x, !.cancel = FALSE, !.drain = FALSE]
           o == [W.co[x] EXCEPT !.pending = FALSE]
<1>1. /\ V \in Kernel /\ Tidy(V, c) /\ a \in cc_exec /\ \A d1 \in Entity : Steady(At(V, c, d1), d1)
      /\ Linked(V, x) /\ Running(V, x) /\ Moved(V, call, x) /\ Kept(V, stopped, x) /\ DrainsOf(V, call, x)
      /\ V.co[x] \in callout
  BY SoundParts
<1>2. IsCpu(W, V, c, q) BY <1>1, CpuFacts
<1>3. W.cc[c].exec[d] = a /\ W.co[x] = V.co[x] /\ W \in Kernel BY <1>2 DEF IsCpu, At
<1>4. U = Put(W, c, d, e, x, o)
  <2>1. U = Called(W, c, d, x) OBVIOUS
  <2> HIDE DEF W
  <2> QED BY <2>1 DEF Called, Put
<1> HIDE DEF W
<1>5. /\ e \in cc_exec /\ e.pc \in {"lock", "run"} /\ (x \in Locked => e.pc = "lock") /\ e.x = x /\ e.curr = x
      /\ ~e.drain /\ e.waiting = a.waiting /\ e.migration = a.migration
  BY <1>1, <1>3 DEF cc_exec
<1>6. o \in callout /\ ~o.pending /\ ~o.dfr /\ o.cpu = c BY <1>1, <1>3 DEF callout, Queued
<1>7. a.curr = None /\ ~a.waiting /\ a.migration = None /\ ~a.drain BY <1>1 DEF Steady, Rests
<1> HIDE DEF e, o
<1>8. IsPut(U, W, c, d, e, x, o) BY <1>3, <1>4, <1>5, <1>6, PutFacts
<1>9. U \in Kernel /\ U.co[x] = o BY <1>8 DEF IsPut
<1>10. /\ U.cc[c].wheel = q.wheel /\ U.cc[c].expireq = q.expireq /\ U.cc[c].lastscan = q.lastscan
       /\ U.cc[c].scan = q.scan /\ U.cc[c].bucket = q.bucket /\ U.cc[c].next = q.next
  <2>1. W.cc[c] = q BY <1>2 DEF IsCpu
  <2> QED BY <1>8, <2>1 DEF IsPut, SameLists
<1>11. \A c1 \in Cpu \ {c} : U.cc[c1] = V.cc[c1] BY <1>2, <1>8 DEF IsPut, IsCpu
<1>12. \A d1 \in Entity : At(U, c, d1) = IF d1 = d THEN e ELSE At(V, c, d1)
  <2>1. \A d1 \in Entity : At(W, c, d1) = At(V, c, d1) BY <1>2 DEF IsCpu, At
  <2> QED BY <1>8, <2>1 DEF IsPut
<1>13. \A c1 \in Cpu, d1 \in Entity : At(U, c1, d1) = IF c1 = c /\ d1 = d THEN e ELSE At(V, c1, d1)
  BY <1>11, <1>12 DEF At
<1>14. Steady(e, d)
  BY <1>5, <1>7, CalloutWheelAssumption DEF Steady
<1>15. IsStep(U, V, c, x)
  <2>1. \A y \in Callout \ {x} : U.co[y] = V.co[y] BY <1>2, <1>8 DEF IsPut, IsCpu
  <2>2. Only(e, x) /\ Only(a, x) BY <1>1, <1>5, <1>14, SteadyOnly DEF Rests
  <2>3. ListsBut(V.cc[c], U.cc[c], x) BY <1>10 DEF ListsBut
  <2>4. Suspended(U, c)
    <3>1. At(U, c, 1).pc # "idle" => d = 1 \/ q.exec[1].pc # "idle" BY <1>12 DEF At, Entity
    <3> QED BY <1>10, <3>1 DEF Suspended
  <2> QED BY <1>9, <1>11, <1>12, <2>1, <2>2, <2>3, <2>4 DEF IsStep
<1>16. ASSUME NEW c1 \in Cpu, NEW d1 \in Entity, At(V, c1, d1).curr = x PROVE FALSE
  <2>1. c1 = c /\ d1 = d BY <1>1, <1>16, RunsOnce
  <2> QED BY <1>7, <1>16, <2>1, CalloutWheelAssumption
<1>17. Fine(U, call, stopped, x)
  <2>1. Linked(U, x)
    <3>1. \A c1 \in Cpu : ~OnExpireq(U, c1, x) BY <1>1, <1>10, <1>11 DEF OnExpireq, Linked, Listed
    <3>2. \A c1 \in Cpu, b \in Bucket : ~OnWheel(U, c1, b, x) BY <1>1, <1>10, <1>11 DEF OnWheel, Linked, Listed
    <3> QED BY <1>6, <1>9, <3>1, <3>2, UnlistedIsLinked DEF Unlisted, Queued
  <2>2. Current(o, e, x) BY <1>5, <1>6, <1>7 DEF Current
  <2>3. Running(U, x)
    <3>1. \A c1 \in Cpu, d1 \in Entity : At(U, c1, d1).curr = x => c1 = c /\ d1 = d BY <1>13, <1>16
    <3> QED BY <1>6, <1>9, <1>13, <2>2, <3>1 DEF Running
  <2>4. Moved(U, call, x)
    <3>1. \A p \in Task : ~ThreadMoves(call[p], x) BY <1>1, CalloutWheelAssumption DEF Moved
    <3>2. \A c1 \in Cpu, d1 \in Entity : ~EntityMoves(V, c1, d1, x) BY <1>1, CalloutWheelAssumption DEF Moved
    <3>3. \A c1 \in Cpu, d1 \in Entity : ~EntityMoves(U, c1, d1, x) BY <1>5, <1>13, <3>2 DEF EntityMoves
    <3> QED BY <3>1, <3>3 DEF Moved
  <2>5. Kept(U, stopped, x) BY <1>1 DEF Kept, Queued
  <2> QED BY <2>1, <2>3, <2>4, <2>5 DEF Fine
<1>18. DrainsOf(U, call, x)
  <2>1. ~WakeupToCome(a, x) BY <1>7 DEF WakeupToCome, Rests
  <2>2. ASSUME NEW p \in Task, call[p].op = "drain", call[p].x = x PROVE Drains(U, call[p])
    <3>1. Drains(V, call[p]) BY <1>1, <2>2 DEF DrainsOf
    <3>2. call[p].pc \notin {"add", "sleep"} BY <2>1, <2>2, <3>1 DEF Drains
    <3> QED BY <1>6, <1>9, <2>2, <3>1, <3>2 DEF Drains
  <2> QED BY <2>2 DEF DrainsOf
<1>19. \A d1 \in Entity : Steady(At(U, c, d1), d1) BY <1>1, <1>12, <1>14
<1>20. Sound(U, call, stopped) BY <1>15, <1>17, <1>18, <1>19, StepSound
<1>21. Quiet(U, V) BY <1>5, <1>10, <1>11, <1>13 DEF Quiet
<1> QED BY <1>5, <1>12, <1>20, <1>21
(***************************************************************************)
(* The scan of callout_process, round by round.                              *)
(***************************************************************************)
\* The scan of CPU c is in the bucket of the callout it looks at next.
Cursor(V, c) ==
  V.cc[c].scan # None /\ At(V, c, 1).pc = "idle" =>
    V.cc[c].scan.tmp \in {None} \cup ToSet(V.cc[c].wheel[ScanBucket(V.cc[c].scan)])

Scanning(c, W) == {V \in Kernel : Sound(V, call, stopped) /\ Cursor(V, c) /\ Quiet(V, W)}

LEMMA ScanFields ==
  ASSUME NEW s \in Scans
  PROVE  /\ s # None /\ s.now \in Nat /\ s.firstb \in Nat /\ s.nowb \in Int /\ s.lastb \in Int
         /\ s.last \in Int /\ s.max \in Int /\ s.tmp \in Callout \cup {None}
         /\ ScanBucket(s) \in Bucket
BY NoneIsNeither, BucketFacts DEF Scans, ScanBucket

\* Steps that change the scan, and no list.
LEMMA ScanMoves ==
  ASSUME CallsOK, NEW c \in Cpu, NEW W, NEW V \in Scanning(c, W), At(V, c, 1).pc = "idle",
         NEW s \in Scans \cup {None}, NEW f \in Int,
         s # None => s.tmp \in {None} \cup ToSet(V.cc[c].wheel[ScanBucket(s)]),
         NEW U, U = CpuPut(V, c, [V.cc[c] EXCEPT !.firstevent = f, !.scan = s])
  PROVE  U \in Scanning(c, W)
<1> DEFINE p == V.cc[c]
           q == [p EXCEPT !.firstevent = f, !.scan = s]
<1>1. V \in Kernel /\ Sound(V, call, stopped) /\ Quiet(V, W) BY DEF Scanning
<1>2. p \in callout_cpu BY <1>1, KernelFields
<1>3. /\ q \in callout_cpu /\ q.exec = p.exec /\ q.wheel = p.wheel /\ q.expireq = p.expireq
      /\ q.lastscan = p.lastscan /\ q.scan = s
  BY <1>2 DEF callout_cpu
<1> HIDE DEF q
<1>4. IsCpu(U, V, c, q)
  <2>1. U = CpuPut(V, c, q) BY DEF q
  <2> QED BY <1>1, <1>3, <2>1, CpuFacts
<1>5. \A d \in Entity : q.exec[d] = At(V, c, d) BY <1>3 DEF At
<1>6. q.exec[1].pc = "idle" BY <1>5 DEF Entity
<1>7. Sound(U, call, stopped) BY <1>1, <1>3, <1>4, <1>5, <1>6, CpuSound
<1>8. U \in Kernel BY <1>4 DEF IsCpu
<1>9. Quiet(U, W)
  <2>1. Quiet(U, V) BY <1>3, <1>4 DEF IsCpu, Quiet, At
  <2> QED BY <1>1, <2>1, QuietTransitive
<1>10. Cursor(U, c)
  <2>1. U.cc[c] = q BY <1>4 DEF IsCpu
  <2> QED BY <1>3, <2>1 DEF Cursor
<1> QED BY <1>7, <1>8, <1>9, <1>10 DEF Scanning

LEMMA AggregatedFacts ==
  ASSUME NEW s \in Scans, NEW o \in callout
  PROVE  Aggregated(s, o) \in Scans /\ Aggregated(s, o).firstb = s.firstb
<1>1. s.last \in Int /\ s.nowb \in Int BY ScanFields
<1>2. o.time + o.prec \in Int BY CalloutFields
<1>3. Min({s.last, o.time + o.prec}) \in Int
  <2> DEFINE t == o.time + o.prec
  <2>1. t \in Int BY <1>2
  <2> HIDE DEF t
  <2>2. Min({s.last, t}) \in {s.last, t} BY <1>1, <2>1, MinOfTwo
  <2>3. Min({s.last, t}) \in Int BY <1>1, <2>1, <2>2
  <2> QED BY <2>3 DEF t
<1> DEFINE m == Min({s.last, o.time + o.prec})
<1>4. Aggregated(s, o) = IF o.time >= s.max THEN s
                         ELSE IF o.time > s.last THEN [s EXCEPT !.lastb = s.nowb]
                         ELSE [s EXCEPT !.last = m]
  BY DEF Aggregated
<1> HIDE DEF m
<1>5. m \in Int BY <1>3 DEF m
<1>6. [s EXCEPT !.lastb = s.nowb] \in Scans /\ [s EXCEPT !.lastb = s.nowb].firstb = s.firstb BY <1>1 DEF Scans
<1>7. [s EXCEPT !.last = m] \in Scans /\ [s EXCEPT !.last = m].firstb = s.firstb BY <1>5 DEF Scans
<1> QED BY <1>4, <1>6, <1>7

\* A callout that the scan finds due is on the wheel, and nobody runs it.
LEMMA ScannedFacts ==
  ASSUME NEW V, Sound(V, call, stopped), NEW c \in Cpu, NEW b \in Bucket, NEW x \in ToSet(V.cc[c].wheel[b])
  PROVE  /\ x \in Callout /\ x # None /\ Queued(V.co[x]) /\ ~V.co[x].processed /\ V.co[x].cpu = c
         /\ x \notin ToSet(V.cc[c].expireq)
         /\ \A i \in Bucket : i # b => x \notin ToSet(V.cc[c].wheel[i])
<1>1. V \in Kernel BY SoundParts
<1>2. x \in Callout
  <2>1. V.cc[c].wheel[b] \in Seq(Callout) BY <1>1, KernelFields
  <2> QED BY <2>1, ToSetIsSubset
<1>3. Linked(V, x) BY <1>2, SoundParts
<1>4. OnWheel(V, c, b, x) BY DEF OnWheel
<1>5. Queued(V.co[x]) /\ ~V.co[x].processed /\ V.co[x].cpu = c /\ b = callout_get_bucket(V.co[x].time)
  BY <1>3, <1>4 DEF Linked, Listed
<1>6. ~OnExpireq(V, c, x) BY <1>3, <1>5 DEF Linked, Listed
<1>7. \A i \in Bucket : i # b => ~OnWheel(V, c, i, x) BY <1>3, <1>5 DEF Linked, Listed
<1> QED BY <1>2, <1>5, <1>6, <1>7, CalloutWheelAssumption DEF OnExpireq, OnWheel
\* The wheel without callout x of bucket b.
Left(w, b, x) == [w EXCEPT ![b] = Without(w[b], x)]

IsLeft(l, w, b, x) ==
  /\ l \in [Bucket -> Seq(Callout)]
  /\ \A i \in Bucket : IsInjective(l[i])
  /\ \A i \in Bucket : ToSet(l[i]) = IF i = b THEN ToSet(w[i]) \ {x} ELSE ToSet(w[i])
  /\ LIST_NEXT(w[b], x) \in Callout \cup {None}
  /\ LIST_NEXT(w[b], x) \in {None} \cup ToSet(l[b])

LEMMA LeftFacts ==
  ASSUME NEW V \in Kernel, NEW c \in Cpu, OnceEach(V, c), NEW b \in Bucket, NEW x \in ToSet(V.cc[c].wheel[b])
  PROVE  IsLeft(Left(V.cc[c].wheel, b, x), V.cc[c].wheel, b, x)
<1> DEFINE w == V.cc[c].wheel
           left == Left(w, b, x)
           l == Without(w[b], x)
<1>1. w \in [Bucket -> Seq(Callout)] BY DEF Kernel, callout_cpu, Bucket
<1>2. \A i \in Bucket : IsInjective(w[i]) BY DEF OnceEach
<1>3. w[b] \in Seq(Callout) /\ IsInjective(w[b]) BY <1>1, <1>2
<1>4. l \in Seq(Callout) /\ IsInjective(l) /\ ToSet(l) = ToSet(w[b]) \ {x}
  BY <1>3, RemoveFirstFacts DEF Without
<1>5. LIST_NEXT(w[b], x) \in {None} \cup (ToSet(w[b]) \ {x}) BY <1>3, NextFacts
<1>6. ToSet(w[b]) \subseteq Callout BY <1>3, ToSetIsSubset
<1> HIDE DEF w, l, left
<1>7. left = [w EXCEPT ![b] = l] BY DEF Left, left, l
<1>8. left \in [Bucket -> Seq(Callout)] /\ \A i \in Bucket : left[i] = IF i = b THEN l ELSE w[i]
  BY <1>1, <1>4, <1>7
<1>9. \A i \in Bucket : IsInjective(left[i]) BY <1>2, <1>4, <1>8
<1>10. \A i \in Bucket : ToSet(left[i]) = IF i = b THEN ToSet(w[i]) \ {x} ELSE ToSet(w[i]) BY <1>4, <1>8
<1>11. LIST_NEXT(w[b], x) \in {None} \cup ToSet(left[b]) /\ LIST_NEXT(w[b], x) \in Callout \cup {None}
  BY <1>5, <1>6, <1>10
<1>12. IsLeft(left, w, b, x) BY <1>8, <1>9, <1>10, <1>11 DEF IsLeft
<1> QED BY <1>12 DEF w, left

\* What a round does to the CPU when it calls a direct callout, and when it
\* queues another.
CallsDirect(p, b, x) == [p EXCEPT !.next = LIST_NEXT(p.wheel[b], x), !.bucket = b, !.wheel = Left(p.wheel, b, x)]

Queues(p, b, x, s) ==
  [p EXCEPT !.wheel = Left(p.wheel, b, x), !.expireq = Append(p.expireq, x), !.scan = s]

QueuedCallout(o) == [o EXCEPT !.processed = TRUE]

LEMMA CallsDirectFields ==
  ASSUME NEW p \in callout_cpu, NEW b \in Bucket, NEW x, IsLeft(Left(p.wheel, b, x), p.wheel, b, x),
         NEW q, q = CallsDirect(p, b, x)
  PROVE  /\ q \in callout_cpu /\ q.wheel = Left(p.wheel, b, x) /\ q.expireq = p.expireq /\ q.exec = p.exec
         /\ q.scan = p.scan /\ q.lastscan = p.lastscan /\ q.next = LIST_NEXT(p.wheel[b], x) /\ q.bucket = b
<1> DEFINE l == Left(p.wheel, b, x)
           n == LIST_NEXT(p.wheel[b], x)
<1>1. l \in [Bucket -> Seq(Callout)] /\ n \in Callout \cup {None} BY DEF IsLeft
<1>2. q = [p EXCEPT !.next = n, !.bucket = b, !.wheel = l] BY DEF CallsDirect
<1> HIDE DEF l, n
<1>3. /\ q \in callout_cpu /\ q.wheel = l /\ q.expireq = p.expireq /\ q.exec = p.exec
      /\ q.scan = p.scan /\ q.lastscan = p.lastscan /\ q.next = n /\ q.bucket = b
  <2>1. b \in Nat BY DEF Bucket
  <2>2. p.wheel \in [Bucket -> Seq(Callout)] BY DEF callout_cpu, Bucket
  <2> QED BY <1>1, <1>2, <2>1, <2>2 DEF callout_cpu, Bucket
<1> QED BY <1>3 DEF l, n

LEMMA QueuesFields ==
  ASSUME NEW p \in callout_cpu, NEW b \in Bucket, NEW x, IsLeft(Left(p.wheel, b, x), p.wheel, b, x),
         Append(p.expireq, x) \in Seq(Callout), NEW s \in Scans, NEW q, q = Queues(p, b, x, s)
  PROVE  /\ q \in callout_cpu /\ q.wheel = Left(p.wheel, b, x) /\ q.expireq = Append(p.expireq, x)
         /\ q.exec = p.exec /\ q.scan = s /\ q.lastscan = p.lastscan
<1> DEFINE l == Left(p.wheel, b, x)
           a == Append(p.expireq, x)
<1>1. l \in [Bucket -> Seq(Callout)] /\ a \in Seq(Callout) BY DEF IsLeft
<1>2. q = [p EXCEPT !.wheel = l, !.expireq = a, !.scan = s] BY DEF Queues
<1> HIDE DEF l, a
<1>3. /\ q \in callout_cpu /\ q.wheel = l /\ q.expireq = a /\ q.exec = p.exec
      /\ q.scan = s /\ q.lastscan = p.lastscan
  BY <1>1, <1>2 DEF callout_cpu, Bucket
<1> QED BY <1>3 DEF l, a

\* The scan is suspended while a direct callout runs.
LEMMA CallsDirectSound ==
  ASSUME CallsOK, NEW V, Sound(V, call, stopped), NEW c \in Cpu, At(V, c, 1).pc = "idle",
         V.cc[c].scan # None, NEW b \in Bucket, b = ScanBucket(V.cc[c].scan),
         NEW x \in ToSet(V.cc[c].wheel[b]), x \in Direct,
         NEW U, U = Called(CpuPut(V, c, CallsDirect(V.cc[c], b, x)), c, 1, x)
  PROVE  Sound(U, call, stopped) /\ Quiet(U, V) /\ At(U, c, 1).pc # "idle"
<1> DEFINE p == V.cc[c]
           q == CallsDirect(p, b, x)
<1>1. V \in Kernel /\ OnceEach(V, c) BY SoundParts DEF Tidy
<1>2. p \in callout_cpu BY <1>1, KernelFields
<1>3. /\ x \in Callout /\ Queued(V.co[x]) /\ V.co[x].cpu = c
      /\ x \notin ToSet(p.expireq) /\ \A i \in Bucket : i # b => x \notin ToSet(p.wheel[i])
  BY ScannedFacts
<1>4. IsLeft(Left(p.wheel, b, x), p.wheel, b, x) BY <1>1, LeftFacts
<1>5. /\ q \in callout_cpu /\ q.wheel = Left(p.wheel, b, x) /\ q.expireq = p.expireq /\ q.exec = p.exec
      /\ q.scan = p.scan /\ q.lastscan = p.lastscan /\ q.next = LIST_NEXT(p.wheel[b], x) /\ q.bucket = b
  BY <1>2, <1>4, CallsDirectFields
<1> HIDE DEF q
<1>6. IsLeft(q.wheel, p.wheel, b, x) BY <1>4, <1>5
<1>7. ListsBut(p, q, x)
  <2>1. IsInjective(p.expireq) BY <1>1 DEF OnceEach
  <2> QED BY <1>5, <1>6, <2>1 DEF ListsBut, IsLeft
<1>8. x \notin ToSet(q.expireq) /\ \A i \in Bucket : x \notin ToSet(q.wheel[i]) BY <1>3, <1>5, <1>6 DEF IsLeft
<1>9. U = Called(CpuPut(V, c, q), c, 1, x) BY DEF q
<1>10. 1 = dir(x) /\ Rests(At(V, c, 1)) /\ 1 \in Entity BY DEF dir, Rests, Entity
<1>11. q.scan # None /\ q.bucket = ScanBucket(q.scan) /\ q.next \in {None} \cup ToSet(q.wheel[q.bucket])
  BY <1>5, <1>6 DEF IsLeft
<1> QED BY <1>3, <1>5, <1>7, <1>8, <1>9, <1>10, <1>11, CalledSound

\* A callout that is due goes to the queue of softclock.
LEMMA QueuesSound ==
  ASSUME CallsOK, NEW V, Sound(V, call, stopped), NEW c \in Cpu, At(V, c, 1).pc = "idle",
         NEW b \in Bucket, NEW x \in ToSet(V.cc[c].wheel[b]), x \notin Direct, NEW s \in Scans,
         NEW U, U = Relinked(V, c, Queues(V.cc[c], b, x, s), x, QueuedCallout(V.co[x]))
  PROVE  /\ Sound(U, call, stopped) /\ Quiet(U, V)
         /\ U.cc[c].scan = s /\ U.cc[c].wheel = Left(V.cc[c].wheel, b, x)
<1> DEFINE p == V.cc[c]
           o == QueuedCallout(V.co[x])
           due == Queues(p, b, x, s)
<1>1. V \in Kernel /\ OnceEach(V, c) BY SoundParts DEF Tidy
<1>2. p \in callout_cpu /\ p.expireq \in Seq(Callout) /\ IsInjective(p.expireq)
  BY <1>1, KernelFields DEF OnceEach
<1>3. /\ x \in Callout /\ Queued(V.co[x]) /\ ~V.co[x].processed /\ V.co[x].cpu = c
      /\ x \notin ToSet(p.expireq) /\ \A i \in Bucket : i # b => x \notin ToSet(p.wheel[i])
  BY ScannedFacts
<1>4. IsLeft(Left(p.wheel, b, x), p.wheel, b, x) BY <1>1, LeftFacts
<1>5. /\ Append(p.expireq, x) \in Seq(Callout) /\ IsInjective(Append(p.expireq, x))
      /\ ToSet(Append(p.expireq, x)) = ToSet(p.expireq) \cup {x}
  BY <1>2, <1>3, AppendFacts
<1>6. /\ due \in callout_cpu /\ due.wheel = Left(p.wheel, b, x) /\ due.expireq = Append(p.expireq, x)
      /\ due.exec = p.exec /\ due.scan = s /\ due.lastscan = p.lastscan
  BY <1>2, <1>4, <1>5, QueuesFields
<1>7. /\ Linked(V, x) /\ Running(V, x) /\ Moved(V, call, x) /\ Kept(V, stopped, x) /\ DrainsOf(V, call, x)
      /\ V.co[x] \in callout
  BY <1>3, SoundParts
<1>8. /\ o \in callout /\ o.processed /\ o.cpu = c /\ o.pending /\ ~o.dfr /\ o.active
  BY <1>3, <1>7 DEF callout, Queued, Linked, Listed, QueuedCallout
<1>9. Queued(o) BY <1>8, CalloutWheelAssumption DEF Queued
<1>10. U = Relinked(V, c, due, x, o) OBVIOUS
<1> HIDE DEF due, o
<1>11. IsRelinked(U, V, c, due, x, o) BY <1>1, <1>3, <1>6, <1>8, <1>10, RelinkedFacts
<1>12. U \in Kernel /\ U.co[x] = o /\ \A c1 \in Cpu : U.cc[c1] = IF c1 = c THEN due ELSE V.cc[c1]
  BY <1>3, <1>11 DEF IsRelinked
<1>13. \A c1 \in Cpu, d \in Entity : At(U, c1, d) = At(V, c1, d) BY <1>6, <1>12 DEF At
<1>14. IsLeft(due.wheel, p.wheel, b, x) BY <1>4, <1>6
<1>15. IsStep(U, V, c, x)
  <2>1. ListsBut(p, due, x) BY <1>5, <1>6, <1>14 DEF ListsBut, IsLeft
  <2>2. Suspended(U, c) BY <1>13 DEF Suspended, Entity
  <2> QED BY <1>11, <1>12, <1>13, <2>1, <2>2 DEF IsStep, IsRelinked
<1>16. Linked(U, x)
  <2>1. ASSUME NEW c1 \in Cpu PROVE OnExpireq(U, c1, x) <=> c1 = c
    <3>1. CASE c1 = c BY <1>5, <1>6, <1>12, <3>1 DEF OnExpireq
    <3>2. CASE c1 # c
      <4>1. ~OnExpireq(V, c1, x) BY <1>3, <1>7 DEF Linked, Listed
      <4> QED BY <1>12, <3>2, <4>1 DEF OnExpireq
    <3> QED BY <3>1, <3>2
  <2>2. ASSUME NEW c1 \in Cpu, NEW i \in Bucket PROVE ~OnWheel(U, c1, i, x)
    <3>1. CASE c1 = c BY <1>3, <1>12, <1>14, <3>1 DEF OnWheel, IsLeft
    <3>2. CASE c1 # c
      <4>1. ~OnWheel(V, c1, i, x) BY <1>3, <1>7, <3>2 DEF Linked, Listed
      <4> QED BY <1>12, <3>2, <4>1 DEF OnWheel
    <3> QED BY <3>1, <3>2
  <2>3. U.co[x].processed /\ U.co[x].active /\ U.co[x].cpu = c /\ Queued(U.co[x]) BY <1>8, <1>9, <1>12
  <2> QED BY <2>1, <2>2, <2>3 DEF Linked, Listed
<1>17. Running(U, x)
  <2>1. ~U.co[x].dfr /\ U.co[x].cpu = c /\ U.co[x].pending BY <1>8, <1>12
  <2>2. ASSUME NEW c1 \in Cpu, NEW d \in Entity, At(U, c1, d).curr = x
        PROVE  c1 = c /\ d = dir(x) /\ Current(U.co[x], At(U, c1, d), x)
    <3>1. At(V, c1, d) = At(U, c1, d) BY <1>13
    <3>2. c1 = c /\ d = dir(x) /\ Current(V.co[x], At(U, c1, d), x)
      BY <1>3, <1>7, <2>2, <3>1 DEF Running
    <3> QED BY <1>3, <2>1, <3>2 DEF Current, Queued
  <2> QED BY <2>1, <2>2 DEF Running
<1>18. Moved(U, call, x)
  <2>1. U.co[x].cpu = V.co[x].cpu BY <1>3, <1>8, <1>12
  <2>2. \A c1 \in Cpu, d \in Entity : EntityMoves(U, c1, d, x) <=> EntityMoves(V, c1, d, x)
    BY <1>13 DEF EntityMoves
  <2> QED BY <1>7, <2>1, <2>2 DEF Moved
<1>19. Kept(U, stopped, x)
  <2>1. x \notin stopped BY <1>3, <1>7 DEF Kept, Queued
  <2> QED BY <2>1 DEF Kept
<1>20. DrainsOf(U, call, x)
  <2>1. ASSUME NEW i \in Task, call[i].op = "drain", call[i].x = x PROVE Drains(U, call[i])
    <3>1. Drains(V, call[i]) BY <1>7, <2>1 DEF DrainsOf
    <3>2. At(U, c, dir(x)) = At(V, c, dir(x)) BY <1>13, DirIsEntity
    <3>3. U.co[x].cpu = c /\ ~U.co[x].dfr BY <1>8, <1>12
    <3> QED BY <1>3, <2>1, <3>1, <3>2, <3>3 DEF Drains
  <2> QED BY <2>1 DEF DrainsOf
<1>21. Fine(U, call, stopped, x) BY <1>16, <1>17, <1>18, <1>19 DEF Fine
<1>22. \A d \in Entity : Steady(At(U, c, d), d) BY <1>13, SoundParts
<1>23. Sound(U, call, stopped) BY <1>3, <1>15, <1>20, <1>21, <1>22, StepSound
<1>24. Quiet(U, V) BY <1>6, <1>12, <1>13 DEF Quiet
<1> QED BY <1>6, <1>12, <1>23, <1>24
LEMMA ScanPut ==
  ASSUME NEW p \in callout_cpu, NEW s PROVE [p EXCEPT !.scan = s] = [p EXCEPT !.firstevent = p.firstevent, !.scan = s]
BY DEF callout_cpu

LEMMA RoundKeeps ==
  ASSUME CallsOK, NEW c \in Cpu, NEW W, NEW V \in Scanning(c, W)
  PROVE  ScanRound(V, c) \in Scanning(c, W)
<1> DEFINE p == V.cc[c]
           s == p.scan
           x == s.tmp
           b == ScanBucket(s)
           moved == [s EXCEPT !.firstb = s.firstb + 1, !.tmp = LIST_FIRST(InBucket(V, c, s.firstb + 1))]
           passed == [Aggregated(s, V.co[x]) EXCEPT !.tmp = LIST_NEXT(p.wheel[b], x)]
           U == ScanRound(V, c)
<1>1. V \in Kernel /\ Sound(V, call, stopped) /\ Cursor(V, c) /\ Quiet(V, W) /\ OnceEach(V, c)
  BY SoundParts DEF Scanning, Tidy
<1>2. /\ p \in callout_cpu /\ p.firstevent \in Int
      /\ \A i \in Bucket : p.wheel[i] \in Seq(Callout) /\ IsInjective(p.wheel[i])
  BY <1>1, KernelFields DEF OnceEach
<1>3. CASE s = None \/ At(V, c, 1).pc # "idle"
  <2>1. U = V BY <1>3 DEF ScanRound, At
  <2> QED BY <2>1
<1>4. CASE ~(s = None \/ At(V, c, 1).pc # "idle")
  <2>1. s # None /\ At(V, c, 1).pc = "idle" BY <1>4
  <2>2. s \in Scans BY <1>1, <2>1, KernelFields
  <2>3. /\ s.firstb \in Nat /\ s.last \in Int /\ x \in Callout \cup {None} /\ b \in Bucket
    BY <2>2, ScanFields
  <2>4. x \in {None} \cup ToSet(p.wheel[b]) BY <1>1, <2>1 DEF Cursor
  <2>5. CASE x = None /\ s.firstb < s.lastb
    <3>1. U = CpuPut(V, c, [p EXCEPT !.scan = moved]) BY <1>4, <2>5 DEF ScanRound, At, CpuPut
    <3>2. moved \in Scans /\ moved.tmp \in {None} \cup ToSet(p.wheel[ScanBucket(moved)])
      <4> DEFINE n == LIST_FIRST(InBucket(V, c, s.firstb + 1))
                 k == s.firstb + 1
      <4>1. k \in Nat BY <2>3
      <4>2. k % callwheelsize \in Bucket BY <4>1, BucketFacts
      <4>3. n \in {None} \cup ToSet(p.wheel[k % callwheelsize]) BY <1>2, <4>2, FirstFacts DEF InBucket
      <4>4. n \in Callout \cup {None} BY <1>2, <4>2, <4>3, ToSetIsSubset
      <4>5. moved = [s EXCEPT !.firstb = k, !.tmp = n] OBVIOUS
      <4> HIDE DEF n, k, moved
      <4>6. moved \in Scans /\ moved.tmp = n /\ moved.firstb = k BY <2>2, <4>1, <4>4, <4>5 DEF Scans
      <4> QED BY <4>3, <4>6 DEF ScanBucket
    <3> HIDE DEF moved
    <3>3. U = CpuPut(V, c, [p EXCEPT !.firstevent = p.firstevent, !.scan = moved]) BY <1>2, <3>1, ScanPut
    <3> HIDE DEF U
    <3>4. U \in Scanning(c, W) BY <1>2, <2>1, <3>2, <3>3, ScanMoves
    <3> QED BY <3>4 DEF U
  <2>6. CASE x = None /\ ~(s.firstb < s.lastb)
    <3>1. U = CpuPut(V, c, [p EXCEPT !.firstevent = s.last, !.scan = None])
      BY <1>4, <2>6 DEF ScanRound, At, CpuPut
    <3> HIDE DEF U
    <3>2. U \in Scanning(c, W) BY <2>1, <2>3, <3>1, ScanMoves
    <3> QED BY <3>2 DEF U
  <2>7. CASE x # None /\ V.co[x].time > s.now
    <3>1. U = CpuPut(V, c, [p EXCEPT !.scan = passed])
      BY <1>4, <2>7 DEF ScanRound, At, CpuPut, ScanBucket
    <3>2. passed \in Scans /\ passed.tmp \in {None} \cup ToSet(p.wheel[ScanBucket(passed)])
      <4> DEFINE a == Aggregated(s, V.co[x])
                 n == LIST_NEXT(p.wheel[b], x)
      <4>1. x \in ToSet(p.wheel[b]) /\ x \in Callout BY <2>3, <2>4, <2>7
      <4>2. V.co[x] \in callout BY <1>1, <4>1, KernelFields
      <4>3. a \in Scans /\ a.firstb = s.firstb BY <2>2, <4>2, AggregatedFacts
      <4>4. n \in {None} \cup ToSet(p.wheel[b]) BY <1>2, <2>3, <4>1, NextFacts
      <4>5. n \in Callout \cup {None} BY <1>2, <2>3, <4>4, ToSetIsSubset
      <4>6. passed = [a EXCEPT !.tmp = n] OBVIOUS
      <4> HIDE DEF a, n, passed
      <4>7. passed \in Scans /\ passed.tmp = n /\ passed.firstb = s.firstb BY <4>3, <4>5, <4>6 DEF Scans
      <4> QED BY <4>4, <4>7 DEF ScanBucket
    <3> HIDE DEF passed
    <3>3. U = CpuPut(V, c, [p EXCEPT !.firstevent = p.firstevent, !.scan = passed]) BY <1>2, <3>1, ScanPut
    <3> HIDE DEF U
    <3>4. U \in Scanning(c, W) BY <1>2, <2>1, <3>2, <3>3, ScanMoves
    <3> QED BY <3>4 DEF U
  <2>8. CASE x # None /\ ~(V.co[x].time > s.now) /\ x \in Direct
    <3>1. U = Called(CpuPut(V, c, CallsDirect(p, b, x)), c, 1, x)
      BY <1>4, <2>8 DEF ScanRound, At, CpuPut, CallsDirect, Left, ScanBucket
    <3> HIDE DEF U
    <3>2. x \in ToSet(p.wheel[b]) BY <2>4, <2>8
    <3>3. Sound(U, call, stopped) /\ Quiet(U, V) /\ At(U, c, 1).pc # "idle"
      BY <1>1, <2>1, <2>3, <2>8, <3>1, <3>2, CallsDirectSound
    <3>4. U \in Kernel BY <3>3, SoundParts
    <3>5. Quiet(U, W) BY <1>1, <3>3, QuietTransitive
    <3>6. U \in Scanning(c, W) BY <3>3, <3>4, <3>5 DEF Scanning, Cursor
    <3> QED BY <3>6 DEF U
  <2>9. CASE x # None /\ ~(V.co[x].time > s.now) /\ x \notin Direct
    <3> DEFINE t == [s EXCEPT !.tmp = LIST_NEXT(p.wheel[b], x)]
    <3>1. U = Relinked(V, c, Queues(p, b, x, t), x, QueuedCallout(V.co[x]))
      <4>1. U = [V EXCEPT !.cc[c] = Queues(p, b, x, t), !.co[x] = QueuedCallout(V.co[x])]
        BY <1>4, <2>9 DEF ScanRound, At, Queues, QueuedCallout, Left, ScanBucket
      <4> HIDE DEF U, t
      <4> QED BY <4>1, <1>1 DEF Relinked, Kernel
    <3> HIDE DEF U
    <3>2. x \in ToSet(p.wheel[b]) BY <2>4, <2>9
    <3>3. IsLeft(Left(p.wheel, b, x), p.wheel, b, x) BY <1>1, <2>3, <3>2, LeftFacts
    <3>4. t \in Scans /\ t.tmp = LIST_NEXT(p.wheel[b], x) /\ ScanBucket(t) = b
      <4> DEFINE n == LIST_NEXT(p.wheel[b], x)
      <4>1. n \in Callout \cup {None} BY <3>3 DEF IsLeft
      <4> HIDE DEF n
      <4>2. t = [s EXCEPT !.tmp = n] BY DEF n
      <4> HIDE DEF t
      <4>3. t \in Scans /\ t.tmp = n /\ t.firstb = s.firstb BY <2>2, <4>1, <4>2 DEF Scans
      <4> QED BY <4>3 DEF n, ScanBucket
    <3> HIDE DEF t
    <3>5. /\ Sound(U, call, stopped) /\ Quiet(U, V)
          /\ U.cc[c].scan = t /\ U.cc[c].wheel = Left(p.wheel, b, x)
      <4> HIDE DEF x, b
      <4> QED BY <1>1, <2>1, <2>3, <2>9, <3>1, <3>2, <3>4, QueuesSound
    <3>6. U \in Kernel BY <3>5, SoundParts
    <3>7. Quiet(U, W) BY <1>1, <3>5, QuietTransitive
    <3>8. Cursor(U, c) BY <3>3, <3>4, <3>5 DEF Cursor, IsLeft
    <3>9. U \in Scanning(c, W) BY <3>5, <3>6, <3>7, <3>8 DEF Scanning
    <3> QED BY <3>9 DEF U
  <2> QED BY <2>5, <2>6, <2>7, <2>8, <2>9
<1> QED BY <1>3, <1>4

\* The scan keeps the invariant, to its end or until it calls a direct callout.
LEMMA ScanKeeps ==
  ASSUME CallsOK, NEW c \in Cpu, NEW V, Sound(V, call, stopped), Cursor(V, c)
  PROVE  Sound(Scan(V, c), call, stopped) /\ Quiet(Scan(V, c), V)
<1> DEFINE f == [X \in Kernel |-> ScanRound(X, c)]
           P == Scanning(c, V)
           n == callwheelsize + Cardinality(Callout)
<1>1. V \in P
  <2>1. V \in Kernel BY SoundParts
  <2> QED BY <2>1 DEF Scanning, Quiet
<1>2. ASSUME NEW X \in P PROVE f[X] \in P
  <2>1. X \in Kernel BY DEF Scanning
  <2>2. f[X] = ScanRound(X, c) BY <2>1
  <2> QED BY <2>2, RoundKeeps
<1>3. n \in Nat BY CalloutWheelAssumption, FS_CardinalityType
<1>4. Scan(V, c) = Iterate(f, V, n) BY DEF Scan
<1> HIDE DEF f, P, n
<1>5. Iterate(f, V, n) \in P BY <1>1, <1>2, <1>3, Iterates
<1> QED BY <1>4, <1>5 DEF P, Scanning
\* Where the scan begins.
LEMMA ScanFromFacts ==
  ASSUME NEW V \in Kernel, NEW c \in Cpu, OnceEach(V, c), NEW t \in Nat, V.cc[c].lastscan <= t,
         NEW s, s = ScanFrom(V.cc[c], t)
  PROVE  s \in Scans /\ s.tmp \in {None} \cup ToSet(V.cc[c].wheel[ScanBucket(s)])
<1> DEFINE p == V.cc[c]
           firstb == callout_hash(p.lastscan)
           nowb == callout_hash(t)
           i == Min({nowb - firstb, 2})
           h == callout_hash(t + Lookahead[i])
           max == h * BucketSpan
           lastb == callout_hash(max) - 1
           turn == firstb + callwheelsize - 1
           nowb1 == IF lastb > turn /\ nowb > turn THEN turn ELSE nowb
           lastb1 == IF lastb > turn THEN turn ELSE lastb
           tmp == LIST_FIRST(p.wheel[firstb % callwheelsize])
<1>1. s = [now |-> t, firstb |-> firstb, last |-> max, max |-> max, nowb |-> nowb1, lastb |-> lastb1, tmp |-> tmp]
  BY DEF ScanFrom
<1>2. p.lastscan \in Nat /\ BucketSpan \in Nat \ {0} /\ callwheelsize \in Nat \ {0}
  BY KernelFields, CalloutWheelAssumption
<1>3. firstb \in Nat /\ nowb \in Nat /\ firstb <= nowb BY <1>2, DivMonotone DEF callout_hash
<1>4. firstb % callwheelsize \in Bucket BY <1>3, BucketFacts
<1>5. tmp \in {None} \cup ToSet(p.wheel[firstb % callwheelsize]) /\ tmp \in Callout \cup {None}
  <2>1. p.wheel[firstb % callwheelsize] \in Seq(Callout) BY <1>4, KernelFields
  <2>2. IsInjective(p.wheel[firstb % callwheelsize]) BY <1>4 DEF OnceEach
  <2>3. tmp \in {None} \cup ToSet(p.wheel[firstb % callwheelsize]) BY <2>1, <2>2, FirstFacts
  <2> QED BY <2>1, <2>3, ToSetIsSubset
<1> HIDE DEF firstb, nowb, tmp
<1>6. i \in 0 .. 2
  <2> DEFINE n == nowb - firstb
  <2>1. n \in Int /\ n >= 0 BY <1>3
  <2> HIDE DEF n
  <2>2. Min({n, 2}) \in {n, 2} /\ Min({n, 2}) <= 2
    <3> DEFINE two == 2
    <3>1. two \in Int OBVIOUS
    <3> HIDE DEF two
    <3>2. Min({n, two}) \in {n, two} /\ Min({n, two}) <= two BY <2>1, <3>1, MinOfTwo
    <3> QED BY <3>2 DEF two
  <2>3. Min({n, 2}) \in 0 .. 2 BY <2>1, <2>2
  <2> QED BY <2>3 DEF n
<1> HIDE DEF i
<1>7. Lookahead[i] \in Nat
  <2>1. Lookahead[i] \in 2 * BucketSpan .. (callwheelsize - 1) * BucketSpan BY <1>6, CalloutWheelAssumption
  <2>2. 2 * BucketSpan \in Nat BY <1>2
  <2> DEFINE m == (callwheelsize - 1) * BucketSpan
             k == 2 * BucketSpan
  <2>3. Lookahead[i] \in k .. m BY <2>1
  <2>4. k \in Nat BY <2>2
  <2> HIDE DEF m, k
  <2> QED BY <2>3, <2>4
<1>8. h \in Nat
  <2>1. t + Lookahead[i] \in Nat BY <1>7
  <2> QED BY <2>1, BucketFacts
<1> HIDE DEF h
<1>9. max \in Nat BY <1>2, <1>8
<1> HIDE DEF max
<1>10. lastb \in Int BY <1>9, BucketFacts
<1> HIDE DEF lastb
<1>11. nowb1 \in Int /\ lastb1 \in Int BY <1>2, <1>3, <1>10
<1> HIDE DEF nowb1, lastb1
<1>12. s \in Scans /\ s.tmp = tmp /\ s.firstb = firstb BY <1>1, <1>3, <1>5, <1>9, <1>11 DEF Scans
<1> QED BY <1>5, <1>12 DEF ScanBucket

\* callout_process starts a scan.
LEMMA ProcessKeeps ==
  ASSUME CallsOK, Sound(K, call, stopped), now \in Nat, NEW c \in Cpu, K.cc[c].lastscan <= now, Process(c)
  PROVE  /\ Sound(K', call', stopped')
         /\ \A c1 \in Cpu : K'.cc[c1].lastscan \in {K.cc[c1].lastscan, now}
         /\ \A c1 \in Cpu, d \in Entity : At(K', c1, d).pc = "drain" => At(K, c1, d).pc = "drain"
<1> DEFINE p == K.cc[c]
           s == ScanFrom(p, now)
           q == [p EXCEPT !.lastscan = now, !.scan = s]
           W == CpuPut(K, c, q)
<1>1. K \in Kernel /\ Tidy(K, c) /\ OnceEach(K, c) BY SoundParts DEF Tidy
<1>2. p \in callout_cpu BY <1>1, KernelFields
<1>3. s \in Scans /\ s.tmp \in {None} \cup ToSet(p.wheel[ScanBucket(s)]) BY <1>1, ScanFromFacts
<1>4. K' = Scan(W, c) /\ call' = call /\ stopped' = stopped BY DEF Process, callout_process, CpuPut
<1> HIDE DEF s
<1>5. /\ q \in callout_cpu /\ q.exec = p.exec /\ q.wheel = p.wheel /\ q.expireq = p.expireq
      /\ q.lastscan = now /\ q.scan = s
  BY <1>2, <1>3 DEF callout_cpu
<1> HIDE DEF q
<1>6. IsCpu(W, K, c, q) BY <1>1, <1>5, CpuFacts
<1>7. At(K, c, 1).pc = "idle" BY <1>1 DEF Process, Tidy, Suspended
<1> HIDE DEF W
<1>8. \A d \in Entity : q.exec[d] = At(K, c, d) BY <1>5 DEF At
<1>9. q.exec[1].pc = "idle" BY <1>7, <1>8 DEF Entity
<1>10. Sound(W, call, stopped) BY <1>5, <1>6, <1>8, <1>9, CpuSound
<1>11. W.cc[c] = q BY <1>6 DEF IsCpu
<1>12. Cursor(W, c) BY <1>3, <1>5, <1>11 DEF Cursor
<1>13. Sound(Scan(W, c), call, stopped) /\ Quiet(Scan(W, c), W) BY <1>10, <1>12, ScanKeeps
<1>14. \A c1 \in Cpu : K'.cc[c1].lastscan \in {K.cc[c1].lastscan, now}
  BY <1>4, <1>5, <1>6, <1>13 DEF Quiet, IsCpu
<1>15. \A c1 \in Cpu, d \in Entity : At(W, c1, d) = At(K, c1, d) BY <1>6, <1>8 DEF IsCpu, At
<1>16. \A c1 \in Cpu, d \in Entity : At(K', c1, d).pc = "drain" => At(K, c1, d).pc = "drain"
  BY <1>4, <1>13, <1>15 DEF Quiet
<1> QED BY <1>4, <1>13, <1>14, <1>16

(***************************************************************************)
(* Softclock, and what follows softclock_call_cc.                            *)
(***************************************************************************)
RestsNow(p, d) ==
  [p EXCEPT !.exec = [p.exec EXCEPT ![d] = [p.exec[d] EXCEPT !.pc = "idle", !.x = None]]]

LEMMA RestsNowFields ==
  ASSUME NEW p \in callout_cpu, NEW d \in Entity, Rests(p.exec[d]), Steady(p.exec[d], d), NEW q, q = RestsNow(p, d)
  PROVE  /\ q \in callout_cpu /\ q.wheel = p.wheel /\ q.expireq = p.expireq /\ q.next = p.next
         /\ q.bucket = p.bucket /\ q.scan = p.scan /\ q.lastscan = p.lastscan
         /\ \A d1 \in Entity : d1 # d => q.exec[d1] = p.exec[d1]
         /\ q.exec[d].pc = "idle" /\ Steady(q.exec[d], d)
<1> DEFINE a == p.exec[d]
           e == [a EXCEPT !.pc = "idle", !.x = None]
           x == [p.exec EXCEPT ![d] = e]
<1>1. a \in cc_exec /\ p.exec \in [Entity -> cc_exec] BY DEF callout_cpu
<1>2. q = [p EXCEPT !.exec = x] BY DEF RestsNow
<1>3. /\ e \in cc_exec /\ e.pc = "idle" /\ e.curr = a.curr /\ e.drain = a.drain /\ e.waiting = a.waiting
      /\ e.migration = a.migration
  BY <1>1 DEF cc_exec
<1>4. Steady(e, d) BY <1>3 DEF Steady, Rests
<1> HIDE DEF e
<1>5. x \in [Entity -> cc_exec] /\ \A d1 \in Entity : x[d1] = IF d1 = d THEN e ELSE p.exec[d1]
  BY <1>1, <1>3
<1> HIDE DEF x
<1>6. /\ q \in callout_cpu /\ q.wheel = p.wheel /\ q.expireq = p.expireq /\ q.next = p.next
      /\ q.bucket = p.bucket /\ q.scan = p.scan /\ q.lastscan = p.lastscan /\ q.exec = x
  BY <1>2, <1>5 DEF callout_cpu
<1> QED BY <1>3, <1>4, <1>5, <1>6

LEMMA softclockKeeps ==
  ASSUME CallsOK, NEW V, Sound(V, call, stopped), NEW c \in Cpu, Rests(At(V, c, 0))
  PROVE  Sound(softclock(V, c), call, stopped) /\ Quiet(softclock(V, c), V)
<1> DEFINE p == V.cc[c]
           U == softclock(V, c)
<1>1. V \in Kernel /\ Tidy(V, c) /\ OnceEach(V, c) /\ Steady(At(V, c, 0), 0)
  BY SoundParts DEF Tidy, Entity
<1>2. p \in callout_cpu /\ p.expireq \in Seq(Callout) /\ IsInjective(p.expireq)
      /\ \A i \in Bucket : IsInjective(p.wheel[i])
  BY <1>1, KernelFields DEF OnceEach
<1>3. CASE p.expireq = <<>>
  <2> DEFINE q == RestsNow(p, 0)
  <2>1. U = CpuPut(V, c, q)
    <3> DEFINE e == [V.cc[c].exec[0] EXCEPT !.pc = "idle", !.x = None]
    <3>1. U = [V EXCEPT !.cc[c].exec[0] = e] BY <1>3 DEF softclock
    <3>2. q = [p EXCEPT !.exec = [p.exec EXCEPT ![0] = e]] BY DEF RestsNow
    <3> HIDE DEF e, U, q
    <3> QED BY <1>1, <3>1, <3>2 DEF CpuPut, Kernel
  <2>2. Steady(p.exec[0], 0) /\ Rests(p.exec[0]) /\ 0 \in Entity BY <1>1 DEF At, Entity
  <2>3. /\ q \in callout_cpu /\ q.wheel = p.wheel /\ q.expireq = p.expireq /\ q.next = p.next
        /\ q.bucket = p.bucket /\ q.scan = p.scan /\ q.lastscan = p.lastscan
        /\ \A d1 \in Entity : d1 # 0 => q.exec[d1] = p.exec[d1]
        /\ q.exec[0].pc = "idle" /\ Steady(q.exec[0], 0)
    BY <1>2, <2>2, RestsNowFields
  <2> HIDE DEF U, q
  <2>4. IsCpu(U, V, c, q) BY <1>1, <2>1, <2>3, CpuFacts
  <2>5. \A d \in Entity : q.exec[d] = At(V, c, d) \/ (Rests(q.exec[d]) /\ Rests(At(V, c, d)) /\ Steady(q.exec[d], d))
    BY <2>2, <2>3 DEF Rests, At
  <2>6. q.exec[1].pc # "idle" =>
          q.scan # None /\ q.bucket = ScanBucket(q.scan) /\ q.next \in {None} \cup ToSet(q.wheel[q.bucket])
    BY <1>1, <2>3 DEF Tidy, Suspended, At, Entity
  <2>7. Sound(U, call, stopped) BY <2>3, <2>4, <2>5, <2>6, CpuSound
  <2>8. Quiet(U, V)
    <3>1. \A d \in Entity : q.exec[d].pc = "drain" => At(V, c, d).pc = "drain" BY <2>3 DEF At
    <3> QED BY <2>3, <2>4, <3>1 DEF Quiet, IsCpu, At
  <2> QED BY <2>7, <2>8 DEF U
<1>4. CASE p.expireq # <<>>
  <2> DEFINE x == Head(p.expireq)
             l == Tail(p.expireq)
             q == [p EXCEPT !.expireq = l]
  <2>1. U = Called(CpuPut(V, c, q), c, 0, x) BY <1>4 DEF softclock, CpuPut
  <2>2. x \in ToSet(p.expireq) /\ x \in Callout /\ l \in Seq(Callout) /\ IsInjective(l)
        /\ ToSet(l) = ToSet(p.expireq) \ {x}
    BY <1>2, <1>4, TailFacts
  <2> HIDE DEF x, l, U
  <2>3. /\ q \in callout_cpu /\ q.expireq = l /\ q.wheel = p.wheel /\ q.exec = p.exec /\ q.scan = p.scan
        /\ q.lastscan = p.lastscan /\ q.bucket = p.bucket /\ q.next = p.next
    BY <1>2, <2>2 DEF callout_cpu
  <2> HIDE DEF q
  <2>4. Linked(V, x) BY <2>2, SoundParts
  <2>5. OnExpireq(V, c, x) BY <2>2 DEF OnExpireq
  <2>6. Queued(V.co[x]) /\ V.co[x].processed /\ V.co[x].cpu = c /\ x \notin Direct BY <2>4, <2>5 DEF Linked, Listed
  <2>7. 0 = dir(x) /\ 0 \in Entity BY <2>6 DEF dir, Entity
  <2>8. x \notin ToSet(q.expireq) BY <2>2, <2>3
  <2>9. \A i \in Bucket : x \notin ToSet(q.wheel[i]) BY <2>3, <2>4, <2>6 DEF Linked, Listed, OnWheel
  <2>10. ListsBut(p, q, x) BY <1>2, <2>2, <2>3 DEF ListsBut
  <2>11. 0 = 1 \/ q.exec[1].pc # "idle" =>
           q.scan # None /\ q.bucket = ScanBucket(q.scan) /\ q.next \in {None} \cup ToSet(q.wheel[q.bucket])
    BY <1>1, <2>3 DEF Tidy, Suspended, At
  <2>12. Sound(U, call, stopped) /\ Quiet(U, V)
    BY <2>1, <2>2, <2>3, <2>6, <2>7, <2>8, <2>9, <2>10, <2>11, CalledSound
  <2> QED BY <2>12 DEF U
<1> QED BY <1>3, <1>4

LEMMA ReturnedKeeps ==
  ASSUME CallsOK, NEW V, Sound(V, call, stopped), NEW c \in Cpu, NEW d \in Entity, At(V, c, d).pc = "relock"
  PROVE  Sound(Returned(V, c, d), call, stopped) /\ Quiet(Returned(V, c, d), V)
<1>1. CASE d = 0
  <2>1. Returned(V, c, d) = softclock(V, c) BY <1>1 DEF Returned
  <2>2. Rests(At(V, c, 0)) BY <1>1 DEF Rests
  <2> QED BY <2>1, <2>2, softclockKeeps
<1>2. CASE d = 1
  <2> DEFINE p == V.cc[c]
             r == RestsNow(p, 1)
             s == [p.scan EXCEPT !.tmp = p.next]
             q == [r EXCEPT !.scan = s, !.next = None]
             W == CpuPut(V, c, q)
  <2>1. /\ V \in Kernel /\ Tidy(V, c) /\ Steady(At(V, c, 1), 1) /\ p \in callout_cpu
    BY SoundParts, KernelFields DEF Entity
  <2>2. /\ p.scan \in Scans /\ p.bucket = ScanBucket(p.scan) /\ p.next \in {None} \cup ToSet(p.wheel[p.bucket])
        /\ p.next \in Callout \cup {None}
    BY <1>2, <2>1, KernelFields DEF Tidy, Suspended
  <2>3. Steady(p.exec[1], 1) /\ Rests(p.exec[1]) /\ 1 \in Entity BY <1>2, <2>1 DEF At, Entity, Rests
  <2>4. /\ r \in callout_cpu /\ r.wheel = p.wheel /\ r.expireq = p.expireq /\ r.next = p.next
        /\ r.bucket = p.bucket /\ r.scan = p.scan /\ r.lastscan = p.lastscan
        /\ \A d1 \in Entity : d1 # 1 => r.exec[d1] = p.exec[d1]
        /\ r.exec[1].pc = "idle" /\ Steady(r.exec[1], 1)
    BY <2>1, <2>3, RestsNowFields
  <2>5. Returned(V, c, d) = Scan(W, c)
    <3> DEFINE e == [p.exec EXCEPT ![1] = [p.exec[1] EXCEPT !.pc = "idle", !.x = None]]
    <3>1. r = [p EXCEPT !.exec = e] BY DEF RestsNow
    <3>2. q = [p EXCEPT !.exec = e, !.scan = s, !.next = None] BY <3>1
    <3>3. Returned(V, c, d) = Scan([V EXCEPT !.cc[c] = [p EXCEPT !.exec = e, !.scan = s, !.next = None]], c)
      BY <1>2 DEF Returned
    <3> HIDE DEF q, e, s
    <3> QED BY <3>2, <3>3 DEF CpuPut
  <2>6. s \in Scans /\ s.tmp = p.next /\ ScanBucket(s) = ScanBucket(p.scan) BY <2>2 DEF Scans, ScanBucket
  <2> HIDE DEF r, s
  <2>7. /\ q \in callout_cpu /\ q.exec = r.exec /\ q.wheel = r.wheel /\ q.expireq = r.expireq
        /\ q.lastscan = r.lastscan /\ q.scan = s
    BY <2>4, <2>6 DEF callout_cpu
  <2> HIDE DEF q
  <2>8. IsCpu(W, V, c, q) BY <2>1, <2>7, CpuFacts
  <2> HIDE DEF W
  <2>9. \A d1 \in Entity : q.exec[d1] = At(V, c, d1)
                           \/ (Rests(q.exec[d1]) /\ Rests(At(V, c, d1)) /\ Steady(q.exec[d1], d1))
    BY <2>3, <2>4, <2>7 DEF Rests, At
  <2>10. q.exec[1].pc = "idle" BY <2>4, <2>7
  <2>11. Sound(W, call, stopped) BY <2>4, <2>7, <2>8, <2>9, <2>10, CpuSound
  <2>12. W.cc[c] = q BY <2>8 DEF IsCpu
  <2>13. Cursor(W, c) BY <2>2, <2>4, <2>6, <2>7, <2>12 DEF Cursor
  <2>14. Sound(Scan(W, c), call, stopped) /\ Quiet(Scan(W, c), W) BY <2>11, <2>13, ScanKeeps
  <2>15. Quiet(W, V)
    <3>1. \A d1 \in Entity : q.exec[d1].pc = "drain" => At(V, c, d1).pc = "drain" BY <2>4, <2>7 DEF At
    <3> QED BY <2>4, <2>7, <2>8, <3>1 DEF Quiet, IsCpu, At
  <2> QED BY <2>5, <2>14, <2>15, QuietTransitive
<1> QED BY <1>1, <1>2 DEF Entity
(***************************************************************************)
(* A step of one entity and one callout, of several parts.                   *)
(***************************************************************************)
IsUpdate(U, V, c, d, e, x, o) ==
  /\ U \in Kernel
  /\ \A c1 \in Cpu : Tidy(U, c1)
  /\ OthersAlike(U, V, x)
  /\ Sets(U, V, c, d, e, x, o)
  /\ \A c1 \in Cpu : U.cc[c1].lastscan = V.cc[c1].lastscan

LEMMA PutUpdate ==
  ASSUME NEW U, NEW V \in Kernel, NEW c \in Cpu, NEW d \in Entity, NEW e \in cc_exec,
         NEW x \in Callout, NEW o \in callout, IsPut(U, V, c, d, e, x, o),
         e = At(V, c, d) \/ (Only(e, x) /\ Only(At(V, c, d), x)),
         d = 1 /\ e.pc # "idle" => At(V, c, 1).pc # "idle",
         \A c1 \in Cpu : Tidy(V, c1)
  PROVE  IsUpdate(U, V, c, d, e, x, o)
<1>1. OthersAlike(U, V, x) /\ \A c1 \in Cpu : Tidy(U, c1) BY PutKeeps
<1>2. U \in Kernel /\ Sets(U, V, c, d, e, x, o) /\ SameLists(U, V) BY DEF IsPut, Sets
<1> QED BY <1>1, <1>2, SameListsAre DEF IsUpdate

LEMMA ListsUpdate ==
  ASSUME NEW U, NEW V, NEW c \in Cpu, NEW d \in Entity, NEW x \in Callout, ListsOnly(U, V, x)
  PROVE  IsUpdate(U, V, c, d, At(V, c, d), x, U.co[x])
<1>1. Sets(U, V, c, d, At(V, c, d), x, U.co[x]) BY DEF ListsOnly, Sets
<1> QED BY <1>1 DEF ListsOnly, IsUpdate

LEMMA UpdateTransitive ==
  ASSUME NEW U, NEW V, NEW W, NEW c \in Cpu, NEW d \in Entity, NEW e, NEW f, NEW x \in Callout, NEW o, NEW q,
         IsUpdate(V, U, c, d, e, x, o), IsUpdate(W, V, c, d, f, x, q)
  PROVE  IsUpdate(W, U, c, d, f, x, q)
<1>1. OthersAlike(W, U, x) BY OthersAlikeTransitive DEF IsUpdate
<1>2. Sets(W, U, c, d, f, x, q)
  <2>1. W.co[x] = q BY DEF IsUpdate, Sets
  <2>2. ASSUME NEW c1 \in Cpu, NEW d1 \in Entity PROVE At(W, c1, d1) = IF c1 = c /\ d1 = d THEN f ELSE At(U, c1, d1)
    <3>1. At(W, c1, d1) = IF c1 = c /\ d1 = d THEN f ELSE At(V, c1, d1) BY DEF IsUpdate, Sets
    <3>2. At(V, c1, d1) = IF c1 = c /\ d1 = d THEN e ELSE At(U, c1, d1) BY DEF IsUpdate, Sets
    <3> QED BY <3>1, <3>2
  <2> QED BY <2>1, <2>2 DEF Sets
<1> QED BY <1>1, <1>2 DEF IsUpdate

LEMMA UpdateQuiet ==
  ASSUME NEW U, NEW V, NEW c \in Cpu, NEW d \in Entity, NEW e, NEW x, NEW o, IsUpdate(U, V, c, d, e, x, o),
         e.pc = "drain" => At(V, c, d).pc = "drain"
  PROVE  Quiet(U, V)
<1>1. ASSUME NEW c1 \in Cpu, NEW d1 \in Entity, At(U, c1, d1).pc = "drain" PROVE At(V, c1, d1).pc = "drain"
  <2>1. At(U, c1, d1) = IF c1 = c /\ d1 = d THEN e ELSE At(V, c1, d1) BY DEF IsUpdate, Sets
  <2> QED BY <1>1, <2>1
<1> QED BY <1>1 DEF Quiet, IsUpdate

\* What is left to show of it.
LEMMA UpdateSound ==
  ASSUME NEW V, NEW calls, NEW stops, Sound(V, calls, stops),
         NEW c \in Cpu, NEW d \in Entity, NEW e, NEW x \in Callout, NEW o,
         NEW U, IsUpdate(U, V, c, d, e, x, o), NEW calls1, NEW stops1, Steady(e, d),
         Linked(U, x), Running(U, x), Moved(U, calls1, x), Kept(U, stops1, x), stops1 \subseteq stops \cup {x},
         CallsAbout(calls1, calls, x), DrainsOf(U, calls1, x)
  PROVE  Sound(U, calls1, stops1)
<1>1. \A c1 \in Cpu, d1 \in Entity : Steady(At(V, c1, d1), d1) BY DEF Sound
<1>2. ASSUME NEW c1 \in Cpu, NEW d1 \in Entity PROVE Steady(At(U, c1, d1), d1)
  <2>1. At(U, c1, d1) = IF c1 = c /\ d1 = d THEN e ELSE At(V, c1, d1) BY DEF IsUpdate, Sets
  <2>2. CASE c1 = c /\ d1 = d BY <2>1, <2>2
  <2>3. CASE ~(c1 = c /\ d1 = d) BY <1>1, <2>1, <2>3
  <2> QED BY <2>2, <2>3
<1>3. Fine(U, calls1, stops1, x) BY DEF Fine
<1>4. U \in Kernel /\ (\A c1 \in Cpu : Tidy(U, c1)) /\ OthersAlike(U, V, x) BY DEF IsUpdate
<1> QED BY <1>2, <1>3, <1>4, SoundBy

(***************************************************************************)
(* The end of softclock_call_cc.                                             *)
(***************************************************************************)
\* An entity stops running its callout x.
LEMMA FinishStep ==
  ASSUME CallsOK, Sound(K, call, stopped), NEW c \in Cpu, NEW d \in Entity, At(K, c, d).pc = "finish",
         NEW x, x = At(K, c, d).x, NEW e \in cc_exec, NEW o \in callout,
         NEW U, IsPut(U, K, c, d, e, x, o),
         e.x = x, e.curr = None, Steady(e, d), e.pc \in {"drain", "wakeup", "switch", "relock"},
         At(K, c, d).waiting => WakeupToCome(e, x),
         ~o.dfr, o.pending = K.co[x].pending,
         o = K.co[x] \/ (K.co[x].dfr /\ ~Queued(o)),
         e.pc = "switch" => K.co[x].dfr /\ ~At(K, c, d).waiting /\ o.cpu = CPUBLOCK,
         e.pc # "switch" => o.cpu = K.co[x].cpu
  PROVE  /\ Sound(U, call, stopped)
         /\ IsUpdate(U, K, c, d, e, x, o)
         /\ \A c1 \in Cpu, d1 \in Entity : At(U, c1, d1).curr # x
<1> DEFINE a == At(K, c, d)
           k == K.co[x]
<1>1. /\ K \in Kernel /\ Steady(a, d) /\ a \in cc_exec /\ \A c1 \in Cpu : Tidy(K, c1)
  BY SoundParts
<1>2. a.curr = x /\ x \in Callout /\ d = dir(x) /\ x # None
  BY <1>1, CalloutWheelAssumption DEF Steady
<1>3. /\ Linked(K, x) /\ Running(K, x) /\ Moved(K, call, x) /\ Kept(K, stopped, x)
      /\ DrainsOf(K, call, x) /\ k \in callout
  BY <1>2, SoundParts
<1>4. c = k.cpu /\ \A c1 \in Cpu, d1 \in Entity : At(K, c1, d1).curr = x => c1 = c /\ d1 = d
  BY <1>2, <1>3, RunsOnce
<1>5. IsPut(U, K, c, d, e, x, o) OBVIOUS
<1>6. Only(e, x) /\ Only(a, x) BY <1>1, SteadyOnly
<1>7. IsUpdate(U, K, c, d, e, x, o) BY <1>1, <1>2, <1>5, <1>6, PutUpdate
<1>8. Sets(U, K, c, d, e, x, o) BY <1>7 DEF IsUpdate
<1>9. \A c1 \in Cpu, d1 \in Entity : At(U, c1, d1).curr # x
  <2>1. ASSUME NEW c1 \in Cpu, NEW d1 \in Entity PROVE At(U, c1, d1).curr # x
    <3>1. At(U, c1, d1) = IF c1 = c /\ d1 = d THEN e ELSE At(K, c1, d1) BY <1>8 DEF Sets
    <3> QED BY <1>2, <1>4, <3>1
  <2> QED BY <2>1
<1>10. Linked(U, x)
  <2>1. CASE o = k BY <1>2, <1>3, <1>5, <2>1, LinkedAfter
  <2>2. CASE k.dfr /\ ~Queued(o)
    <3>1. Unlisted(K, x) BY <1>3, <2>2, LinkedIsUnlisted DEF Queued
    <3> QED BY <1>2, <1>5, <2>2, <3>1, LinkedAfter
  <2> QED BY <2>1, <2>2
<1>11. Running(U, x)
  <2>1. e.curr # x BY <1>2
  <2>2. o.dfr => e.curr = x /\ (o.pending => o.active) OBVIOUS
  <2>3. e.curr = x => c = o.cpu /\ d = dir(x) /\ Current(o, e, x) BY <2>1
  <2>4. \A c1 \in Cpu, d1 \in Entity : At(K, c1, d1).curr = x => c1 = c /\ d1 = d BY <1>4
  <2> QED BY <1>2, <1>8, <2>2, <2>3, <2>4, RunningAfter
<1>12. Moved(U, call, x)
  <2>1. \A p \in Task : ThreadMoves(call[p], x) => ThreadMoves(call[p], x) OBVIOUS
  <2>2. CASE e.pc # "switch" BY <1>2, <1>3, <1>8, <2>1, <2>2, MovedAfter
  <2>3. CASE e.pc = "switch"
    <3>1. k.cpu # CPUBLOCK BY <1>4, CalloutWheelAssumption
    <3>2. \A p \in Task : ~ThreadMoves(call[p], x) BY <1>3, <3>1 DEF Moved
    <3>3. ASSUME NEW c1 \in Cpu, NEW d1 \in Entity, EntityMoves(U, c1, d1, x) PROVE c1 = c /\ d1 = d
      <4>1. ~EntityMoves(K, c1, d1, x) BY <1>3, <3>1 DEF Moved
      <4>2. At(U, c1, d1) = IF c1 = c /\ d1 = d THEN e ELSE At(K, c1, d1) BY <1>8 DEF Sets
      <4> QED BY <3>3, <4>1, <4>2 DEF EntityMoves
    <3>4. U.co[x].cpu = CPUBLOCK BY <1>8, <2>3 DEF Sets
    <3> QED BY <3>2, <3>3, <3>4 DEF Moved
  <2> QED BY <2>2, <2>3
<1>13. Kept(U, stopped, x)
  <2>1. x \in stopped => ~k.pending /\ ~k.dfr /\ k.cpu # CPUBLOCK BY <1>3 DEF Kept
  <2>2. x \in stopped => ~o.pending /\ ~o.dfr /\ o.cpu # CPUBLOCK /\ (e.curr = x => Cancels(e))
    BY <1>2, <2>1
  <2> QED BY <1>2, <1>3, <1>8, <2>2, KeptAfter
<1>14. DrainsOf(U, call, x)
  <2>1. CASE e.pc # "switch"
    <3>1. WakeupToCome(a, x) => WakeupToCome(e, x) BY DEF WakeupToCome
    <3> QED BY <1>2, <1>3, <1>8, <2>1, <3>1, DrainsAfter
  <2>2. CASE e.pc = "switch"
    <3>1. ASSUME NEW p \in Task, call[p].op = "drain", call[p].x = x PROVE call[p].pc \notin {"add", "sleep", "woken"}
      <4>1. Drains(K, call[p]) BY <1>3, <3>1 DEF DrainsOf
      <4>2. ~WakeupToCome(At(K, k.cpu, dir(x)), x) BY <1>2, <1>4, <2>2 DEF WakeupToCome
      <4> QED BY <2>2, <3>1, <4>1, <4>2 DEF Drains
    <3> QED BY <3>1 DEF DrainsOf, Drains
  <2> QED BY <2>1, <2>2
<1>15. CallsAbout(call, call, x) BY SameCallsAbout
<1>16. Sound(U, call, stopped)
  BY <1>2, <1>7, <1>10, <1>11, <1>12, <1>13, <1>14, <1>15, UpdateSound
<1> QED BY <1>7, <1>9, <1>16

\* An entity that does not run its callout x any more goes on.
LEMMA PastStep ==
  ASSUME CallsOK, Sound(K, call, stopped), NEW c \in Cpu, NEW d \in Entity, At(K, c, d).pc \in {"drain", "wakeup"},
         NEW x, x = At(K, c, d).x, NEW e \in cc_exec, e.x = x, e.curr = None, Steady(e, d),
         e.pc \in {"wakeup", "relock"}, NEW U, IsPut(U, K, c, d, e, x, K.co[x]),
         NEW calls1, CallsAbout(calls1, call, x), DrainsOf(U, calls1, x),
         \A p \in Task : ThreadMoves(calls1[p], x) => ThreadMoves(call[p], x)
  PROVE  /\ Sound(U, calls1, stopped)
         /\ IsUpdate(U, K, c, d, e, x, K.co[x])
<1> DEFINE a == At(K, c, d)
           k == K.co[x]
<1>1. /\ K \in Kernel /\ Steady(a, d) /\ a \in cc_exec /\ \A c1 \in Cpu : Tidy(K, c1)
  BY SoundParts
<1>2. a.curr # x /\ x \in Callout /\ x # None
  BY <1>1, CalloutWheelAssumption DEF Steady
<1>3. /\ Linked(K, x) /\ Running(K, x) /\ Moved(K, call, x) /\ Kept(K, stopped, x) /\ k \in callout
  BY <1>2, SoundParts
<1>5. IsPut(U, K, c, d, e, x, k) OBVIOUS
<1>6. Only(e, x) /\ Only(a, x) BY <1>1, SteadyOnly
<1>7. IsUpdate(U, K, c, d, e, x, k) BY <1>1, <1>2, <1>3, <1>5, <1>6, PutUpdate
<1>8. Sets(U, K, c, d, e, x, k) BY <1>7 DEF IsUpdate
<1>10. Linked(U, x) BY <1>2, <1>3, <1>5, LinkedAfter
<1>11. Running(U, x)
  <2>1. e.curr # x BY <1>2
  <2> QED BY <1>2, <1>3, <1>8, <2>1, NotRunningAfter
<1>12. Moved(U, calls1, x)
  <2>1. e.pc # "switch" OBVIOUS
  <2> QED BY <1>2, <1>3, <1>8, <2>1, MovedAfter
<1>13. Kept(U, stopped, x)
  <2>1. x \in stopped => ~k.pending /\ ~k.dfr /\ k.cpu # CPUBLOCK /\ (e.curr = x => Cancels(e))
    BY <1>2, <1>3 DEF Kept
  <2> QED BY <1>2, <1>3, <1>8, <2>1, KeptAfter
<1>16. Sound(U, calls1, stopped)
  BY <1>2, <1>7, <1>10, <1>11, <1>12, <1>13, UpdateSound
<1> QED BY <1>7, <1>16

WithExec(V, c, d, e) == [V EXCEPT !.cc[c].exec[d] = e]

\* An entity that is changed twice.
LEMMA PutTwice ==
  ASSUME NEW V \in Kernel, NEW c \in Cpu, NEW d \in Entity, NEW e \in cc_exec, NEW f \in cc_exec,
         NEW x \in Callout, NEW o \in callout, NEW W, W = WithExec(V, c, d, e)
  PROVE  /\ W.co = V.co /\ At(W, c, d) = e
         /\ Put(W, c, d, f, x, o) = Put(V, c, d, f, x, o)
         /\ WithExec(W, c, d, f) = WithExec(V, c, d, f)
<1> DEFINE p == V.cc[c]
           r == [p.exec EXCEPT ![d] = e]
           q == [p EXCEPT !.exec = r]
           s == [p.exec EXCEPT ![d] = f]
           t == [p EXCEPT !.exec = s]
<1>1. p \in callout_cpu /\ V.cc \in [Cpu -> callout_cpu] BY KernelFields DEF Kernel
<1>2. W = [V EXCEPT !.cc = [V.cc EXCEPT ![c] = q]] BY DEF Kernel, WithExec
<1>3. r \in [Entity -> cc_exec] /\ [r EXCEPT ![d] = f] = s /\ r[d] = e BY <1>1 DEF callout_cpu
<1>4. s \in [Entity -> cc_exec] BY <1>1 DEF callout_cpu
<1> HIDE DEF r, s
<1>5. q.exec = r /\ [q EXCEPT !.exec = s] = t /\ q \in callout_cpu /\ t \in callout_cpu
  BY <1>1, <1>3, <1>4 DEF callout_cpu
<1> HIDE DEF q, t
<1>6. W.cc = [V.cc EXCEPT ![c] = q] /\ W.co = V.co /\ W.cc[c] = q /\ [W.cc EXCEPT ![c] = t] = [V.cc EXCEPT ![c] = t]
  BY <1>1, <1>2, <1>5 DEF Kernel
<1>7. At(W, c, d) = e BY <1>3, <1>5, <1>6 DEF At
<1> DEFINE z == [V.co EXCEPT ![x] = o]
<1>8. Put(V, c, d, f, x, o) = [V EXCEPT !.cc = [V.cc EXCEPT ![c] = t], !.co = z]
  BY DEF Put, Kernel, t, s
<1>9. Put(W, c, d, f, x, o) = [W EXCEPT !.cc = [W.cc EXCEPT ![c] = [W.cc[c] EXCEPT !.exec = [W.cc[c].exec EXCEPT ![d] = f]]],
                                        !.co = [W.co EXCEPT ![x] = o]]
  BY <1>2 DEF Put, Kernel
<1>10. Put(W, c, d, f, x, o) = [W EXCEPT !.cc = [V.cc EXCEPT ![c] = t], !.co = z]
  BY <1>3, <1>5, <1>6, <1>9, ZenonT(60)
<1> HIDE DEF z
<1>11. Put(W, c, d, f, x, o) = Put(V, c, d, f, x, o) BY <1>2, <1>8, <1>10 DEF Kernel
<1>12. WithExec(W, c, d, f) = WithExec(V, c, d, f)
  <2>1. WithExec(V, c, d, f) = [V EXCEPT !.cc = [V.cc EXCEPT ![c] = t]] BY DEF WithExec, Kernel, t, s
  <2>2. WithExec(W, c, d, f) =
          [W EXCEPT !.cc = [W.cc EXCEPT ![c] = [W.cc[c] EXCEPT !.exec = [W.cc[c].exec EXCEPT ![d] = f]]]]
    BY <1>2 DEF WithExec, Kernel
  <2>3. WithExec(W, c, d, f) = [W EXCEPT !.cc = [V.cc EXCEPT ![c] = t]]
    BY <1>3, <1>5, <1>6, <2>2
  <2> QED BY <1>2, <2>1, <2>3 DEF Kernel
<1> QED BY <1>6, <1>7, <1>11, <1>12

\* The end of softclock_call_cc.
Ended(e) == [e EXCEPT !.curr = None]

LEMMA FinishedKeeps ==
  ASSUME CallsOK, Sound(K, call, stopped), NEW c \in Cpu, NEW d \in Entity,
         At(K, c, d).pc = "drain" \/ (At(K, c, d).pc = "finish" /\ ~At(K, c, d).drain),
         NEW e, e = Ended(At(K, c, d)), NEW V, V = WithExec(K, c, d, e)
  PROVE  Sound(Finished(V, c, d), call, stopped) /\ Quiet(Finished(V, c, d), K)
<1> DEFINE a == At(K, c, d)
           x == a.x
           k == K.co[x]
           migrating == a.migration # None
           U == Finished(V, c, d)
           left == IF e.migration # None THEN cc_cce_cleanup(e) ELSE e
<1>1. K \in Kernel /\ Steady(a, d) /\ a \in cc_exec BY SoundParts
<1>2. x \in Callout /\ x # None /\ d = dir(x) /\ ~a.drain
  BY <1>1, ExecFields, CalloutWheelAssumption DEF Steady
<1>3. Running(K, x) /\ k \in callout /\ DrainsOf(K, call, x) BY <1>2, SoundParts
<1>4. a.pc = "finish" => a.curr = x /\ k.cpu = c /\ Current(k, a, x)
  BY <1>1, <1>2, <1>3, RunsOnce DEF Steady
<1>5. a.pc = "drain" => ~migrating BY <1>1 DEF Steady
<1>6. /\ e \in cc_exec /\ e.curr = None /\ e.x = x /\ e.pc = a.pc /\ e.drain = FALSE /\ e.waiting = a.waiting
      /\ e.migration = a.migration
  BY <1>1, <1>2, ExecFields DEF cc_exec, Ended
<1>7. V.co = K.co /\ At(V, c, d) = e
  <2>1. V.co = K.co /\ At(V, c, d) = e BY <1>1, <1>2, <1>3, <1>6, PutTwice
  <2> QED BY <2>1
<1>8. /\ left \in cc_exec /\ left.curr = None /\ left.x = x /\ left.drain = FALSE /\ left.migration = None
      /\ (a.pc = "drain" => left = e) /\ left.waiting \in {FALSE, a.waiting}
  BY <1>5, <1>6, ZenonT(60) DEF cc_exec, cc_cce_cleanup
<1>9. ASSUME NEW f \in cc_exec, NEW o \in callout
      PROVE  IsPut(Put(V, c, d, f, x, o), K, c, d, f, x, o)
  <2>1. Put(V, c, d, f, x, o) = Put(K, c, d, f, x, o) BY <1>1, <1>2, <1>6, PutTwice
  <2> QED BY <1>1, <1>2, <2>1, PutFacts
<1> HIDE DEF U
<1>10. CASE a.waiting
  <2> DEFINE f == [left EXCEPT !.waiting = FALSE, !.pc = "wakeup"]
             o == [k EXCEPT !.dfr = k.dfr /\ e.migration = None]
  <2>1. U = Put(V, c, d, f, x, o) BY <1>6, <1>7, <1>10, ZenonT(60) DEF Finished, At, Put, U
  <2> HIDE DEF left
  <2>2. /\ f \in cc_exec /\ f.curr = None /\ f.x = x /\ f.drain = FALSE /\ f.waiting = FALSE
        /\ f.migration = None /\ f.pc = "wakeup"
    BY <1>8 DEF cc_exec
  <2>3. /\ o \in callout /\ o.pending = k.pending /\ o.cpu = k.cpu /\ o.dfr = (k.dfr /\ ~migrating)
        /\ (~k.dfr \/ ~migrating => o = k)
    BY <1>3, <1>6 DEF callout
  <2> HIDE DEF f, o
  <2>4. IsPut(U, K, c, d, f, x, o) BY <1>9, <2>1, <2>2, <2>3
  <2>5. Steady(f, d) BY <1>2, <2>2 DEF Steady
  <2>6. WakeupToCome(f, x) BY <2>2 DEF WakeupToCome
  <2>7. CASE a.pc = "finish"
    <3>1. ~o.dfr /\ (o = k \/ (k.dfr /\ ~Queued(o))) BY <1>4, <1>10, <2>3, <2>7 DEF Current, Queued
    <3>2. Sound(U, call, stopped) /\ IsUpdate(U, K, c, d, f, x, o)
      BY <2>2, <2>3, <2>4, <2>5, <2>6, <2>7, <3>1, FinishStep
    <3>3. Quiet(U, K) BY <2>2, <3>2, UpdateQuiet
    <3> QED BY <3>2, <3>3 DEF U
  <2>8. CASE a.pc = "drain"
    <3>1. o = k BY <1>5, <2>3, <2>8
    <3>2. DrainsOf(U, call, x)
      <4>1. Sets(U, K, c, d, f, x, k) BY <1>2, <2>4, <3>1, PutSets
      <4> QED BY <1>2, <1>3, <2>6, <4>1, DrainsAfter
    <3>3. CallsAbout(call, call, x) BY SameCallsAbout
    <3>4. Sound(U, call, stopped) /\ IsUpdate(U, K, c, d, f, x, k)
      BY <2>2, <2>4, <2>5, <2>8, <3>1, <3>2, <3>3, PastStep
    <3>5. Quiet(U, K) BY <2>2, <3>4, UpdateQuiet
    <3> QED BY <3>4, <3>5 DEF U
  <2> QED BY <2>7, <2>8
<1>11. CASE ~a.waiting /\ migrating
  <2> DEFINE f == [left EXCEPT !.pc = "switch", !.new = e.migration]
             o == [k EXCEPT !.dfr = FALSE, !.cpu = CPUBLOCK]
  <2>1. a.pc = "finish" /\ k.dfr BY <1>4, <1>5, <1>11 DEF Current
  <2>2. U = Put(V, c, d, f, x, o) BY <1>6, <1>7, <1>11, <2>1 DEF Finished, At, Put, U
  <2>3. e.migration \in Moves BY <1>6, <1>11, ExecFields
  <2> HIDE DEF left
  <2>4. /\ f \in cc_exec /\ f.curr = None /\ f.x = x /\ f.drain = FALSE /\ f.waiting = FALSE
        /\ f.migration = None /\ f.pc = "switch" /\ f.new \in Moves
    BY <1>8, <1>11, <2>3 DEF cc_exec
  <2>5. o \in callout /\ o.pending = k.pending /\ o.cpu = CPUBLOCK /\ ~o.dfr BY <1>3 DEF callout
  <2> HIDE DEF f, o
  <2>6. IsPut(U, K, c, d, f, x, o) BY <1>9, <2>2, <2>4, <2>5
  <2>7. Steady(f, d) BY <1>2, <2>4 DEF Steady
  <2>8. ~Queued(o) BY <2>5 DEF Queued
  <2>9. Sound(U, call, stopped) /\ IsUpdate(U, K, c, d, f, x, o)
    BY <1>11, <2>1, <2>4, <2>5, <2>6, <2>7, <2>8, FinishStep
  <2>10. Quiet(U, K) BY <2>4, <2>9, UpdateQuiet
  <2> QED BY <2>9, <2>10 DEF U
<1>12. CASE ~a.waiting /\ ~migrating
  <2> DEFINE f == [e EXCEPT !.pc = "relock"]
             W == WithExec(K, c, d, f)
  <2>1. /\ f \in cc_exec /\ f.curr = None /\ f.x = x /\ f.drain = FALSE /\ f.waiting = FALSE
        /\ f.migration = None /\ f.pc = "relock"
    BY <1>6, <1>12 DEF cc_exec
  <2>2. WithExec(V, c, d, f) = W BY <1>1, <1>2, <1>3, <1>6, <2>1, PutTwice
  <2>3. U = Returned(W, c, d)
    <3>1. U = Returned(WithExec(V, c, d, f), c, d) BY <1>6, <1>7, <1>12 DEF Finished, At, WithExec, U
    <3> QED BY <2>2, <3>1
  <2> HIDE DEF f
  <2>4. IsPut(W, K, c, d, f, x, k) BY <1>1, <1>2, <2>1, PutEntity DEF WithExec
  <2> HIDE DEF W
  <2>5. Steady(f, d) BY <1>2, <2>1 DEF Steady
  <2>6. Sound(W, call, stopped) /\ IsUpdate(W, K, c, d, f, x, k)
    <3>1. CASE a.pc = "finish"
      <4>1. ~k.dfr BY <1>4, <1>12, <3>1 DEF Current
      <4> QED BY <1>3, <1>12, <2>1, <2>4, <2>5, <3>1, <4>1, FinishStep
    <3>2. CASE a.pc = "drain"
      <4>1. DrainsOf(W, call, x)
        <5>1. Sets(W, K, c, d, f, x, k) BY <1>2, <2>4, PutSets
        <5>2. ~WakeupToCome(a, x) BY <1>12, <3>2 DEF WakeupToCome
        <5> QED BY <1>2, <1>3, <5>1, <5>2, DrainsAfter
      <4>2. CallsAbout(call, call, x) BY SameCallsAbout
      <4> QED BY <2>1, <2>4, <2>5, <3>2, <4>1, <4>2, PastStep
    <3> QED BY <3>1, <3>2
  <2>7. At(W, c, d).pc = "relock" BY <2>1, <2>4 DEF IsPut
  <2>8. Quiet(W, K) BY <2>1, <2>6, UpdateQuiet
  <2>9. Sound(U, call, stopped) /\ Quiet(U, W) BY <2>3, <2>6, <2>7, ReturnedKeeps
  <2> QED BY <2>8, <2>9, QuietTransitive DEF U
<1> QED BY <1>10, <1>11, <1>12

\* Nobody runs callout x, and it is not set.
Vanished(V, x) ==
  /\ ~V.co[x].pending /\ ~V.co[x].dfr
  /\ \A c \in Cpu, d \in Entity : At(V, c, d).curr # x

\* What every step may do: a scan that it starts is of the present time, and a
\* drain function is called for a callout that is gone.
Allowed(U, V) ==
  /\ \A c \in Cpu : U.cc[c].lastscan \in {V.cc[c].lastscan, now}
  /\ \A c \in Cpu, d \in Entity :
       At(U, c, d).pc = "drain" /\ At(V, c, d).pc # "drain" => Vanished(U, At(V, c, d).x)

LEMMA QuietAllowed == ASSUME NEW U, NEW V, Quiet(U, V) PROVE Allowed(U, V)
BY DEF Quiet, Allowed

LEMMA FinishKeeps ==
  ASSUME CallsOK, Sound(K, call, stopped), NEW c \in Cpu, NEW d \in Entity, Finish(c, d)
  PROVE  Sound(K', call', stopped') /\ Allowed(K', K)
<1> DEFINE a == At(K, c, d)
           x == a.x
           k == K.co[x]
<1>1. K \in Kernel /\ Steady(a, d) /\ a \in cc_exec BY SoundParts
<1>2. a.pc = "finish" /\ call' = call /\ stopped' = stopped BY DEF Finish, At
<1>3. x \in Callout /\ x # None /\ d = dir(x) /\ a.curr = x
  BY <1>1, <1>2, ExecFields, CalloutWheelAssumption DEF Steady
<1>4. CASE ~a.drain
  <2>1. K' = Finished(WithExec(K, c, d, Ended(a)), c, d) BY <1>4 DEF Finish, At, WithExec, Ended
  <2>2. Sound(K', call, stopped) /\ Quiet(K', K)
    BY <1>2, <1>4, <2>1, FinishedKeeps
  <2> QED BY <1>2, <2>2, QuietAllowed
<1>5. CASE a.drain
  <2> DEFINE e == [a EXCEPT !.curr = None, !.drain = FALSE, !.pc = "drain"]
  <2>1. K' = WithExec(K, c, d, e) BY <1>5 DEF Finish, At, WithExec
  <2>2. /\ e \in cc_exec /\ e.curr = None /\ e.x = x /\ e.drain = FALSE /\ e.waiting = a.waiting
        /\ e.migration = a.migration /\ e.pc = "drain"
    BY <1>1 DEF cc_exec
  <2> HIDE DEF e
  <2>3. IsPut(K', K, c, d, e, x, k) BY <1>1, <1>3, <2>1, <2>2, PutEntity DEF WithExec
  <2>4. Running(K, x) /\ k \in callout BY <1>3, SoundParts
  <2>5. Current(k, a, x) BY <1>3, <2>4, RunsOnce
  <2>6. ~k.pending /\ ~k.dfr /\ a.migration = None BY <1>5, <2>5 DEF Current
  <2>7. Steady(e, d) BY <1>3, <2>2, <2>6 DEF Steady
  <2>8. a.waiting => WakeupToCome(e, x) BY <2>2 DEF WakeupToCome
  <2>9. /\ Sound(K', call, stopped) /\ IsUpdate(K', K, c, d, e, x, k)
        /\ \A c1 \in Cpu, d1 \in Entity : At(K', c1, d1).curr # x
    BY <1>2, <2>2, <2>3, <2>4, <2>6, <2>7, <2>8, FinishStep
  <2>10. Vanished(K', x)
    <3>1. K'.co[x] = k BY <2>9 DEF IsUpdate, Sets
    <3> QED BY <2>6, <2>9, <3>1 DEF Vanished
  <2>11. ASSUME NEW c1 \in Cpu, NEW d1 \in Entity, At(K', c1, d1).pc = "drain", At(K, c1, d1).pc # "drain"
         PROVE  Vanished(K', At(K, c1, d1).x)
    <3>1. At(K', c1, d1) = IF c1 = c /\ d1 = d THEN e ELSE At(K, c1, d1) BY <2>9 DEF IsUpdate, Sets
    <3>2. c1 = c /\ d1 = d BY <2>11, <3>1
    <3> QED BY <2>10, <3>2
  <2>12. Allowed(K', K) BY <2>9, <2>11 DEF Allowed, IsUpdate
  <2> QED BY <1>2, <2>9, <2>12
<1> QED BY <1>4, <1>5

LEMMA DrainedKeeps ==
  ASSUME CallsOK, Sound(K, call, stopped), NEW c \in Cpu, NEW d \in Entity, Drained(c, d)
  PROVE  Sound(K', call', stopped') /\ Quiet(K', K)
<1> DEFINE a == At(K, c, d)
<1>1. K \in Kernel /\ Steady(a, d) /\ a \in cc_exec BY SoundParts
<1>2. a.pc = "drain" /\ call' = call /\ stopped' = stopped BY DEF Drained, At
<1>3. Ended(a) = a BY <1>1, <1>2 DEF Steady, Ended, cc_exec
<1>4. WithExec(K, c, d, a) = K
  <2> DEFINE p == K.cc[c]
             r == [p.exec EXCEPT ![d] = a]
             q == [p EXCEPT !.exec = r]
  <2>1. p \in callout_cpu /\ K.cc \in [Cpu -> callout_cpu] BY <1>1, KernelFields DEF Kernel
  <2>2. WithExec(K, c, d, a) = [K EXCEPT !.cc = [K.cc EXCEPT ![c] = q]] BY <1>1 DEF Kernel, WithExec
  <2>3. r = p.exec BY <2>1 DEF At, callout_cpu
  <2> HIDE DEF r
  <2>4. q = p BY <2>1, <2>3 DEF callout_cpu
  <2> HIDE DEF q
  <2>5. [K.cc EXCEPT ![c] = q] = K.cc BY <2>1, <2>4
  <2> QED BY <1>1, <2>2, <2>5 DEF Kernel
<1>5. K' = Finished(WithExec(K, c, d, Ended(a)), c, d) BY <1>3, <1>4 DEF Drained
<1> QED BY <1>2, <1>5, FinishedKeeps

\* The threads that sleep are those that a wakeup is for.
LEMMA WakeupKeeps ==
  ASSUME CallsOK, Sound(K, call, stopped), NEW c \in Cpu, NEW d \in Entity, Wakeup(c, d)
  PROVE  Sound(K', call', stopped') /\ Quiet(K', K)
<1> DEFINE a == At(K, c, d)
           x == a.x
           k == K.co[x]
           e == [a EXCEPT !.pc = "relock"]
<1>1. K \in Kernel /\ Steady(a, d) /\ a \in cc_exec BY SoundParts
<1>2. a.pc = "wakeup" /\ stopped' = stopped BY DEF Wakeup, At
<1>3. x \in Callout /\ x # None /\ d = dir(x) /\ a.curr = None
  BY <1>1, <1>2, ExecFields, CalloutWheelAssumption DEF Steady
<1>4. Running(K, x) /\ k \in callout /\ DrainsOf(K, call, x) BY <1>3, SoundParts
<1>5. K' = WithExec(K, c, d, e)
  <2>1. K.cc[c] \in callout_cpu BY <1>1, KernelFields
  <2> QED BY <1>1, <2>1 DEF Wakeup, At, WithExec
<1>6. /\ e \in cc_exec /\ e.curr = None /\ e.x = x /\ e.drain = a.drain /\ e.waiting = a.waiting
      /\ e.migration = a.migration /\ e.pc = "relock"
  BY <1>1, <1>3 DEF cc_exec
<1> HIDE DEF e
<1>7. IsPut(K', K, c, d, e, x, k) BY <1>1, <1>3, <1>5, <1>6, PutEntity DEF WithExec
<1>8. Sets(K', K, c, d, e, x, k) BY <1>3, <1>7, PutSets
<1>9. Steady(e, d) BY <1>1, <1>2, <1>6 DEF Steady
<1>10. ASSUME NEW p \in Task
       PROVE  \/ call'[p] = call[p] /\ ~(call[p].pc = "sleep" /\ call[p].ch = <<c, d>>)
              \/ /\ call[p].pc = "sleep" /\ call[p].ch = <<c, d>> /\ call'[p] = [call[p] EXCEPT !.pc = "woken"]
                 /\ call'[p].op = "drain" /\ call'[p].x = x /\ call[p].x = x /\ call'[p].pc = "woken"
                 /\ call'[p].ch = <<c, d>> /\ call[p].op = "drain"
  <2>1. call'[p] = IF call[p].pc = "sleep" /\ call[p].ch = <<c, d>> THEN [call[p] EXCEPT !.pc = "woken"] ELSE call[p]
    BY DEF Wakeup
  <2>2. CASE call[p].pc = "sleep" /\ call[p].ch = <<c, d>>
    <3>1. call[p].op = "drain" BY <2>2 DEF CallsOK, Legal
    <3>2. Drains(K, call[p]) BY DEF Sound
    <3>3. <<c, d>> = <<K.co[call[p].x].cpu, dir(call[p].x)>> BY <2>2, <3>1, <3>2 DEF Drains
    <3>4. call[p].x = x BY <2>2, <3>1, <3>2, <3>3 DEF Drains, WakeupToCome
    <3>5. call[p] \in Call BY DEF CallsOK
    <3> QED BY <2>1, <2>2, <3>1, <3>4, <3>5 DEF Call
  <2>3. CASE ~(call[p].pc = "sleep" /\ call[p].ch = <<c, d>>) BY <2>1, <2>3
  <2> QED BY <2>2, <2>3
<1>11. ~k.dfr \/ k.cpu # c
  <2>1. ASSUME k.dfr, k.cpu = c PROVE FALSE
    <3>1. At(K, k.cpu, dir(x)).curr = x BY <1>4, <2>1 DEF Running
    <3> QED BY <1>3, <2>1, <3>1
  <2> QED BY <2>1
<1>12. DrainsOf(K', call', x)
  <2>1. ASSUME NEW p \in Task, call'[p].op = "drain", call'[p].x = x PROVE Drains(K', call'[p])
    <3>1. K'.co[x] = k BY <1>8 DEF Sets
    <3>2. call[p].op = "drain" /\ call[p].x = x BY <1>10, <2>1
    <3>3. Drains(K, call[p]) BY <1>4, <3>2 DEF DrainsOf
    <3>4. CASE call[p].pc = "sleep" /\ call[p].ch = <<c, d>>
      <4>1. call'[p].pc = "woken" /\ call'[p].ch = <<c, d>> BY <1>10, <3>4
      <4>2. k.cpu = c BY <3>2, <3>3, <3>4 DEF Drains
      <4> QED BY <1>3, <1>11, <2>1, <3>1, <4>1, <4>2 DEF Drains
    <3>5. CASE ~(call[p].pc = "sleep" /\ call[p].ch = <<c, d>>)
      <4>1. call'[p] = call[p] BY <1>10, <3>5
      <4>2. ASSUME call[p].pc \in {"add", "sleep"} PROVE WakeupToCome(At(K', k.cpu, dir(x)), x)
        <5>1. k.cpu \in Cpu /\ call[p].ch = <<k.cpu, dir(x)>> /\ WakeupToCome(At(K, k.cpu, dir(x)), x)
          BY <3>2, <3>3, <4>2 DEF Drains
        <5>2. call[p].pc = "add" => call[p].ch # <<c, d>>
          <6>1. ~(call[p].ch = <<c, d>> /\ call[p].sq) BY DEF Wakeup, SleepqFree
          <6>2. call[p].pc = "add" => call[p].sq BY DEF CallsOK, Legal
          <6> QED BY <6>1, <6>2
        <5>3. <<k.cpu, dir(x)>> # <<c, d>> BY <3>5, <4>2, <5>1, <5>2
        <5>4. k.cpu # c BY <1>3, <5>3
        <5>5. At(K', k.cpu, dir(x)) = At(K, k.cpu, dir(x)) BY <1>8, <5>1, <5>4, DirIsEntity DEF Sets
        <5> QED BY <5>1, <5>5
      <4> QED BY <3>1, <3>2, <3>3, <4>1, <4>2 DEF Drains
    <3> QED BY <3>4, <3>5
  <2> QED BY <2>1 DEF DrainsOf
<1>13. CallsAbout(call', call, x)
  <2>1. CallsAbout(call, call, x) BY SameCallsAbout
  <2> QED BY <1>3, <1>10, <2>1 DEF CallsAbout
<1>14. \A p \in Task : ThreadMoves(call'[p], x) => ThreadMoves(call[p], x)
  BY <1>10 DEF ThreadMoves
<1>15. Sound(K', call', stopped) /\ IsUpdate(K', K, c, d, e, x, k)
  BY <1>2, <1>6, <1>7, <1>9, <1>12, <1>13, <1>14, PastStep
<1>16. Quiet(K', K) BY <1>6, <1>15, UpdateQuiet
<1> QED BY <1>2, <1>15, <1>16

(***************************************************************************)
(* A callout that was between two CPUs arrives.                              *)
(***************************************************************************)
\* The only mover of x, if any, is entity (c, d), which becomes e.
MovesLast(calls, c, d, e, x) ==
  /\ \A p \in Task : ~ThreadMoves(calls[p], x)
  /\ \A c1 \in Cpu, d1 \in Entity : EntityMoves(K, c1, d1, x) => c1 = c /\ d1 = d
  /\ e.pc # "switch" \/ e.x # x

\* No call to drain x begins or goes on.
SameDrains(calls1, calls, x) ==
  \A p \in Task : calls1[p].op = "drain" /\ calls1[p].x = x => calls1[p] = calls[p]

LEMMA ArriveKeeps ==
  ASSUME CallsOK, Sound(K, call, stopped), NEW c \in Cpu, NEW d \in Entity, NEW e \in cc_exec, Steady(e, d),
         NEW x \in Callout, K.co[x].cpu = CPUBLOCK, NEW n \in Cpu, NEW o \in callout, o.cpu = n, ~o.dfr,
         NEW W, IsPut(W, K, c, d, e, x, o),
         e = At(K, c, d) \/ (e.pc = "relock" /\ At(K, c, d).pc = "switch" /\ At(K, c, d).x = x),
         NEW when, when.time \in Nat, when.prec \in Int, NEW U, U = callout_cc_add(W, n, x, when),
         NEW calls, MovesLast(calls, c, d, e, x), CallsAbout(calls, call, x), SameDrains(calls, call, x)
  PROVE  Sound(U, calls, stopped) /\ Quiet(U, K)
<1> DEFINE a == At(K, c, d)
           k == K.co[x]
           w == U.co[x]
<1>1. /\ K \in Kernel /\ Steady(a, d) /\ a \in cc_exec /\ \A c1 \in Cpu : Tidy(K, c1)
  BY SoundParts
<1>2. /\ Linked(K, x) /\ Running(K, x) /\ Moved(K, call, x) /\ Kept(K, stopped, x)
      /\ DrainsOf(K, call, x) /\ k \in callout
  BY SoundParts
<1>3. ~k.dfr /\ \A c1 \in Cpu, d1 \in Entity : At(K, c1, d1).curr # x
  BY <1>2, CalloutWheelAssumption DEF Running
<1>4. a.curr # x /\ e.curr # x
  BY <1>3, CalloutWheelAssumption DEF Steady
<1>5. IsUpdate(W, K, c, d, e, x, o)
  <2>1. e = a \/ (Only(e, x) /\ Only(a, x))
    <3>1. CASE e = a BY <3>1
    <3>2. CASE e.pc = "relock" /\ a.pc = "switch" /\ a.x = x BY <1>1, <3>2, SteadyOnly
    <3> QED BY <3>1, <3>2
  <2>2. d = 1 /\ e.pc # "idle" => At(K, c, 1).pc # "idle" OBVIOUS
  <2> QED BY <1>1, <2>1, <2>2, PutUpdate
<1>6. /\ W \in Kernel /\ W.co[x] = o /\ At(W, c, d) = e /\ \A c1 \in Cpu : Tidy(W, c1)
  BY <1>5 DEF IsUpdate, Sets
<1>7. Unlisted(W, x)
  <2>1. Unlisted(K, x) BY <1>2, LinkedIsUnlisted DEF Queued
  <2>2. SameLists(W, K) BY DEF IsPut
  <2> QED BY <2>1, <2>2, SameListsAre DEF Unlisted
<1>8. ListsOnly(U, W, x) /\ Linked(U, x) /\ w.cpu = n /\ ~w.dfr /\ w.pending BY <1>6, <1>7, AddFacts
<1>9. IsUpdate(U, K, c, d, e, x, w)
  <2>1. IsUpdate(U, W, c, d, e, x, w) BY <1>6, <1>8, ListsUpdate
  <2> QED BY <1>5, <2>1, UpdateTransitive
<1>10. Sets(U, K, c, d, e, x, w) BY <1>9 DEF IsUpdate
<1>11. Running(U, x)
  <2>1. e.curr = x => c = w.cpu /\ d = dir(x) /\ Current(w, e, x) BY <1>4
  <2>2. w.dfr => e.curr = x /\ (w.pending => w.active) BY <1>8
  <2>3. \A c1 \in Cpu, d1 \in Entity : At(K, c1, d1).curr = x => c1 = c /\ d1 = d BY <1>3
  <2> QED BY <1>10, <2>1, <2>2, <2>3, RunningAfter
<1>12. Moved(U, calls, x)
  <2>1. ASSUME NEW c1 \in Cpu, NEW d1 \in Entity PROVE ~EntityMoves(U, c1, d1, x)
    <3>1. At(U, c1, d1) = IF c1 = c /\ d1 = d THEN e ELSE At(K, c1, d1) BY <1>10 DEF Sets
    <3> QED BY <3>1 DEF MovesLast, EntityMoves
  <2> QED BY <2>1 DEF Moved, MovesLast
<1>13. Kept(U, stopped, x) BY <1>2 DEF Kept
<1>14. DrainsOf(U, calls, x)
  <2>1. ASSUME NEW p \in Task, calls[p].op = "drain", calls[p].x = x PROVE Drains(U, calls[p])
    <3>1. calls[p] = call[p] BY <2>1 DEF SameDrains
    <3>2. Drains(K, calls[p]) BY <1>2, <2>1, <3>1 DEF DrainsOf
    <3>3. calls[p].pc \notin {"add", "sleep", "woken"} BY <2>1, <3>2, CalloutWheelAssumption DEF Drains
    <3> QED BY <3>3 DEF Drains
  <2> QED BY <2>1 DEF DrainsOf
<1>15. Sound(U, calls, stopped)
  BY <1>8, <1>9, <1>11, <1>12, <1>13, <1>14, UpdateSound
<1>16. Quiet(U, K) BY <1>9, UpdateQuiet
<1> QED BY <1>15, <1>16

LEMMA SameCallsSameDrains == ASSUME NEW x PROVE SameDrains(call, call, x)
BY DEF SameDrains

LEMMA MigrateKeeps ==
  ASSUME CallsOK, Sound(K, call, stopped), NEW c \in Cpu, NEW d \in Entity, Migrate(c, d)
  PROVE  Sound(K', call', stopped') /\ Quiet(K', K)
<1> DEFINE a == At(K, c, d)
           x == a.x
           n == a.new.cpu
           e == [a EXCEPT !.pc = "relock", !.new = None]
           o == [K.co[x] EXCEPT !.cpu = n]
           W == Put(K, c, d, e, x, o)
<1>1. K \in Kernel /\ Steady(a, d) /\ a \in cc_exec BY SoundParts
<1>2. a.pc = "switch" /\ call' = call /\ stopped' = stopped BY DEF Migrate, At
<1>3. x \in Callout /\ a.new \in Moves /\ n \in Cpu /\ a.new.time \in Nat /\ a.new.prec \in Int
  BY <1>1, <1>2, ExecFields, CalloutWheelAssumption DEF Steady, Moves
<1>4. K.co[x] \in callout /\ Moved(K, call, x) /\ Running(K, x) BY <1>3, SoundParts
<1>5. K' = callout_cc_add(W, n, x, a.new)
  <2>1. K' = callout_cc_add([K EXCEPT !.cc[c].exec[d] = e, !.co[x] = [@ EXCEPT !.cpu = n]], n, x, a.new)
    BY DEF Migrate, At
  <2>2. [K EXCEPT !.cc[c].exec[d] = e, !.co[x] = [@ EXCEPT !.cpu = n]] = W
    <3> HIDE DEF e
    <3> QED BY <1>1, <1>3 DEF Put, Kernel
  <2> QED BY <2>1, <2>2
<1>6. /\ e \in cc_exec /\ e.curr = a.curr /\ e.x = x /\ e.drain = a.drain /\ e.waiting = a.waiting
      /\ e.migration = a.migration /\ e.pc = "relock"
  BY <1>1, <1>3 DEF cc_exec
<1>7. EntityMoves(K, c, d, x) BY <1>2 DEF EntityMoves
<1>8. /\ K.co[x].cpu = CPUBLOCK /\ \A p \in Task : ~ThreadMoves(call[p], x)
      /\ \A c1 \in Cpu, d1 \in Entity : EntityMoves(K, c1, d1, x) => c1 = c /\ d1 = d
  BY <1>4, <1>7 DEF Moved
<1>9. ~K.co[x].dfr BY <1>4, <1>8, CalloutWheelAssumption DEF Running
<1>10. o \in callout /\ o.cpu = n /\ ~o.dfr BY <1>3, <1>4, <1>9 DEF callout
<1> HIDE DEF e, o
<1>11. IsPut(W, K, c, d, e, x, o) BY <1>1, <1>3, <1>6, <1>10, PutFacts
<1> HIDE DEF W
<1>12. Steady(e, d) BY <1>1, <1>2, <1>6 DEF Steady
<1>13. MovesLast(call, c, d, e, x) BY <1>6, <1>8 DEF MovesLast
<1>14. CallsAbout(call, call, x) /\ SameDrains(call, call, x) BY SameCallsAbout, SameCallsSameDrains
<1>15. Sound(K', call, stopped) /\ Quiet(K', K)
  BY <1>2, <1>3, <1>5, <1>6, <1>8, <1>10, <1>11, <1>12, <1>13, <1>14, ArriveKeeps
<1> QED BY <1>2, <1>15

\* The call of thread p returns.
LEMMA ReturnFacts ==
  ASSUME CallsOK, NEW p \in Task, Return(p), NEW x
  PROVE  /\ call'[p] = NoCall /\ \A q \in Task \ {p} : call'[q] = call[q]
         /\ CallsAbout(call', call, x) /\ SameDrains(call', call, x)
         /\ \A q \in Task : ThreadMoves(call'[q], x) => q # p /\ ThreadMoves(call[q], x)
<1>1. call'[p] = NoCall /\ \A q \in Task \ {p} : call'[q] = call[q] BY DEF Return, CallsOK
<1>2. CallsAbout(call, call, x) BY SameCallsAbout
<1>3. CallsAbout(call', call, x) BY <1>1, <1>2, NoCallIsIdle DEF CallsAbout
<1>4. SameDrains(call', call, x) BY <1>1, NoCallIsIdle DEF SameDrains
<1>5. \A q \in Task : ThreadMoves(call'[q], x) => q # p /\ ThreadMoves(call[q], x)
  BY <1>1, NoCallIsIdle DEF ThreadMoves
<1> QED BY <1>1, <1>3, <1>4, <1>5

LEMMA CallFields ==
  ASSUME CallsOK, NEW p \in Task, call[p].op # "none"
  PROVE  /\ call[p].x \in Callout /\ call[p].when.time \in Nat /\ call[p].when.prec \in Int
         /\ call[p].op = "reset" => call[p].cpu \in Cpu
BY NoCallIsIdle DEF CallsOK, Legal

LEMMA SwitchedKeeps ==
  ASSUME CallsOK, Sound(K, call, stopped), NEW p \in Task, Switched(p)
  PROVE  Sound(K', call', stopped') /\ Quiet(K', K)
<1> DEFINE x == call[p].x
           n == call[p].cpu
           o == [K.co[x] EXCEPT !.cpu = n]
           W == [K EXCEPT !.co[x] = o]
           a == At(K, n, 0)
<1>1. K \in Kernel BY SoundParts
<1>2. call[p].pc = "switch" /\ stopped' = stopped /\ Return(p) BY DEF Switched
<1>3. call[p].op = "reset" BY <1>2 DEF CallsOK, Legal
<1>4. x \in Callout /\ n \in Cpu /\ call[p].when.time \in Nat /\ call[p].when.prec \in Int
  BY <1>3, CallFields
<1>5. K.co[x] \in callout /\ Moved(K, call, x) /\ Running(K, x) BY <1>4, SoundParts
<1>6. 0 \in Entity BY DEF Entity
<1>7. a \in cc_exec /\ Steady(a, 0) BY <1>4, <1>6, SoundParts
<1>8. K' = callout_cc_add(W, n, x, call[p].when)
  <2>1. [K EXCEPT !.co[x].cpu = n] = W BY <1>1, <1>4 DEF Kernel
  <2> QED BY <2>1 DEF Switched
<1>9. ThreadMoves(call[p], x) BY <1>2 DEF ThreadMoves
<1>10. /\ K.co[x].cpu = CPUBLOCK /\ \A q \in Task : ThreadMoves(call[q], x) => q = p
       /\ \A c1 \in Cpu, d1 \in Entity : ~EntityMoves(K, c1, d1, x)
  BY <1>5, <1>9 DEF Moved
<1>11. ~K.co[x].dfr BY <1>5, <1>10, CalloutWheelAssumption DEF Running
<1>12. o \in callout /\ o.cpu = n /\ ~o.dfr BY <1>4, <1>5, <1>11 DEF callout
<1> HIDE DEF o
<1>13. IsPut(W, K, n, 0, a, x, o) BY <1>1, <1>4, <1>6, <1>12, PutCallout
<1> HIDE DEF W
<1>14. CallsAbout(call', call, x) /\ SameDrains(call', call, x) BY <1>2, ReturnFacts
<1>15. MovesLast(call', n, 0, a, x)
  <2>1. \A q \in Task : ~ThreadMoves(call'[q], x) BY <1>2, <1>10, ReturnFacts
  <2>2. a.pc # "switch" \/ a.x # x BY <1>4, <1>6, <1>10 DEF EntityMoves
  <2> QED BY <1>10, <2>1, <2>2 DEF MovesLast
<1>16. Sound(K', call', stopped) /\ Quiet(K', K)
  BY <1>4, <1>6, <1>7, <1>8, <1>10, <1>12, <1>13, <1>14, <1>15, ArriveKeeps
<1> QED BY <1>2, <1>16

(***************************************************************************)
(* callout_reset and callout_stop: parts of an update.                       *)
(***************************************************************************)
LEMMA ThenCallout ==
  ASSUME NEW V, NEW W, NEW c \in Cpu, NEW d \in Entity, NEW f, NEW x \in Callout, NEW o,
         IsUpdate(V, W, c, d, f, x, o), NEW q \in callout, NEW U, U = [V EXCEPT !.co[x] = q]
  PROVE  /\ IsUpdate(U, W, c, d, f, x, q)
         /\ SameLists(U, V)
<1>1. V \in Kernel /\ (\A c1 \in Cpu : Tidy(V, c1)) /\ At(V, c, d) = f BY DEF IsUpdate, Sets
<1>2. f \in cc_exec BY <1>1, KernelFields
<1>3. IsPut(U, V, c, d, f, x, q) BY <1>1, PutCallout
<1>4. IsUpdate(U, V, c, d, f, x, q)
  <2>1. d = 1 /\ f.pc # "idle" => At(V, c, 1).pc # "idle" BY <1>1
  <2> QED BY <1>1, <1>2, <1>3, <2>1, PutUpdate
<1> QED BY <1>3, <1>4, UpdateTransitive DEF IsPut

LEMMA ThenEntity ==
  ASSUME NEW V, NEW W, NEW c \in Cpu, NEW d \in Entity, NEW f, NEW x \in Callout, NEW o,
         IsUpdate(V, W, c, d, f, x, o), NEW g \in cc_exec, NEW q \in callout,
         NEW U, U = Put(V, c, d, g, x, q), Only(f, x), Only(g, x), f.pc = g.pc
  PROVE  /\ IsUpdate(U, W, c, d, g, x, q)
         /\ SameLists(U, V)
<1>1. V \in Kernel /\ (\A c1 \in Cpu : Tidy(V, c1)) /\ At(V, c, d) = f BY DEF IsUpdate, Sets
<1>2. IsPut(U, V, c, d, g, x, q) BY <1>1, PutFacts
<1>3. IsUpdate(U, V, c, d, g, x, q)
  <2>1. d = 1 /\ g.pc # "idle" => At(V, c, 1).pc # "idle" BY <1>1
  <2> QED BY <1>1, <1>2, <2>1, PutUpdate
<1> QED BY <1>2, <1>3, UpdateTransitive DEF IsPut

LEMMA ThenCancelled ==
  ASSUME NEW V, NEW W, NEW c \in Cpu, NEW d \in Entity, NEW f, NEW x \in Callout, NEW o,
         IsUpdate(V, W, c, d, f, x, o), o.cpu = c, ~o.dfr, Listed(V, x), NEW U, U = Cancelled(V, c, x)
  PROVE  /\ IsUpdate(U, W, c, d, f, x, U.co[x])
         /\ Linked(U, x) /\ Unlisted(U, x)
         /\ U.co[x].cpu = c /\ ~U.co[x].dfr /\ ~U.co[x].pending
<1>1. V \in Kernel /\ (\A c1 \in Cpu : Tidy(V, c1)) /\ At(V, c, d) = f /\ V.co[x] = o BY DEF IsUpdate, Sets
<1>2. ListsOnly(U, V, x) /\ Linked(U, x) /\ U.co[x].cpu = c /\ ~U.co[x].dfr /\ ~U.co[x].pending
  BY <1>1, CancelledFacts
<1>3. IsUpdate(U, V, c, d, f, x, U.co[x]) BY <1>1, <1>2, ListsUpdate
<1>4. Unlisted(U, x) BY <1>2, LinkedIsUnlisted DEF Queued
<1>5. IsUpdate(U, W, c, d, f, x, U.co[x]) BY <1>3, UpdateTransitive
<1> QED BY <1>2, <1>4, <1>5

LEMMA ThenAdded ==
  ASSUME NEW V, NEW W, NEW c \in Cpu, NEW d \in Entity, NEW f, NEW x \in Callout, NEW o,
         IsUpdate(V, W, c, d, f, x, o), o.cpu = c, ~o.dfr, Unlisted(V, x),
         NEW when, when.time \in Nat, when.prec \in Int, NEW U, U = callout_cc_add(V, c, x, when)
  PROVE  /\ IsUpdate(U, W, c, d, f, x, U.co[x])
         /\ Linked(U, x)
         /\ U.co[x].cpu = c /\ ~U.co[x].dfr /\ U.co[x].pending
<1>1. V \in Kernel /\ (\A c1 \in Cpu : Tidy(V, c1)) /\ At(V, c, d) = f /\ V.co[x] = o BY DEF IsUpdate, Sets
<1>2. ListsOnly(U, V, x) /\ Linked(U, x) /\ U.co[x].cpu = c /\ ~U.co[x].dfr /\ U.co[x].pending
  BY <1>1, AddFacts
<1>3. IsUpdate(U, V, c, d, f, x, U.co[x]) BY <1>1, <1>2, ListsUpdate
<1>4. IsUpdate(U, W, c, d, f, x, U.co[x]) BY <1>3, UpdateTransitive
<1> QED BY <1>2, <1>4

\* Nobody drains x.
Undrained(calls, x) == \A p \in Task : ~(calls[p].op = "drain" /\ calls[p].x = x)

\* Calls to drain x go on as before, or are not about to sleep, or wait for
\* entity f.
DrainsGoOn(calls, c, d, f, o, x) ==
  \A p \in Task : calls[p].op = "drain" /\ calls[p].x = x =>
    \/ calls[p] = call[p]
    \/ calls[p].pc \notin {"add", "sleep", "woken"}
    \/ calls[p].pc = "add" /\ calls[p].ch = <<c, d>> /\ o.cpu = c /\ WakeupToCome(f, x)

\* One thread moves x, from no CPU.
ThreadsMove(o, calls, x) ==
  \A p \in Task : ThreadMoves(calls[p], x) =>
    o.cpu = CPUBLOCK /\ \A q \in Task : ThreadMoves(calls[q], x) => q = p

Promised(o, f, x) ==
  ~o.pending /\ ~o.dfr /\ o.cpu # CPUBLOCK /\ (f.curr = x => Cancels(f))

\* Someone sets or cancels x with the lock of its CPU c.
LEMMA SetStep ==
  ASSUME CallsOK, Sound(K, call, stopped), NEW c \in Cpu, NEW d \in Entity, NEW x \in Callout,
         d = dir(x), K.co[x].cpu = c, NEW f, NEW o, NEW U, IsUpdate(U, K, c, d, f, x, o), Steady(f, d),
         Linked(U, x), f.curr = At(K, c, d).curr, f.pc = At(K, c, d).pc, f.x = At(K, c, d).x,
         f.curr = x => o.cpu = c /\ Current(o, f, x),
         o.dfr => f.curr = x /\ (o.pending => o.active),
         o.cpu = c \/ Undrained(call, x), o.dfr => K.co[x].dfr \/ Undrained(call, x),
         At(K, c, d).waiting => f.waiting,
         NEW calls, CallsAbout(calls, call, x), DrainsGoOn(calls, c, d, f, o, x), ThreadsMove(o, calls, x),
         NEW stops, stops \subseteq stopped \cup {x}, x \in stops => Promised(o, f, x)
  PROVE  Sound(U, calls, stops) /\ Quiet(U, K)
<1> DEFINE a == At(K, c, d)
           k == K.co[x]
<1>1. Running(K, x) /\ Moved(K, call, x) /\ Kept(K, stopped, x) /\ DrainsOf(K, call, x) BY SoundParts
<1>2. Sets(U, K, c, d, f, x, o) BY DEF IsUpdate
<1>3. U.co[x] = o /\ At(U, c, d) = f BY <1>2 DEF Sets
<1>4. \A c1 \in Cpu, d1 \in Entity : At(K, c1, d1).curr = x => c1 = c /\ d1 = d BY <1>1 DEF Running
<1>5. Running(U, x)
  <2>1. f.curr = x => c = o.cpu /\ d = dir(x) /\ Current(o, f, x) OBVIOUS
  <2> QED BY <1>2, <1>4, <2>1, RunningAfter
<1>6. Moved(U, calls, x)
  <2>1. ASSUME NEW c1 \in Cpu, NEW d1 \in Entity PROVE ~EntityMoves(U, c1, d1, x)
    <3>1. ~EntityMoves(K, c1, d1, x) BY <1>1, CalloutWheelAssumption DEF Moved
    <3>2. At(U, c1, d1) = IF c1 = c /\ d1 = d THEN f ELSE At(K, c1, d1) BY <1>2 DEF Sets
    <3> QED BY <3>1, <3>2 DEF EntityMoves
  <2> QED BY <1>3, <2>1 DEF Moved, ThreadsMove
<1>7. Kept(U, stops, x)
  <2>1. ASSUME NEW c1 \in Cpu, NEW d1 \in Entity, At(U, c1, d1).curr = x, x \in stops PROVE Cancels(At(U, c1, d1))
    <3>1. At(U, c1, d1) = IF c1 = c /\ d1 = d THEN f ELSE At(K, c1, d1) BY <1>2 DEF Sets
    <3>2. c1 = c /\ d1 = d BY <1>4, <2>1, <3>1
    <3> QED BY <2>1, <3>1, <3>2 DEF Promised
  <2> QED BY <1>3, <2>1 DEF Kept, Promised
<1>8. DrainsOf(U, calls, x)
  <2>1. ASSUME NEW p \in Task, calls[p].op = "drain", calls[p].x = x PROVE Drains(U, calls[p])
    <3>1. CASE calls[p] = call[p]
      <4>1. call[p].op = "drain" /\ call[p].x = x BY <2>1, <3>1
      <4>2. Drains(K, call[p]) BY <1>1, <4>1 DEF DrainsOf
      <4>3. o.cpu = c /\ (o.dfr => k.dfr) BY <4>1 DEF Undrained
      <4>4. WakeupToCome(a, x) => WakeupToCome(f, x) BY DEF WakeupToCome
      <4> QED BY <1>3, <3>1, <4>1, <4>2, <4>3, <4>4 DEF Drains
    <3>2. CASE calls[p].pc \notin {"add", "sleep", "woken"} BY <3>2 DEF Drains
    <3>3. CASE calls[p].pc = "add" /\ calls[p].ch = <<c, d>> /\ o.cpu = c /\ WakeupToCome(f, x)
      BY <1>3, <2>1, <3>3 DEF Drains
    <3> QED BY <2>1, <3>1, <3>2, <3>3 DEF DrainsGoOn
  <2> QED BY <2>1 DEF DrainsOf
<1>9. Sound(U, calls, stops) BY <1>5, <1>6, <1>7, <1>8, UpdateSound
<1>10. Quiet(U, K) BY UpdateQuiet
<1> QED BY <1>9, <1>10

\* The callout x and the entity that runs it, if any does.
LEMMA AboutFacts ==
  ASSUME Sound(K, call, stopped), NEW x \in Callout, NEW c \in Cpu, K.co[x].cpu = c
  PROVE  /\ K \in Kernel /\ K.co[x] \in callout /\ dir(x) \in Entity
         /\ exec(c, x) = At(K, c, dir(x)) /\ exec(c, x) \in cc_exec /\ Steady(exec(c, x), dir(x))
         /\ Linked(K, x) /\ IsUpdate(K, K, c, dir(x), exec(c, x), x, K.co[x])
         /\ K.co[x].dfr => exec(c, x).curr = x /\ (K.co[x].pending => K.co[x].active)
         /\ exec(c, x).curr = x =>
              /\ Only(exec(c, x), x) /\ exec(c, x).x = x /\ Current(K.co[x], exec(c, x), x)
              /\ exec(c, x).pc \in {"lock", "run", "finish"}
         /\ x \in stopped => Promised(K.co[x], exec(c, x), x)
<1> DEFINE d == dir(x)
           e == At(K, c, d)
           k == K.co[x]
<1>1. d \in Entity BY DirIsEntity
<1>2. /\ K \in Kernel /\ k \in callout /\ Linked(K, x) /\ Running(K, x) /\ Kept(K, stopped, x)
      /\ e \in cc_exec /\ Steady(e, d) /\ \A c1 \in Cpu : Tidy(K, c1)
  BY <1>1, SoundParts
<1>3. exec(c, x) = e BY DEF exec, At
<1>4. IsUpdate(K, K, c, d, e, x, k)
  <2>1. OthersAlike(K, K, x) BY DEF OthersAlike, Alike
  <2>2. Sets(K, K, c, d, e, x, k) BY DEF Sets
  <2> QED BY <1>2, <2>1, <2>2 DEF IsUpdate
<1>5. k.dfr => e.curr = x /\ (k.pending => k.active) BY <1>2 DEF Running
<1>6. e.curr = x => Only(e, x) /\ e.x = x /\ Current(k, e, x) /\ e.pc \in {"lock", "run", "finish"}
  <2> SUFFICES ASSUME e.curr = x PROVE Only(e, x) /\ e.x = x /\ Current(k, e, x) /\ e.pc \in {"lock", "run", "finish"}
    OBVIOUS
  <2>1. e.x = x /\ e.pc \in {"lock", "run", "finish"} BY <1>2, CalloutWheelAssumption DEF Steady
  <2>2. Current(k, e, x) BY <1>1, <1>2 DEF Running
  <2> QED BY <1>2, <2>1, <2>2, SteadyOnly
<1>7. x \in stopped => Promised(k, e, x) BY <1>1, <1>2 DEF Kept, Promised
<1> QED BY <1>1, <1>2, <1>3, <1>4, <1>5, <1>6, <1>7

\* An entity that runs x is changed, and goes on with it.
LEMMA GoesOn ==
  ASSUME Sound(K, call, stopped), NEW x \in Callout, NEW c \in Cpu, K.co[x].cpu = c, exec(c, x).curr = x,
         NEW f \in cc_exec, f.curr = x, f.x = x, f.pc = exec(c, x).pc,
         NEW U, U = WithExec(K, c, dir(x), f)
  PROVE  /\ IsUpdate(U, K, c, dir(x), f, x, K.co[x])
         /\ Linked(U, x) /\ Steady(f, dir(x)) /\ Only(f, x)
<1> DEFINE d == dir(x)
           e == exec(c, x)
           k == K.co[x]
<1>1. /\ K \in Kernel /\ k \in callout /\ d \in Entity /\ e = At(K, c, d) /\ Linked(K, x)
      /\ Only(e, x) /\ e.pc \in {"lock", "run", "finish"}
  BY AboutFacts
<1>2. \A c1 \in Cpu : Tidy(K, c1) BY SoundParts
<1>3. IsPut(U, K, c, d, f, x, k) BY <1>1, PutEntity DEF WithExec
<1>4. Steady(f, d) BY <1>1, CalloutWheelAssumption DEF Steady
<1>5. Only(f, x) BY <1>4, SteadyOnly
<1>6. d = 1 /\ f.pc # "idle" => At(K, c, 1).pc # "idle" BY <1>1
<1>7. IsUpdate(U, K, c, d, f, x, k) BY <1>1, <1>2, <1>3, <1>5, <1>6, PutUpdate
<1>8. Linked(U, x) BY <1>1, <1>3, LinkedAfter
<1> QED BY <1>4, <1>5, <1>7, <1>8

LEMMA SameDrainsGoOn ==
  ASSUME NEW calls, NEW x, SameDrains(calls, call, x), NEW c, NEW d, NEW f, NEW o
  PROVE  DrainsGoOn(calls, c, d, f, o, x)
BY DEF SameDrains, DrainsGoOn

\* What callout_reset leaves of the callout and its entity.
IsReset(U, x, c, n) ==
  \E f, o :
    /\ IsUpdate(U, K, c, dir(x), f, x, o) /\ Steady(f, dir(x)) /\ Linked(U, x)
    /\ f.curr = exec(c, x).curr /\ f.pc = exec(c, x).pc /\ f.x = exec(c, x).x
    /\ f.curr = x => o.cpu = c /\ Current(o, f, x)
    /\ o.dfr => f.curr = x /\ (o.pending => o.active)
    /\ o.cpu = c \/ (n # c /\ f.curr # x /\ o.cpu = CPUBLOCK)
    /\ o.dfr => K.co[x].dfr \/ n # c
    /\ exec(c, x).waiting => f.waiting

LEMMA ResetIs ==
  ASSUME Sound(K, call, stopped), NEW x \in Callout, NEW c \in Cpu, K.co[x].cpu = c, NEW n \in Cpu,
         NEW when, when.time \in Nat, when.prec \in Int
  PROVE  IsReset(Reset(x, when, n), x, c, n)
<1> DEFINE d == dir(x)
           e == exec(c, x)
           k == K.co[x]
           U == Reset(x, when, n)
           move == [cpu |-> n, time |-> when.time, prec |-> when.prec]
           r == [e EXCEPT !.cancel = e.cancel \/ x \in Locked]
           m == [r EXCEPT !.migration = move]
           S == Cancelled(K, c, x)
           R == WithExec(K, c, d, r)
           T == Cancelled(R, c, x)
<1>1. /\ K \in Kernel /\ k \in callout /\ d \in Entity /\ e = At(K, c, d) /\ e \in cc_exec /\ Steady(e, d)
      /\ Linked(K, x) /\ IsUpdate(K, K, c, d, e, x, k)
      /\ k.dfr => e.curr = x /\ (k.pending => k.active)
      /\ e.curr = x => /\ Only(e, x) /\ e.x = x /\ Current(k, e, x)
                       /\ e.pc \in {"lock", "run", "finish"}
  BY AboutFacts
<1>2. move \in Moves /\ move # None BY NoneIsNeither DEF Moves
<1> HIDE DEF move
<1>3. /\ r \in cc_exec /\ r.curr = e.curr /\ r.x = e.x /\ r.pc = e.pc /\ r.waiting = e.waiting /\ r.drain = e.drain
      /\ r.migration = e.migration /\ r.cancel = (e.cancel \/ x \in Locked)
  BY <1>1 DEF cc_exec
<1>4. /\ m \in cc_exec /\ m.curr = e.curr /\ m.x = e.x /\ m.pc = e.pc /\ m.waiting = e.waiting /\ m.drain = e.drain
      /\ m.migration = move /\ m.cancel = r.cancel
  BY <1>2, <1>3, ZenonT(60) DEF cc_exec
<1> HIDE DEF r, m
<1>5. CASE e.curr # x
  <2>1. ~k.dfr BY <1>1, <1>5
  <2>2. /\ IsUpdate(S, K, c, d, e, x, S.co[x]) /\ Unlisted(S, x) /\ S.co[x].cpu = c /\ ~S.co[x].dfr
    BY <1>1, <2>1, ThenCancelled DEF Linked
  <2>3. CASE n = c
    <3>1. U = callout_cc_add(S, c, x, when) BY <1>5, <2>3 DEF Reset
    <3> HIDE DEF U, S
    <3>2. IsUpdate(U, K, c, d, e, x, U.co[x]) /\ Linked(U, x) /\ U.co[x].cpu = c /\ ~U.co[x].dfr
      BY <1>1, <2>2, <3>1, ThenAdded
    <3> QED BY <1>1, <1>5, <3>2 DEF IsReset, U
  <2>4. CASE n # c
    <3> DEFINE o == [S.co[x] EXCEPT !.cpu = CPUBLOCK]
    <3>1. U = [S EXCEPT !.co[x] = [@ EXCEPT !.cpu = CPUBLOCK]] BY <1>5, <2>4 DEF Reset
    <3> HIDE DEF U, S
    <3>2. S \in Kernel /\ S.co[x] \in callout BY <2>2, KernelFields DEF IsUpdate
    <3>3. U = [S EXCEPT !.co[x] = o] BY <3>1, <3>2 DEF Kernel
    <3>4. o \in callout /\ o.cpu = CPUBLOCK /\ ~o.dfr BY <2>2, <3>2 DEF callout
    <3> HIDE DEF o
    <3>5. IsUpdate(U, K, c, d, e, x, o) /\ SameLists(U, S) BY <1>1, <2>2, <3>3, <3>4, ThenCallout
    <3>6. U.co[x] = o /\ Unlisted(U, x)
      BY <2>2, <3>5, SameListsAre DEF Unlisted, IsUpdate, Sets
    <3>7. Linked(U, x) BY <3>4, <3>6, UnlistedIsLinked DEF Queued
    <3> QED BY <1>1, <1>5, <2>4, <3>4, <3>5, <3>7 DEF IsReset, U
  <2> QED BY <2>3, <2>4
<1>6. CASE e.curr = x /\ ~MayReset(e)
  <2>1. U = R BY <1>1, <1>6 DEF Reset, WithExec, r
  <2> HIDE DEF U, R
  <2>2. IsUpdate(R, K, c, d, r, x, k) /\ Linked(R, x) /\ Steady(r, d) BY <1>1, <1>3, <1>6, GoesOn DEF R
  <2>3. Current(k, r, x) /\ k.cpu = c BY <1>1, <1>3, <1>6 DEF Current
  <2> QED BY <1>1, <1>3, <1>6, <2>1, <2>2, <2>3 DEF IsReset, U
<1>7. CASE e.curr = x /\ MayReset(e) /\ k.dfr
  <2>1. U = WithExec(K, c, d, m) BY <1>1, <1>7 DEF Reset, WithExec, r, m, move
  <2> HIDE DEF U
  <2>2. IsUpdate(U, K, c, d, m, x, k) /\ Linked(U, x) /\ Steady(m, d) BY <1>1, <1>4, <1>7, <2>1, GoesOn
  <2>3. Current(k, m, x) /\ k.cpu = c BY <1>1, <1>2, <1>3, <1>4, <1>7 DEF Current, MayReset
  <2> QED BY <1>1, <1>4, <1>7, <2>2, <2>3 DEF IsReset, U
<1>8. CASE e.curr = x /\ MayReset(e) /\ ~k.dfr
  <2>1. IsUpdate(R, K, c, d, r, x, k) /\ Linked(R, x) /\ Steady(r, d) /\ Only(r, x)
    BY <1>1, <1>3, <1>8, GoesOn
  <2>2. IsUpdate(T, K, c, d, r, x, T.co[x]) /\ Unlisted(T, x) /\ T.co[x].cpu = c /\ ~T.co[x].dfr
    BY <1>1, <1>8, <2>1, ThenCancelled DEF Linked
  <2>3. x \in Locked => r.cancel BY <1>3
  <2>4. ~e.waiting /\ ~e.drain /\ e.migration = None BY <1>1, <1>8 DEF MayReset, Current
  <2>5. CASE n = c
    <3>1. U = callout_cc_add(T, c, x, when) BY <1>1, <1>8, <2>5 DEF Reset, WithExec, r
    <3> HIDE DEF U, T
    <3>2. IsUpdate(U, K, c, d, r, x, U.co[x]) /\ Linked(U, x) /\ U.co[x].cpu = c /\ ~U.co[x].dfr
      BY <1>1, <2>2, <3>1, ThenAdded
    <3>3. Current(U.co[x], r, x) BY <1>3, <2>3, <2>4, <3>2 DEF Current
    <3> QED BY <1>1, <1>3, <1>8, <2>1, <3>2, <3>3 DEF IsReset, U
  <2>6. CASE n # c
    <3> DEFINE o == [T.co[x] EXCEPT !.dfr = TRUE, !.pending = TRUE, !.active = TRUE]
    <3>1. U = [T EXCEPT !.cc[c].exec[d] = m, !.co[x] = [@ EXCEPT !.dfr = TRUE, !.pending = TRUE, !.active = TRUE]]
      BY <1>1, <1>8, <2>6 DEF Reset, WithExec, r, m, move
    <3> HIDE DEF U, T
    <3>2. T \in Kernel /\ T.co[x] \in callout BY <2>2, KernelFields DEF IsUpdate
    <3>3. U = Put(T, c, d, m, x, o) BY <3>1, <3>2 DEF Kernel, Put
    <3>4. o \in callout /\ o.cpu = c /\ o.dfr /\ o.pending /\ o.active BY <2>2, <3>2 DEF callout
    <3> HIDE DEF o
    <3>5. Steady(m, d) BY <1>1, <1>4, <1>8, CalloutWheelAssumption DEF Steady
    <3>6. Only(m, x) BY <1>1, <1>4, <1>8, <3>5, SteadyOnly
    <3>7. IsUpdate(U, K, c, d, m, x, o) /\ SameLists(U, T) BY <1>1, <1>3, <1>4, <2>1, <2>2, <3>3, <3>4, <3>6, ThenEntity
    <3>8. U.co[x] = o /\ Unlisted(U, x)
      BY <2>2, <3>7, SameListsAre DEF Unlisted, IsUpdate, Sets
    <3>9. Linked(U, x) BY <3>4, <3>8, UnlistedIsLinked DEF Queued
    <3>10. Current(o, m, x) BY <1>2, <1>3, <1>4, <2>3, <2>4, <3>4 DEF Current
    <3> QED BY <1>1, <1>4, <1>8, <2>6, <3>4, <3>5, <3>7, <3>9, <3>10 DEF IsReset, U
  <2> QED BY <2>5, <2>6
<1> QED BY <1>5, <1>6, <1>7, <1>8

LEMMA ResetKeeps ==
  ASSUME CallsOK, Sound(K, call, stopped), NEW x \in Callout, NEW c \in Cpu, K.co[x].cpu = c,
         NEW n, NEW U, IsReset(U, x, c, n), n = c \/ Undrained(call, x),
         NEW calls, CallsAbout(calls, call, x), SameDrains(calls, call, x), ThreadsMove(U.co[x], calls, x)
  PROVE  Sound(U, calls, stopped \ {x}) /\ Quiet(U, K)
<1> DEFINE d == dir(x)
           e == exec(c, x)
<1>1. d \in Entity /\ e = At(K, c, d) BY AboutFacts
<1>2. PICK f, o :
        /\ IsUpdate(U, K, c, d, f, x, o) /\ Steady(f, d) /\ Linked(U, x)
        /\ f.curr = e.curr /\ f.pc = e.pc /\ f.x = e.x
        /\ f.curr = x => o.cpu = c /\ Current(o, f, x)
        /\ o.dfr => f.curr = x /\ (o.pending => o.active)
        /\ o.cpu = c \/ (n # c /\ f.curr # x /\ o.cpu = CPUBLOCK)
        /\ o.dfr => K.co[x].dfr \/ n # c
        /\ e.waiting => f.waiting
  BY DEF IsReset
<1>3. U.co[x] = o BY <1>2 DEF IsUpdate, Sets
<1>4. DrainsGoOn(calls, c, d, f, o, x) BY SameDrainsGoOn
<1>5. ThreadsMove(o, calls, x) BY <1>3
<1> QED BY <1>1, <1>2, <1>4, <1>5, SetStep

LEMMA WhenFacts ==
  ASSUME NEW t \in Nat, NEW u \in Nat
  PROVE  callout_when(u, t, 0) \in [time : Nat, prec : Int]
<1>1. 2 ^ tc_precexp \in Nat \ {0} BY CalloutWheelAssumption, PowerIsPositive
<1>2. t \div 2 ^ tc_precexp \in Int BY <1>1
<1>3. Max({t \div 2 ^ tc_precexp, 0}) \in Int BY <1>2, MaxOfTwo
<1>4. SBT_MAX \in Nat BY CalloutWheelAssumption
<1> QED BY <1>3, <1>4 DEF callout_when

LEMMA HandlerResetsKeeps ==
  ASSUME CallsOK, Sound(K, call, stopped), scenario \in Scenarios, now \in Nat,
         NEW c \in Cpu, NEW d \in Entity, HandlerResets(c, d), HandlersStay
  PROVE  Sound(K', call', stopped') /\ Quiet(K', K)
<1> DEFINE a == At(K, c, d)
           x == a.x
<1>1. a.pc = "run" /\ call' = call /\ stopped' = stopped \ {x} BY DEF HandlerResets, At
<1>2. Steady(a, d) /\ a \in cc_exec BY SoundParts
<1>3. x \in Callout /\ a.curr = x BY <1>1, <1>2, CalloutWheelAssumption DEF Steady
<1>4. Running(K, x) BY <1>3, SoundParts
<1>5. K.co[x].cpu = c /\ d = dir(x) BY <1>3, <1>4, RunsOnce
<1>6. PICK t \in scenario.delays, n \in scenario.cpus :
        /\ (IF n = c THEN "reset" ELSE "move") \in scenario.handler
        /\ K' = Reset(x, callout_when(now, t, 0), n)
  BY DEF HandlerResets, At
<1>7. n \in Cpu /\ t \in Nat BY <1>6, ScenariosAssumption
<1> DEFINE when == callout_when(now, t, 0)
<1>8. when.time \in Nat /\ when.prec \in Int BY <1>7, WhenFacts
<1> HIDE DEF when
<1>9. IsReset(K', x, c, n) BY <1>3, <1>5, <1>6, <1>7, <1>8, ResetIs DEF when
<1>10. n = c \/ Undrained(call, x)
  <2>1. ASSUME n # c, NEW p \in Task, call[p].op = "drain" PROVE FALSE
    <3>1. "move" \in scenario.handler BY <1>6, <2>1
    <3>2. "drain" \in scenario.ops[p] BY <2>1, NoCallIsIdle DEF CallsOK, Legal
    <3> QED BY <3>1, <3>2 DEF HandlersStay
  <2> QED BY <2>1 DEF Undrained
<1>11. CallsAbout(call, call, x) /\ SameDrains(call, call, x) BY SameCallsAbout, SameCallsSameDrains
<1>12. ThreadsMove(K'.co[x], call, x)
  <2>1. Moved(K, call, x) BY <1>3, SoundParts
  <2> QED BY <1>5, <2>1, CalloutWheelAssumption DEF Moved, ThreadsMove
<1>13. Sound(K', call, stopped \ {x}) /\ Quiet(K', K)
  BY <1>3, <1>5, <1>9, <1>10, <1>11, <1>12, ResetKeeps
<1> QED BY <1>1, <1>13

\* callout_lock finds the callout on a CPU.
LEMMA LockFacts ==
  ASSUME Sound(K, call, stopped), NEW x \in Callout, callout_lock(x)
  PROVE  K.co[x].cpu \in Cpu /\ \A p \in Task : ~ThreadMoves(call[p], x)
<1>1. K.co[x] \in callout /\ Moved(K, call, x) BY SoundParts
<1> QED BY <1>1, CalloutFields DEF callout_lock, Moved

LEMMA ResetCallKeeps ==
  ASSUME CallsOK, Sound(K, call, stopped), Apart(call), NEW p \in Task, ResetCall(p)
  PROVE  Sound(K', call', stopped') /\ Quiet(K', K)
<1> DEFINE x == call[p].x
           n == call[p].cpu
           when == call[p].when
           c == K.co[x].cpu
           U == Reset(x, when, n)
<1>1. call[p].op = "reset" /\ call[p].pc = "again" /\ callout_lock(x) /\ stopped' = stopped \ {x} /\ K' = U
  BY DEF ResetCall
<1>2. x \in Callout /\ n \in Cpu /\ when.time \in Nat /\ when.prec \in Int BY <1>1, CallFields
<1>3. c \in Cpu /\ \A q \in Task : ~ThreadMoves(call[q], x) BY <1>1, <1>2, LockFacts
<1>4. IsReset(U, x, c, n) BY <1>2, <1>3, ResetIs
<1>5. Undrained(call, x) BY <1>1 DEF Undrained, Apart
<1> HIDE DEF U
<1>6. CASE U.co[x].cpu = CPUBLOCK
  <2>1. call' = [call EXCEPT ![p].pc = "switch"] BY <1>1, <1>6 DEF ResetCall, U
  <2>2. call \in [Task -> Call] BY DEF CallsOK
  <2>3. /\ call'[p].op = "reset" /\ call'[p].x = x /\ \A q \in Task \ {p} : call'[q] = call[q]
    BY <1>1, <2>1, <2>2 DEF Call
  <2>4. CallsAbout(call, call, x) BY SameCallsAbout
  <2>5. CallsAbout(call', call, x) /\ SameDrains(call', call, x)
    BY <2>3, <2>4 DEF CallsAbout, SameDrains
  <2>6. ThreadsMove(U.co[x], call', x)
    <3>1. \A q \in Task : ThreadMoves(call'[q], x) => q = p BY <1>3, <2>3 DEF ThreadMoves
    <3> QED BY <1>6, <3>1 DEF ThreadsMove
  <2> QED BY <1>1, <1>2, <1>3, <1>4, <1>5, <2>5, <2>6, ResetKeeps
<1>7. CASE U.co[x].cpu # CPUBLOCK
  <2>1. Return(p) BY <1>1, <1>7 DEF ResetCall, U
  <2>2. CallsAbout(call', call, x) /\ SameDrains(call', call, x) BY <2>1, ReturnFacts
  <2>3. ThreadsMove(U.co[x], call', x)
    <3>1. \A q \in Task : ~ThreadMoves(call'[q], x) BY <1>3, <2>1, ReturnFacts
    <3> QED BY <3>1 DEF ThreadsMove
  <2> QED BY <1>1, <1>2, <1>3, <1>4, <1>5, <2>2, <2>3, ResetKeeps
<1> QED BY <1>6, <1>7

\* A callout that is to be moved is not set any more.
Dropped(x) == IF Slipped(x) THEN Idle(K, x) ELSE K

LEMMA DroppedFacts ==
  ASSUME Sound(K, call, stopped), NEW x \in Callout, NEW c \in Cpu, K.co[x].cpu = c,
         NEW V, V = Dropped(x)
  PROVE  /\ ~K.co[x].dfr => V = K
         /\ IsUpdate(V, K, c, dir(x), exec(c, x), x, V.co[x]) /\ Linked(V, x)
         /\ V.co[x] \in callout /\ V.co[x].cpu = c /\ V.co[x].dfr = K.co[x].dfr
         /\ V.co[x].dfr => ~V.co[x].pending /\ Unlisted(V, x)
<1> DEFINE d == dir(x)
           e == exec(c, x)
           k == K.co[x]
           o == [k EXCEPT !.pending = FALSE, !.active = FALSE]
<1>1. /\ K \in Kernel /\ k \in callout /\ d \in Entity
      /\ Linked(K, x) /\ IsUpdate(K, K, c, d, e, x, k) /\ (k.dfr => (k.pending => k.active))
  BY AboutFacts
<1>2. k.dfr => Unlisted(K, x) BY <1>1, LinkedIsUnlisted DEF Queued
<1>3. CASE ~Slipped(x)
  <2>1. V = K BY <1>3 DEF Dropped
  <2> QED BY <1>1, <1>2, <1>3, <2>1 DEF Slipped
<1>4. CASE Slipped(x)
  <2>1. k.dfr BY <1>4 DEF Slipped
  <2>2. V = [K EXCEPT !.co[x] = o] BY <1>1, <1>4 DEF Dropped, Idle, Kernel
  <2>3. o \in callout /\ o.cpu = c /\ o.dfr = k.dfr /\ ~o.pending BY <1>1 DEF callout
  <2> HIDE DEF o
  <2>4. IsUpdate(V, K, c, d, e, x, o) /\ SameLists(V, K) BY <1>1, <2>2, <2>3, ThenCallout
  <2>5. V.co[x] = o BY <2>4 DEF IsUpdate, Sets
  <2>6. Unlisted(V, x) BY <1>2, <2>1, <2>4, SameListsAre DEF Unlisted
  <2>7. Linked(V, x) BY <2>3, <2>5, <2>6, UnlistedIsLinked DEF Queued
  <2> QED BY <2>1, <2>3, <2>4, <2>5, <2>6, <2>7
<1> QED BY <1>3, <1>4

\* What callout_stop leaves of the callout and its entity.
IsStop(U, done, x, c) ==
  \E f, o :
    /\ IsUpdate(U, K, c, dir(x), f, x, o) /\ Steady(f, dir(x)) /\ Linked(U, x)
    /\ f.curr = exec(c, x).curr /\ f.pc = exec(c, x).pc /\ f.x = exec(c, x).x
    /\ f.curr = x => Current(o, f, x)
    /\ o.cpu = c /\ ~o.dfr /\ ~o.pending
    /\ exec(c, x).waiting => f.waiting
    /\ x \in stopped \/ done => Promised(o, f, x)

LEMMA StopIs ==
  ASSUME Sound(K, call, stopped), NEW x \in Callout, NEW c \in Cpu, K.co[x].cpu = c, NEW drain \in BOOLEAN
  PROVE  IsStop(Stop(x, drain).K, Stop(x, drain).done, x, c)
<1> DEFINE d == dir(x)
           e == exec(c, x)
           k == K.co[x]
           U == Stop(x, drain).K
           done == Stop(x, drain).done
           S == Dropped(x)
           a == [e EXCEPT !.drain = e.drain \/ drain]
<1>1. /\ K \in Kernel /\ k \in callout /\ d \in Entity /\ e = At(K, c, d) /\ e \in cc_exec /\ Steady(e, d)
      /\ Linked(K, x) /\ IsUpdate(K, K, c, d, e, x, k)
      /\ k.dfr => e.curr = x /\ (k.pending => k.active)
      /\ e.curr = x => /\ Only(e, x) /\ e.x = x /\ Current(k, e, x)
                       /\ e.pc \in {"lock", "run", "finish"}
      /\ x \in stopped => Promised(k, e, x)
  BY AboutFacts
<1>2. /\ a \in cc_exec /\ a.curr = e.curr /\ a.x = e.x /\ a.pc = e.pc /\ a.waiting = e.waiting
      /\ a.drain = (e.drain \/ drain) /\ a.cancel = e.cancel /\ a.migration = e.migration
  BY <1>1 DEF cc_exec
<1>3. c # CPUBLOCK BY CalloutWheelAssumption
<1>4. ~k.dfr => S = K BY DroppedFacts
<1>5. CASE e.curr # x
  <2>1. ~k.dfr /\ S = K BY <1>1, <1>4, <1>5
  <2>2. U = Cancelled(K, c, x) BY <1>5, <2>1 DEF Stop, Dropped
  <2> HIDE DEF U, done
  <2>3. /\ IsUpdate(U, K, c, d, e, x, U.co[x]) /\ Linked(U, x) /\ U.co[x].cpu = c /\ ~U.co[x].dfr /\ ~U.co[x].pending
    BY <1>1, <2>1, <2>2, ThenCancelled DEF Linked
  <2>4. Promised(U.co[x], e, x) BY <1>3, <1>5, <2>3 DEF Promised
  <2> QED BY <1>1, <1>5, <2>3, <2>4 DEF IsStop, U, done
<1>6. CASE e.curr = x /\ x \in Locked /\ ~e.cancel /\ ~drain
  <2> DEFINE f == [e EXCEPT !.cancel = TRUE, !.migration = None]
             o == [k EXCEPT !.active = FALSE, !.dfr = FALSE]
  <2>1. e.pc = "lock" /\ ~k.pending /\ ~k.dfr /\ e.migration = None /\ S = K
    BY <1>1, <1>4, <1>6 DEF Current
  <2>2. U = [K EXCEPT !.cc[c].exec[d] = f, !.co[x] = [@ EXCEPT !.active = FALSE, !.dfr = FALSE]]
    BY <1>1, <1>6, <2>1 DEF Stop, Dropped
  <2> HIDE DEF U, done
  <2>3. /\ f \in cc_exec /\ f.curr = e.curr /\ f.x = e.x /\ f.pc = e.pc /\ f.waiting = e.waiting
        /\ f.drain = e.drain /\ f.cancel /\ f.migration = None
    BY <1>1 DEF cc_exec
  <2> HIDE DEF f
  <2>4. U = Put(K, c, d, f, x, o) BY <1>1, <2>2 DEF Put, Kernel
  <2>5. o \in callout /\ o.cpu = c /\ ~o.dfr /\ ~o.pending BY <1>1, <2>1 DEF callout
  <2> HIDE DEF o
  <2>6. Steady(f, d) /\ Only(f, x)
    <3>1. Steady(f, d) BY <1>1, <1>6, <2>3, CalloutWheelAssumption DEF Steady
    <3> QED BY <1>1, <1>6, <2>3, <3>1, SteadyOnly
  <2>7. IsUpdate(U, K, c, d, f, x, o) /\ SameLists(U, K) BY <1>1, <1>6, <2>3, <2>4, <2>5, <2>6, ThenEntity
  <2>8. Linked(U, x)
    <3>1. Unlisted(K, x) BY <1>1, <2>1, LinkedIsUnlisted DEF Queued
    <3>2. U.co[x] = o /\ Unlisted(U, x) BY <2>7, <3>1, SameListsAre DEF Unlisted, IsUpdate, Sets
    <3> QED BY <2>5, <3>2, UnlistedIsLinked DEF Queued
  <2>9. Current(o, f, x) BY <1>1, <1>6, <2>1, <2>3, <2>5 DEF Current
  <2>10. Promised(o, f, x) BY <1>3, <2>1, <2>3, <2>5 DEF Promised, Cancels
  <2> QED BY <1>1, <2>3, <2>5, <2>6, <2>7, <2>8, <2>9, <2>10 DEF IsStop, U, done
<1>7. CASE e.curr = x /\ ~(x \in Locked /\ ~e.cancel /\ ~drain) /\ k.dfr
  <2> DEFINE f == [a EXCEPT !.migration = None]
             o == [S.co[x] EXCEPT !.active = FALSE, !.dfr = FALSE]
  <2>1. U = [S EXCEPT !.cc[c].exec[d] = f, !.co[x] = [@ EXCEPT !.active = FALSE, !.dfr = FALSE]]
        /\ ~done
    BY <1>1, <1>7 DEF Stop, Dropped
  <2> HIDE DEF U, done
  <2>2. /\ IsUpdate(S, K, c, d, e, x, S.co[x]) /\ S.co[x] \in callout /\ S.co[x].cpu = c
        /\ ~S.co[x].pending /\ Unlisted(S, x)
    BY <1>1, <1>7, DroppedFacts
  <2> HIDE DEF S
  <2>3. /\ f \in cc_exec /\ f.curr = e.curr /\ f.x = e.x /\ f.pc = e.pc /\ f.waiting = e.waiting
        /\ f.drain = a.drain /\ f.cancel = e.cancel /\ f.migration = None
    BY <1>2 DEF cc_exec
  <2> HIDE DEF f, a
  <2>4. U = Put(S, c, d, f, x, o)
    <3>1. S \in Kernel BY <2>2 DEF IsUpdate
    <3> QED BY <2>1, <3>1 DEF Put, Kernel
  <2>5. o \in callout /\ o.cpu = c /\ ~o.dfr /\ ~o.pending BY <2>2 DEF callout
  <2> HIDE DEF o
  <2>6. Steady(f, d) /\ Only(f, x)
    <3>1. Steady(f, d) BY <1>1, <1>7, <2>3, CalloutWheelAssumption DEF Steady
    <3> QED BY <1>1, <1>7, <2>3, <3>1, SteadyOnly
  <2>7. IsUpdate(U, K, c, d, f, x, o) /\ SameLists(U, S) BY <1>1, <1>7, <2>2, <2>3, <2>4, <2>5, <2>6, ThenEntity
  <2>8. Linked(U, x)
    <3>1. U.co[x] = o /\ Unlisted(U, x) BY <2>2, <2>7, SameListsAre DEF Unlisted, IsUpdate, Sets
    <3> QED BY <2>5, <3>1, UnlistedIsLinked DEF Queued
  <2>9. Current(o, f, x) BY <1>1, <1>7, <2>3, <2>5 DEF Current
  <2>10. x \notin stopped BY <1>1, <1>7 DEF Promised
  <2> QED BY <1>1, <2>1, <2>3, <2>5, <2>6, <2>7, <2>8, <2>9, <2>10 DEF IsStop, U, done
<1>8. CASE e.curr = x /\ ~(x \in Locked /\ ~e.cancel /\ ~drain) /\ ~k.dfr
  <2> DEFINE o == [k EXCEPT !.active = FALSE]
             V == Put(K, c, d, a, x, o)
  <2>1. U = Cancelled(V, c, x) /\ ~done
    <3>1. U = Cancelled([K EXCEPT !.cc[c].exec[d] = a, !.co[x] = [@ EXCEPT !.active = FALSE]], c, x) /\ ~done
      BY <1>1, <1>4, <1>8 DEF Stop, Dropped
    <3> HIDE DEF U, done, a
    <3>2. [K EXCEPT !.cc[c].exec[d] = a, !.co[x] = [@ EXCEPT !.active = FALSE]] = V BY <1>1 DEF Put, Kernel
    <3> QED BY <3>1, <3>2
  <2> HIDE DEF U, done, a
  <2>2. /\ o \in callout /\ o.cpu = c /\ ~o.dfr /\ o.pending = k.pending /\ o.processed = k.processed
        /\ o.time = k.time /\ o.dfr = k.dfr
    BY <1>1, <1>8 DEF callout
  <2> HIDE DEF o, V
  <2>3. Steady(a, d) /\ Only(a, x)
    <3>1. Steady(a, d) BY <1>1, <1>2, <1>8, CalloutWheelAssumption DEF Steady
    <3> QED BY <1>1, <1>2, <1>8, <3>1, SteadyOnly
  <2>4. IsUpdate(V, K, c, d, a, x, o) /\ SameLists(V, K) BY <1>1, <1>2, <1>8, <2>2, <2>3, ThenEntity DEF V
  <2>5. Listed(V, x)
    <3>1. V.co[x] = o BY <2>4 DEF IsUpdate, Sets
    <3>2. Queued(o) <=> Queued(k) BY <1>1, <2>2 DEF Queued
    <3> QED BY <1>1, <2>2, <2>4, <3>1, <3>2, SameListsAre DEF Linked, Listed
  <2>6. /\ IsUpdate(U, K, c, d, a, x, U.co[x]) /\ Linked(U, x) /\ U.co[x].cpu = c /\ ~U.co[x].dfr /\ ~U.co[x].pending
    BY <1>1, <2>1, <2>2, <2>4, <2>5, ThenCancelled
  <2>7. Current(U.co[x], a, x) BY <1>1, <1>2, <1>8, <2>6 DEF Current
  <2>8. x \in stopped => Promised(U.co[x], a, x) BY <1>1, <1>2, <1>3, <2>6 DEF Promised, Cancels
  <2> QED BY <1>1, <1>2, <2>1, <2>3, <2>6, <2>7, <2>8 DEF IsStop, U, done
<1> QED BY <1>5, <1>6, <1>7, <1>8

LEMMA StopKeeps ==
  ASSUME CallsOK, Sound(K, call, stopped), NEW x \in Callout, NEW c \in Cpu, K.co[x].cpu = c,
         NEW U, NEW done, IsStop(U, done, x, c),
         NEW calls, CallsAbout(calls, call, x), SameDrains(calls, call, x), \A p \in Task : ~ThreadMoves(calls[p], x),
         NEW stops, stops \in {stopped, stopped \cup {x}}, stops = stopped \/ done
  PROVE  Sound(U, calls, stops) /\ Quiet(U, K)
<1> DEFINE d == dir(x)
           e == exec(c, x)
<1>1. d \in Entity /\ e = At(K, c, d) BY AboutFacts
<1>2. PICK f, o :
        /\ IsUpdate(U, K, c, d, f, x, o) /\ Steady(f, d) /\ Linked(U, x)
        /\ f.curr = e.curr /\ f.pc = e.pc /\ f.x = e.x
        /\ f.curr = x => Current(o, f, x)
        /\ o.cpu = c /\ ~o.dfr /\ ~o.pending
        /\ e.waiting => f.waiting
        /\ x \in stopped \/ done => Promised(o, f, x)
  BY DEF IsStop
<1>3. DrainsGoOn(calls, c, d, f, o, x) BY SameDrainsGoOn
<1>4. ThreadsMove(o, calls, x) BY DEF ThreadsMove
<1>5. stops \subseteq stopped \cup {x} /\ (x \in stops => Promised(o, f, x)) BY <1>2
<1> QED BY <1>1, <1>2, <1>3, <1>4, <1>5, SetStep

LEMMA HandlerStopsKeeps ==
  ASSUME CallsOK, Sound(K, call, stopped), NEW c \in Cpu, NEW d \in Entity, HandlerStops(c, d)
  PROVE  Sound(K', call', stopped') /\ Quiet(K', K)
<1> DEFINE a == At(K, c, d)
           x == a.x
<1>1. a.pc = "run" /\ call' = call /\ stopped' = stopped /\ K' = Stop(x, FALSE).K BY DEF HandlerStops, At
<1>2. Steady(a, d) /\ a \in cc_exec BY SoundParts
<1>3. x \in Callout /\ a.curr = x BY <1>1, <1>2, CalloutWheelAssumption DEF Steady
<1>4. Running(K, x) /\ Moved(K, call, x) BY <1>3, SoundParts
<1>5. K.co[x].cpu = c BY <1>3, <1>4, RunsOnce
<1>6. IsStop(K', Stop(x, FALSE).done, x, c) BY <1>1, <1>3, <1>5, StopIs
<1>7. CallsAbout(call, call, x) /\ SameDrains(call, call, x) BY SameCallsAbout, SameCallsSameDrains
<1>8. \A p \in Task : ~ThreadMoves(call[p], x) BY <1>4, <1>5, CalloutWheelAssumption DEF Moved
<1> QED BY <1>1, <1>3, <1>5, <1>6, <1>7, <1>8, StopKeeps

LEMMA StopCallKeeps ==
  ASSUME CallsOK, Sound(K, call, stopped), NEW p \in Task, StopCall(p)
  PROVE  Sound(K', call', stopped') /\ Quiet(K', K)
<1> DEFINE x == call[p].x
           c == K.co[x].cpu
           S == Stop(x, call[p].op = "async")
<1>1. /\ call[p].op \in {"stop", "async"} /\ callout_lock(x) /\ K' = S.K /\ Return(p)
      /\ stopped' = IF S.done THEN stopped \cup {x} ELSE stopped
  BY DEF StopCall
<1>2. x \in Callout BY <1>1, CallFields
<1>3. c \in Cpu /\ \A q \in Task : ~ThreadMoves(call[q], x) BY <1>1, <1>2, LockFacts
<1>4. IsStop(S.K, S.done, x, c) BY <1>2, <1>3, StopIs
<1> HIDE DEF S
<1>5. CallsAbout(call', call, x) /\ SameDrains(call', call, x) /\ \A q \in Task : ~ThreadMoves(call'[q], x)
  BY <1>1, <1>3, ReturnFacts
<1>6. stopped' \in {stopped, stopped \cup {x}} /\ (stopped' = stopped \/ S.done) BY <1>1
<1> QED BY <1>1, <1>2, <1>3, <1>4, <1>5, <1>6, StopKeeps

(***************************************************************************)
(* callout_drain.                                                           *)
(***************************************************************************)
LEMMA ThenExec ==
  ASSUME NEW V, NEW W, NEW c \in Cpu, NEW d \in Entity, NEW f, NEW x \in Callout, NEW o,
         IsUpdate(V, W, c, d, f, x, o), NEW g \in cc_exec,
         NEW U, U = WithExec(V, c, d, g), Only(f, x), Only(g, x), f.pc = g.pc
  PROVE  IsUpdate(U, W, c, d, g, x, o)
<1>1. V \in Kernel /\ (\A c1 \in Cpu : Tidy(V, c1)) /\ At(V, c, d) = f /\ V.co[x] = o BY DEF IsUpdate, Sets
<1>2. o \in callout BY <1>1, KernelFields
<1>3. IsPut(U, V, c, d, g, x, o) BY <1>1, PutEntity DEF WithExec
<1>4. IsUpdate(U, V, c, d, g, x, o)
  <2>1. d = 1 /\ g.pc # "idle" => At(V, c, 1).pc # "idle" BY <1>1
  <2> QED BY <1>1, <1>2, <1>3, <2>1, PutUpdate
<1> QED BY <1>4, UpdateTransitive

\* Thread p alone goes on, with its call to drain x.
DrainsOn(p, x, k) ==
  /\ call'[p] = k /\ \A q \in Task \ {p} : call'[q] = call[q]
  /\ k.op = "drain" /\ k.x = x /\ k.pc # "switch"

LEMMA DrainsOnFacts ==
  ASSUME CallsOK, NEW p \in Task, NEW x \in Callout, NEW k, DrainsOn(p, x, k)
  PROVE  /\ CallsAbout(call', call, x) /\ call'[p] # NoCall
         /\ \A y : \A q \in Task : ThreadMoves(call'[q], y) => ThreadMoves(call[q], y)
         /\ \A c, d, f, o :
              \/ k.pc \notin {"add", "sleep", "woken"}
              \/ k.pc = "add" /\ k.ch = <<c, d>> /\ o.cpu = c /\ WakeupToCome(f, x)
              => DrainsGoOn(call', c, d, f, o, x)
<1>1. CallsAbout(call, call, x) BY SameCallsAbout
<1>2. CallsAbout(call', call, x) BY <1>1 DEF CallsAbout, DrainsOn
<1>3. call'[p] # NoCall BY NoCallIsIdle DEF DrainsOn
<1>4. \A y : \A q \in Task : ThreadMoves(call'[q], y) => ThreadMoves(call[q], y) BY DEF DrainsOn, ThreadMoves
<1>5. ASSUME NEW c, NEW d, NEW f, NEW o,
             \/ k.pc \notin {"add", "sleep", "woken"}
             \/ k.pc = "add" /\ k.ch = <<c, d>> /\ o.cpu = c /\ WakeupToCome(f, x)
      PROVE  DrainsGoOn(call', c, d, f, o, x)
  BY <1>5 DEF DrainsOn, DrainsGoOn
<1> QED BY <1>2, <1>3, <1>4, <1>5

\* The thread looks again, or is about to lock the sleep queue.
LEMMA DrainLooks ==
  ASSUME CallsOK, Sound(K, call, stopped), NEW x \in Callout, NEW c \in Cpu, K.co[x].cpu = c,
         NEW p \in Task, DrainsOn(p, x, call'[p]), call'[p].pc \in {"again", "sqlock"},
         \A q \in Task : ~ThreadMoves(call[q], x)
  PROVE  Sound(Dropped(x), call', stopped) /\ Quiet(Dropped(x), K)
<1> DEFINE d == dir(x)
           e == exec(c, x)
           k == K.co[x]
           S == Dropped(x)
           s == S.co[x]
<1>1. /\ d \in Entity /\ e = At(K, c, d) /\ Steady(e, d)
      /\ k.dfr => e.curr = x
      /\ e.curr = x => Current(k, e, x)
      /\ x \in stopped => Promised(k, e, x)
  BY AboutFacts
<1>2. /\ ~k.dfr => S = K
      /\ IsUpdate(S, K, c, d, e, x, s) /\ Linked(S, x)
      /\ s.cpu = c /\ s.dfr = k.dfr /\ (s.dfr => ~s.pending)
  BY DroppedFacts
<1> HIDE DEF S
<1>3. e.curr = x => s.cpu = c /\ Current(s, e, x) BY <1>1, <1>2 DEF Current
<1>4. x \in stopped => Promised(s, e, x) BY <1>1, <1>2 DEF Promised
<1>5. CallsAbout(call', call, x) /\ DrainsGoOn(call', c, d, e, s, x) BY DrainsOnFacts
<1>6. ThreadsMove(s, call', x) BY DrainsOnFacts DEF ThreadsMove
<1>7. s.dfr => e.curr = x /\ (s.pending => s.active) BY <1>1, <1>2
<1>8. Sound(S, call', stopped) /\ Quiet(S, K)
  BY <1>1, <1>2, <1>3, <1>4, <1>5, <1>6, <1>7, SetStep
<1> QED BY <1>8 DEF S

\* With the sleep queue locked, it asks to be woken.
Waits(e) == [e EXCEPT !.waiting = TRUE]

LEMMA DrainWaits ==
  ASSUME CallsOK, Sound(K, call, stopped), NEW x \in Callout, NEW c \in Cpu, K.co[x].cpu = c,
         exec(c, x).curr = x, NEW p \in Task, DrainsOn(p, x, call'[p]),
         call'[p].pc = "add", call'[p].ch = <<c, dir(x)>>,
         \A q \in Task : ~ThreadMoves(call[q], x),
         NEW U, U = WithExec(Dropped(x), c, dir(x), Waits(exec(c, x)))
  PROVE  Sound(U, call', stopped) /\ Quiet(U, K)
<1> DEFINE d == dir(x)
           e == exec(c, x)
           f == Waits(e)
           k == K.co[x]
           S == Dropped(x)
           s == S.co[x]
<1>1. /\ d \in Entity /\ e = At(K, c, d) /\ Steady(e, d) /\ e \in cc_exec
      /\ Only(e, x) /\ e.x = x /\ Current(k, e, x) /\ e.pc \in {"lock", "run", "finish"}
      /\ x \in stopped => Promised(k, e, x)
  BY AboutFacts
<1>2. /\ ~k.dfr => S = K
      /\ IsUpdate(S, K, c, d, e, x, s) /\ Linked(S, x) /\ s \in callout
      /\ s.cpu = c /\ s.dfr = k.dfr /\ (s.dfr => ~s.pending)
  BY DroppedFacts
<1>3. /\ f \in cc_exec /\ f.curr = e.curr /\ f.x = e.x /\ f.pc = e.pc /\ f.waiting
      /\ f.drain = e.drain /\ f.cancel = e.cancel /\ f.migration = e.migration
  BY <1>1 DEF cc_exec, Waits
<1> HIDE DEF S, f
<1>4. U = WithExec(S, c, d, f) BY DEF S, f
<1>5. Steady(f, d) BY <1>1, <1>3, CalloutWheelAssumption DEF Steady
<1>6. Only(f, x) BY <1>1, <1>3, <1>5, SteadyOnly
<1>7. IsUpdate(U, K, c, d, f, x, s) BY <1>1, <1>2, <1>3, <1>4, <1>6, ThenExec
<1>8. Linked(U, x)
  <2>1. S \in Kernel BY <1>2 DEF IsUpdate
  <2>2. IsPut(U, S, c, d, f, x, s) BY <1>1, <1>3, <1>4, <2>1, PutEntity DEF WithExec
  <2> QED BY <1>2, <2>2, LinkedAfter
<1>9. WakeupToCome(f, x) BY <1>1, <1>3 DEF WakeupToCome
<1>10. CallsAbout(call', call, x) /\ DrainsGoOn(call', c, d, f, s, x)
  BY <1>2, <1>9, DrainsOnFacts
<1>11. ThreadsMove(s, call', x) BY DrainsOnFacts DEF ThreadsMove
<1>12. f.curr = x => s.cpu = c /\ Current(s, f, x) BY <1>1, <1>2, <1>3 DEF Current
<1>13. s.dfr => f.curr = x /\ (s.pending => s.active) BY <1>1, <1>2, <1>3
<1>14. x \in stopped => Promised(s, f, x) BY <1>1, <1>2, <1>3 DEF Promised, Cancels
<1> QED BY <1>1, <1>2, <1>3, <1>5, <1>7, <1>8, <1>10, <1>11, <1>12, <1>13, <1>14, SetStep

\* The callout does not run: it is cancelled, and gone.
LEMMA DrainCancels ==
  ASSUME CallsOK, Sound(K, call, stopped), NEW x \in Callout, NEW c \in Cpu, K.co[x].cpu = c,
         exec(c, x).curr # x, NEW p \in Task, Return(p), \A q \in Task : ~ThreadMoves(call[q], x),
         NEW V, NEW o, IsUpdate(V, K, c, dir(x), exec(c, x), x, o), o.cpu = c, ~o.dfr, Listed(V, x),
         NEW U, U = Cancelled(V, c, x)
  PROVE  Sound(U, call', stopped) /\ Quiet(U, K) /\ Vanished(U, x)
<1> DEFINE d == dir(x)
           e == exec(c, x)
           u == U.co[x]
<1>1. d \in Entity /\ e = At(K, c, d) /\ Steady(e, d) BY AboutFacts
<1>2. IsUpdate(U, K, c, d, e, x, u) /\ Linked(U, x) /\ u.cpu = c /\ ~u.dfr /\ ~u.pending
  BY <1>1, ThenCancelled
<1>3. CallsAbout(call', call, x) /\ SameDrains(call', call, x) /\ ThreadsMove(u, call', x)
  BY ReturnFacts DEF ThreadsMove
<1>4. DrainsGoOn(call', c, d, e, u, x) BY <1>3, SameDrainsGoOn
<1>5. Promised(u, e, x) BY <1>2, CalloutWheelAssumption DEF Promised
<1>6. Sound(U, call', stopped) /\ Quiet(U, K)
  BY <1>1, <1>2, <1>3, <1>4, <1>5, SetStep
<1>7. Vanished(U, x)
  <2>1. Running(U, x) BY <1>6, SoundParts
  <2>2. At(U, c, d) = e BY <1>1, <1>2 DEF IsUpdate, Sets
  <2>3. ASSUME NEW c1 \in Cpu, NEW d1 \in Entity PROVE At(U, c1, d1).curr # x
    BY <1>2, <2>1, <2>2 DEF Running
  <2> QED BY <1>2, <2>3 DEF Vanished
<1> QED BY <1>6, <1>7

LEMMA DrainKeeps ==
  ASSUME CallsOK, Sound(K, call, stopped), NEW p \in Task, Drain(p)
  PROVE  /\ Sound(K', call', stopped') /\ Quiet(K', K)
         /\ call'[p] = NoCall => Vanished(K', call[p].x)
<1>1. PICK x, c : x = call[p].x /\ c = K.co[x].cpu OBVIOUS
<1>2. call[p].op = "drain" /\ call[p].pc = "again" /\ callout_lock(x) /\ stopped' = stopped BY <1>1 DEF Drain
<1>3. x \in Callout /\ call[p] \in Call /\ call \in [Task -> Call] BY <1>1, <1>2, CallFields DEF CallsOK
<1>4. c \in Cpu /\ \A q \in Task : ~ThreadMoves(call[q], x) BY <1>1, <1>2, <1>3, LockFacts
<1>5. DrainLook(p) <=> exec(c, x).curr = x BY <1>1 DEF DrainLook
<1> DEFINE ch == <<c, dir(x)>>
           S == Dropped(x)
           e == exec(c, x)
<1>6. \/ /\ K' = S /\ call' = [call EXCEPT ![p].sq = FALSE, ![p].ch = None]
      \/ /\ K' = S /\ call' = [call EXCEPT ![p].pc = "sqlock", ![p].ch = ch]
      \/ /\ call[p].ch = ch /\ e.curr = x /\ call' = [call EXCEPT ![p].pc = "add"]
         /\ K' = [S EXCEPT !.cc[c].exec[dir(x)] = [@ EXCEPT !.waiting = TRUE]]
      \/ /\ e.curr # x /\ K' = Cancelled(S, c, x) /\ Return(p)
  BY <1>1, <1>5 DEF Drain, Dropped
<1> HIDE DEF S, e, ch
<1>7. ASSUME K' = S, DrainsOn(p, x, call'[p]), call'[p].pc \in {"again", "sqlock"}
      PROVE  Sound(K', call', stopped') /\ Quiet(K', K) /\ call'[p] # NoCall
  <2>1. call'[p] # NoCall BY <1>3, <1>7, DrainsOnFacts
  <2>2. Sound(S, call', stopped) /\ Quiet(S, K) BY <1>1, <1>3, <1>4, <1>7, DrainLooks DEF S
  <2> QED BY <1>2, <1>7, <2>1, <2>2
<1>8. CASE K' = S /\ call' = [call EXCEPT ![p].sq = FALSE, ![p].ch = None]
  <2>1. DrainsOn(p, x, call'[p]) /\ call'[p].pc \in {"again", "sqlock"}
    BY <1>1, <1>2, <1>3, <1>8 DEF DrainsOn, Call
  <2> QED BY <1>7, <1>8, <2>1
<1>9. CASE K' = S /\ call' = [call EXCEPT ![p].pc = "sqlock", ![p].ch = ch]
  <2>1. DrainsOn(p, x, call'[p]) /\ call'[p].pc \in {"again", "sqlock"}
    BY <1>1, <1>2, <1>3, <1>9 DEF DrainsOn, Call
  <2> QED BY <1>7, <1>9, <2>1
<1>10. CASE /\ call[p].ch = ch /\ e.curr = x /\ call' = [call EXCEPT ![p].pc = "add"]
            /\ K' = [S EXCEPT !.cc[c].exec[dir(x)] = [@ EXCEPT !.waiting = TRUE]]
  <2>1. DrainsOn(p, x, call'[p]) /\ call'[p].pc = "add" /\ call'[p].ch = ch
    BY <1>1, <1>2, <1>3, <1>10 DEF DrainsOn, Call
  <2>2. K' = WithExec(S, c, dir(x), Waits(e))
    <3>1. IsUpdate(S, K, c, dir(x), e, x, S.co[x]) /\ dir(x) \in Entity
      BY <1>1, <1>3, <1>4, DroppedFacts, DirIsEntity DEF S, e
    <3>2. S \in Kernel /\ At(S, c, dir(x)) = e BY <1>4, <3>1 DEF IsUpdate, Sets
    <3>3. S.cc[c] \in callout_cpu BY <1>4, <3>2, KernelFields
    <3>4. K' = [S EXCEPT !.cc[c].exec[dir(x)] = [S.cc[c].exec[dir(x)] EXCEPT !.waiting = TRUE]]
      BY <1>4, <1>10, <3>1, <3>2, <3>3 DEF Kernel, callout_cpu
    <3> QED BY <3>2, <3>4 DEF WithExec, At, Waits
  <2>3. Sound(K', call', stopped) /\ Quiet(K', K)
    BY <1>1, <1>3, <1>4, <1>10, <2>1, <2>2, DrainWaits DEF S, e, ch
  <2>4. call'[p] # NoCall BY <1>3, <2>1, DrainsOnFacts
  <2> QED BY <1>2, <2>3, <2>4
<1>11. CASE e.curr # x /\ K' = Cancelled(S, c, x) /\ Return(p)
  <2>1. /\ IsUpdate(S, K, c, dir(x), e, x, S.co[x]) /\ Linked(S, x)
        /\ S.co[x].cpu = c /\ S.co[x].dfr = K.co[x].dfr
    BY <1>1, <1>3, <1>4, DroppedFacts DEF S, e
  <2>2. ~K.co[x].dfr BY <1>1, <1>3, <1>4, <1>11, AboutFacts DEF e
  <2>3. Sound(K', call', stopped) /\ Quiet(K', K) /\ Vanished(K', x)
    BY <1>1, <1>3, <1>4, <1>11, <2>1, <2>2, DrainCancels DEF Linked, e
  <2> QED BY <1>1, <1>2, <2>3
<1> QED BY <1>6, <1>8, <1>9, <1>10, <1>11
\* The thread is woken, and looks on the CPU it knew.
LEMMA WokenKeeps ==
  ASSUME CallsOK, Sound(K, call, stopped), NEW p \in Task, Woken(p)
  PROVE  /\ Sound(K', call', stopped') /\ Quiet(K', K)
         /\ call'[p] = NoCall => Vanished(K', call[p].x)
<1>1. PICK x, c : x = call[p].x /\ c = call[p].ch[1] OBVIOUS
<1>2. call[p].pc = "woken" /\ stopped' = stopped BY <1>1 DEF Woken
<1>3. call[p].op = "drain" BY <1>2 DEF CallsOK, Legal
<1>4. x \in Callout /\ call[p] \in Call /\ call \in [Task -> Call] BY <1>1, <1>3, CallFields DEF CallsOK
<1>5. Drains(K, call[p]) /\ Moved(K, call, x) BY <1>4, SoundParts DEF Sound
<1>6. c \in Cpu /\ K.co[x].cpu = c /\ ~K.co[x].dfr BY <1>1, <1>2, <1>3, <1>5 DEF Drains
<1>7. \A q \in Task : ~ThreadMoves(call[q], x) BY <1>5, <1>6, CalloutWheelAssumption DEF Moved
<1>8. \/ exec(c, x).curr = x /\ call' = [call EXCEPT ![p].pc = "sqlock"] /\ K' = K
      \/ /\ exec(c, x).curr # x /\ Return(p)
         /\ K' = Cancelled([K EXCEPT !.co[x] = [@ EXCEPT !.active = FALSE]], c, x)
  BY <1>1 DEF Woken
<1>9. CASE exec(c, x).curr = x /\ call' = [call EXCEPT ![p].pc = "sqlock"] /\ K' = K
  <2>1. DrainsOn(p, x, call'[p]) /\ call'[p].pc \in {"again", "sqlock"}
    BY <1>1, <1>3, <1>4, <1>9 DEF DrainsOn, Call
  <2>2. Dropped(x) = K BY <1>4, <1>6, DroppedFacts
  <2>3. Sound(K', call', stopped) /\ Quiet(K', K) BY <1>4, <1>6, <1>7, <1>9, <2>1, <2>2, DrainLooks
  <2>4. call'[p] # NoCall BY <1>4, <2>1, DrainsOnFacts
  <2> QED BY <1>2, <2>3, <2>4
<1>10. CASE /\ exec(c, x).curr # x /\ Return(p)
            /\ K' = Cancelled([K EXCEPT !.co[x] = [@ EXCEPT !.active = FALSE]], c, x)
  <2> DEFINE k == K.co[x]
             o == [k EXCEPT !.active = FALSE]
             V == [K EXCEPT !.co[x] = o]
  <2>1. K \in Kernel /\ k \in callout /\ dir(x) \in Entity /\ Linked(K, x)
        /\ IsUpdate(K, K, c, dir(x), exec(c, x), x, k)
    BY <1>4, <1>6, AboutFacts
  <2>2. K' = Cancelled(V, c, x)
    <3>1. [K EXCEPT !.co[x] = [@ EXCEPT !.active = FALSE]] = V BY <1>4, <2>1 DEF Kernel
    <3> HIDE DEF V
    <3> QED BY <1>10, <3>1
  <2>3. /\ o \in callout /\ o.cpu = c /\ ~o.dfr /\ o.pending = k.pending /\ o.processed = k.processed
        /\ o.time = k.time
    BY <1>6, <2>1 DEF callout
  <2> HIDE DEF o
  <2>4. IsUpdate(V, K, c, dir(x), exec(c, x), x, o) /\ SameLists(V, K)
    BY <1>4, <1>6, <2>1, <2>3, ThenCallout
  <2> HIDE DEF V
  <2>5. Listed(V, x)
    <3>1. V.co[x] = o BY <2>4 DEF IsUpdate, Sets
    <3>2. Queued(o) <=> Queued(k) BY <1>6, <2>3 DEF Queued
    <3> QED BY <1>6, <2>1, <2>3, <2>4, <3>1, <3>2, SameListsAre DEF Linked, Listed
  <2>6. Sound(K', call', stopped) /\ Quiet(K', K) /\ Vanished(K', x)
    BY <1>4, <1>6, <1>7, <1>10, <2>2, <2>3, <2>4, <2>5, DrainCancels
  <2> QED BY <1>1, <1>2, <2>6
<1> QED BY <1>8, <1>9, <1>10

(***************************************************************************)
(* Steps that change no more than the call of a thread.                       *)
(***************************************************************************)
LEMMA CallStep ==
  ASSUME Sound(K, call, stopped), NEW calls, \A p \in Task : Drains(K, calls[p]),
         \A p \in Task, x \in Callout : ThreadMoves(calls[p], x) => ThreadMoves(call[p], x)
  PROVE  Sound(K, calls, stopped)
<1>1. ASSUME NEW x \in Callout PROVE Fine(K, calls, stopped, x)
  <2>1. Fine(K, call, stopped, x) BY DEF Sound
  <2>2. Moved(K, calls, x) BY <2>1 DEF Fine, Moved
  <2> QED BY <2>1, <2>2 DEF Fine
<1> QED BY <1>1 DEF Sound

\* Thread p alone goes on, with call k.
LEMMA OneCallStep ==
  ASSUME Sound(K, call, stopped), NEW p \in Task, NEW calls, \A q \in Task \ {p} : calls[q] = call[q],
         Drains(K, calls[p]), calls[p].pc # "switch"
  PROVE  Sound(K, calls, stopped)
<1>1. \A q \in Task : Drains(K, calls[q])
  <2>1. \A q \in Task : Drains(K, call[q]) BY DEF Sound
  <2> QED BY <2>1
<1>2. \A q \in Task, x \in Callout : ThreadMoves(calls[q], x) => ThreadMoves(call[q], x) BY DEF ThreadMoves
<1> QED BY <1>1, <1>2, CallStep

LEMMA LockSleepqKeeps ==
  ASSUME CallsOK, Sound(K, call, stopped), NEW p \in Task, LockSleepq(p)
  PROVE  Sound(K', call', stopped')
<1>1. call' = [call EXCEPT ![p].pc = "again", ![p].sq = TRUE] /\ K' = K /\ stopped' = stopped BY DEF LockSleepq
<1>2. call \in [Task -> Call] BY DEF CallsOK
<1>3. call'[p].pc = "again" /\ \A q \in Task \ {p} : call'[q] = call[q] BY <1>1, <1>2 DEF Call
<1>4. Drains(K, call'[p]) BY <1>3 DEF Drains
<1>5. Sound(K, call', stopped) BY <1>3, <1>4, OneCallStep
<1> QED BY <1>1, <1>5

LEMMA SleepKeeps ==
  ASSUME CallsOK, Sound(K, call, stopped), NEW p \in Task, Sleep(p)
  PROVE  Sound(K', call', stopped')
<1>1. /\ call' = [call EXCEPT ![p].pc = "sleep", ![p].sq = FALSE] /\ K' = K /\ stopped' = stopped
      /\ call[p].pc = "add"
  BY DEF Sleep
<1>2. call \in [Task -> Call] BY DEF CallsOK
<1>3. /\ call'[p].pc = "sleep" /\ call'[p].op = call[p].op /\ call'[p].x = call[p].x /\ call'[p].ch = call[p].ch
      /\ \A q \in Task \ {p} : call'[q] = call[q]
  BY <1>1, <1>2 DEF Call
<1>4. Drains(K, call[p]) BY DEF Sound
<1>5. Drains(K, call'[p]) BY <1>1, <1>3, <1>4 DEF Drains
<1>6. Sound(K, call', stopped) BY <1>3, <1>5, OneCallStep
<1> QED BY <1>1, <1>6

\* The call that thread p makes.
Made(op, x, when, cpu) ==
  [NoCall EXCEPT !.op = op, !.x = x, !.pc = "again", !.when = when, !.cpu = cpu]

LEMMA BeginFacts ==
  ASSUME CallsOK, scenario \in Scenarios, now \in Nat, NEW p \in Task, NEW x \in scenario.callouts,
         NEW op \in {"reset", "stop", "drain", "async"}, Begin(p, op, x)
  PROVE  \E when \in [time : Nat, prec : Int], cpu \in Cpu \cup {None} :
           /\ call' = [call EXCEPT ![p] = Made(op, x, when, cpu)]
           /\ op = "reset" => cpu \in Cpu
<1>1. scenario.cpus \subseteq Cpu /\ scenario.delays \subseteq Nat BY ScenariosAssumption
<1>2. PICK t \in IF op = "reset" THEN scenario.delays ELSE {0},
           cpu \in IF op = "reset" THEN scenario.cpus ELSE {None} :
        call' = [call EXCEPT ![p] = Made(op, x, callout_when(now, t, 0), cpu)]
  BY DEF Begin, Made
<1>3. t \in Nat BY <1>1, <1>2
<1>4. callout_when(now, t, 0) \in [time : Nat, prec : Int] BY <1>3, WhenFacts
<1>5. cpu \in Cpu \cup {None} /\ (op = "reset" => cpu \in Cpu) BY <1>1, <1>2
<1> QED BY <1>2, <1>4, <1>5

LEMMA BeginKeeps ==
  ASSUME CallsOK, Sound(K, call, stopped), scenario \in Scenarios, now \in Nat,
         NEW p \in Task, NEW x \in scenario.callouts,
         NEW op \in {"reset", "stop", "drain", "async"}, Begin(p, op, x)
  PROVE  Sound(K', call', stopped')
<1>1. K' = K /\ stopped' = stopped BY DEF Begin
<1>2. PICK when, cpu : call' = [call EXCEPT ![p] = Made(op, x, when, cpu)] BY BeginFacts
<1>3. call \in [Task -> Call] BY DEF CallsOK
<1>4. call'[p].pc = "again" /\ \A q \in Task \ {p} : call'[q] = call[q] BY <1>2, <1>3 DEF Made, NoCall
<1>5. Drains(K, call'[p]) BY <1>4 DEF Drains
<1>6. Sound(K, call', stopped) BY <1>4, <1>5, OneCallStep
<1> QED BY <1>1, <1>6

(***************************************************************************)
(* What every step does to the calls.                                        *)
(***************************************************************************)
\* A call that callout_drain makes returns when the callout is gone.
DrainsReturn ==
  \A p \in Task : call[p].op = "drain" /\ call'[p] = NoCall => Vanished(K', call[p].x)

CallsKept == CallsOK' /\ Apart(call')

LEMMA NoCallIsLegal == NoCall \in Call /\ \A ops : Legal(NoCall, ops)
BY DEF NoCall, Call, Legal

LEMMA SameCalls ==
  ASSUME CallsOK, Apart(call), UNCHANGED <<scenario, call>>
  PROVE  CallsKept /\ DrainsReturn
<1>1. CallsOK' BY DEF CallsOK
<1>2. Apart(call') OBVIOUS
<1>3. DrainsReturn BY NoCallIsIdle DEF DrainsReturn
<1> QED BY <1>1, <1>2, <1>3 DEF CallsKept

\* The call of thread p goes on, or returns.
LEMMA OneCallChanges ==
  ASSUME CallsOK, Apart(call), scenario' = scenario, NEW p \in Task, NEW k \in Call,
         call' = [call EXCEPT ![p] = k], Legal(k, scenario.ops[p]),
         k = NoCall \/ (k.op = call[p].op /\ k.x = call[p].x)
  PROVE  /\ CallsKept
         /\ (call[p].op = "drain" /\ k = NoCall => Vanished(K', call[p].x)) => DrainsReturn
<1>1. call' \in [Task -> Call] /\ call'[p] = k /\ \A q \in Task \ {p} : call'[q] = call[q] BY DEF CallsOK
<1>2. CallsOK' BY <1>1 DEF CallsOK
<1>3. ASSUME NEW q \in Task PROVE call'[q] = NoCall \/ (call'[q].op = call[q].op /\ call'[q].x = call[q].x)
  BY <1>1
<1>4. Apart(call') BY <1>3, NoCallIsIdle DEF Apart
<1>5. (call[p].op = "drain" /\ k = NoCall => Vanished(K', call[p].x)) => DrainsReturn
  BY <1>1, NoCallIsIdle DEF DrainsReturn
<1> QED BY <1>2, <1>4, <1>5 DEF CallsKept

LEMMA ReturnKeepsCalls ==
  ASSUME CallsOK, Apart(call), scenario' = scenario, NEW p \in Task, Return(p),
         call[p].op = "drain" => Vanished(K', call[p].x)
  PROVE  CallsKept /\ DrainsReturn
<1>1. call' = [call EXCEPT ![p] = NoCall] BY DEF Return
<1> QED BY <1>1, NoCallIsLegal, OneCallChanges

\* The call goes on: k is what it was but for pc, ch and sq.
LEMMA GoesOnWithCall ==
  ASSUME CallsOK, Apart(call), scenario' = scenario, NEW p \in Task, call[p].op # "none",
         NEW k \in Call, call' = [call EXCEPT ![p] = k],
         k.op = call[p].op, k.x = call[p].x, k.when = call[p].when, k.cpu = call[p].cpu,
         k.pc \in {"sqlock", "add", "sleep", "woken"} => k.op = "drain",
         k.pc = "switch" => k.op = "reset", k.pc = "add" => k.sq
  PROVE  CallsKept /\ DrainsReturn
<1>1. Legal(k, scenario.ops[p]) BY NoCallIsIdle DEF CallsOK, Legal
<1>2. k # NoCall BY NoCallIsIdle
<1> QED BY <1>1, <1>2, OneCallChanges

LEMMA WakeupCalls ==
  ASSUME CallsOK, Apart(call), NEW c \in Cpu, NEW d \in Entity, Wakeup(c, d)
  PROVE  CallsKept /\ DrainsReturn
<1> DEFINE k(p) == [call[p] EXCEPT !.pc = "woken"]
           wakes(p) == call[p].pc = "sleep" /\ call[p].ch = <<c, d>>
<1>1. call' = [p \in Task |-> IF wakes(p) THEN k(p) ELSE call[p]] /\ scenario' = scenario BY DEF Wakeup
<1>2. ASSUME NEW p \in Task
      PROVE  /\ k(p) \in Call /\ k(p).op = call[p].op /\ k(p).x = call[p].x /\ k(p).when = call[p].when
             /\ k(p).cpu = call[p].cpu /\ k(p).pc = "woken" /\ k(p).ch = call[p].ch /\ k(p).sq = call[p].sq
  BY DEF CallsOK, Call
<1> HIDE DEF k
<1>3. ASSUME NEW p \in Task
      PROVE  /\ call'[p] \in Call /\ Legal(call'[p], scenario.ops[p])
             /\ call'[p].op = call[p].op /\ call'[p].x = call[p].x
  <2>1. CASE ~wakes(p) BY <1>1, <2>1 DEF CallsOK
  <2>2. CASE wakes(p)
    <3>1. call'[p] = k(p) /\ call[p].pc = "sleep" BY <1>1, <2>2
    <3>2. Legal(call[p], scenario.ops[p]) BY DEF CallsOK
    <3>3. call[p].op = "drain" /\ call[p] # NoCall BY <3>1, <3>2, NoCallIsIdle DEF Legal
    <3>4. Legal(k(p), scenario.ops[p]) BY <1>2, <3>2, <3>3 DEF Legal
    <3> QED BY <1>2, <3>1, <3>4
  <2> QED BY <2>1, <2>2
<1>4. call' \in [Task -> Call] BY <1>1, <1>3
<1>5. CallsOK' BY <1>1, <1>3, <1>4 DEF CallsOK
<1>6. Apart(call') BY <1>3 DEF Apart
<1>7. DrainsReturn BY <1>3, NoCallIsIdle DEF DrainsReturn
<1> QED BY <1>5, <1>6, <1>7 DEF CallsKept

LEMMA BeginCalls ==
  ASSUME CallsOK, Apart(call), scenario \in Scenarios, now \in Nat, NEW p \in Task,
         NEW x \in scenario.callouts, NEW op \in {"reset", "stop", "drain", "async"}, Begin(p, op, x)
  PROVE  CallsKept /\ DrainsReturn
<1>1. PICK when \in [time : Nat, prec : Int], cpu \in Cpu \cup {None} :
        call' = [call EXCEPT ![p] = Made(op, x, when, cpu)] /\ (op = "reset" => cpu \in Cpu)
  BY BeginFacts
<1> DEFINE k == Made(op, x, when, cpu)
<1>2. x \in Callout BY ScenariosAssumption
<1>3. /\ k \in Call /\ k.op = op /\ k.x = x /\ k.when = when /\ k.cpu = cpu /\ k.pc = "again"
  BY <1>2 DEF Made, NoCall, Call
<1> HIDE DEF k
<1>4. /\ call[p] = NoCall /\ op \in scenario.ops[p] /\ scenario' = scenario
      /\ op = "reset" => ~Draining(x)
      /\ op = "drain" => \A q \in Task : ~(call[q].x = x /\ call[q].op = "reset")
  BY DEF Begin
<1>5. call' \in [Task -> Call] /\ call'[p] = k /\ \A q \in Task \ {p} : call'[q] = call[q]
  BY <1>1, <1>3 DEF CallsOK, k
<1>6. Legal(k, scenario.ops[p]) BY <1>1, <1>2, <1>3, <1>4 DEF Legal
<1>7. CallsOK' BY <1>4, <1>5, <1>6 DEF CallsOK
<1>8. Apart(call')
  <2>1. ASSUME NEW q \in Task, NEW r \in Task, call'[q].op = "drain", call'[r].op = "reset"
        PROVE  call'[q].x # call'[r].x
    <3>1. CASE q = p
      <4>1. op = "drain" /\ r # p BY <1>3, <1>5, <2>1, <3>1
      <4> QED BY <1>3, <1>4, <1>5, <2>1, <3>1, <4>1
    <3>2. CASE r = p
      <4>1. op = "reset" /\ q # p BY <1>3, <1>5, <2>1, <3>2
      <4> QED BY <1>3, <1>4, <1>5, <2>1, <3>2, <4>1 DEF Draining
    <3>3. CASE q # p /\ r # p BY <1>5, <2>1, <3>3 DEF Apart
    <3> QED BY <3>1, <3>2, <3>3
  <2> QED BY <2>1 DEF Apart
<1>9. DrainsReturn BY <1>4, <1>5, NoCallIsIdle DEF DrainsReturn
<1> QED BY <1>7, <1>8, <1>9 DEF CallsKept

LEMMA ResetCalls ==
  ASSUME CallsOK, Apart(call), NEW p \in Task, ResetCall(p)
  PROVE  CallsKept /\ DrainsReturn
<1>1. call[p].op = "reset" /\ scenario' = scenario BY DEF ResetCall
<1>2. call' = [call EXCEPT ![p].pc = "switch"] \/ Return(p) BY DEF ResetCall
<1>3. CASE Return(p) BY <1>1, <1>3, ReturnKeepsCalls
<1>4. CASE call' = [call EXCEPT ![p].pc = "switch"]
  <2> DEFINE k == [call[p] EXCEPT !.pc = "switch"]
  <2>1. call' = [call EXCEPT ![p] = k] BY <1>4 DEF CallsOK
  <2>2. /\ k \in Call /\ k.op = call[p].op /\ k.x = call[p].x /\ k.when = call[p].when /\ k.cpu = call[p].cpu
        /\ k.pc = "switch"
    BY DEF CallsOK, Call
  <2> HIDE DEF k
  <2> QED BY <1>1, <2>1, <2>2, GoesOnWithCall
<1> QED BY <1>2, <1>3, <1>4

LEMMA DrainCalls ==
  ASSUME CallsOK, Apart(call), Sound(K, call, stopped), NEW p \in Task, Drain(p),
         call'[p] = NoCall => Vanished(K', call[p].x)
  PROVE  CallsKept /\ DrainsReturn
<1>1. PICK x, ch : x = call[p].x /\ ch = <<K.co[x].cpu, dir(x)>> OBVIOUS
<1>2. call[p].op = "drain" /\ call[p].pc = "again" /\ callout_lock(x) /\ scenario' = scenario BY <1>1 DEF Drain
<1>3. x \in Callout BY <1>1, <1>2, CallFields
<1>4. ch \in Cpu \X Entity BY <1>1, <1>2, <1>3, LockFacts, DirIsEntity
<1>5. \/ call' = [call EXCEPT ![p].sq = FALSE, ![p].ch = None]
      \/ call' = [call EXCEPT ![p].pc = "sqlock", ![p].ch = ch]
      \/ call[p].sq /\ call' = [call EXCEPT ![p].pc = "add"]
      \/ Return(p)
  BY <1>1 DEF Drain
<1>6. CASE Return(p)
  <2>1. call'[p] = NoCall BY <1>6, ReturnFacts
  <2> QED BY <1>2, <1>6, <2>1, ReturnKeepsCalls
<1>7. CASE call' = [call EXCEPT ![p].sq = FALSE, ![p].ch = None]
  <2> DEFINE k == [call[p] EXCEPT !.sq = FALSE, !.ch = None]
  <2>1. call' = [call EXCEPT ![p] = k] BY <1>7 DEF CallsOK
  <2>2. /\ k \in Call /\ k.op = call[p].op /\ k.x = call[p].x /\ k.when = call[p].when /\ k.cpu = call[p].cpu
        /\ k.pc = call[p].pc
    BY DEF CallsOK, Call
  <2> HIDE DEF k
  <2> QED BY <1>2, <2>1, <2>2, GoesOnWithCall
<1>8. CASE call' = [call EXCEPT ![p].pc = "sqlock", ![p].ch = ch]
  <2> DEFINE k == [call[p] EXCEPT !.pc = "sqlock", !.ch = ch]
  <2>1. call' = [call EXCEPT ![p] = k] BY <1>8 DEF CallsOK
  <2>2. /\ k \in Call /\ k.op = call[p].op /\ k.x = call[p].x /\ k.when = call[p].when /\ k.cpu = call[p].cpu
        /\ k.pc = "sqlock"
    BY <1>4 DEF CallsOK, Call
  <2> HIDE DEF k
  <2> QED BY <1>2, <2>1, <2>2, GoesOnWithCall
<1>9. CASE call[p].sq /\ call' = [call EXCEPT ![p].pc = "add"]
  <2> DEFINE k == [call[p] EXCEPT !.pc = "add"]
  <2>1. call' = [call EXCEPT ![p] = k] BY <1>9 DEF CallsOK
  <2>2. /\ k \in Call /\ k.op = call[p].op /\ k.x = call[p].x /\ k.when = call[p].when /\ k.cpu = call[p].cpu
        /\ k.pc = "add" /\ k.sq = call[p].sq
    BY DEF CallsOK, Call
  <2> HIDE DEF k
  <2>3. k.sq BY <1>9, <2>2
  <2> QED BY <1>2, <2>1, <2>2, <2>3, GoesOnWithCall
<1> QED BY <1>5, <1>6, <1>7, <1>8, <1>9

LEMMA LockSleepqCalls ==
  ASSUME CallsOK, Apart(call), NEW p \in Task, LockSleepq(p)
  PROVE  CallsKept /\ DrainsReturn
<1> DEFINE k == [call[p] EXCEPT !.pc = "again", !.sq = TRUE]
<1>1. call' = [call EXCEPT ![p] = k] /\ call[p].pc = "sqlock" /\ scenario' = scenario BY DEF LockSleepq, CallsOK
<1>2. call[p].op = "drain" BY <1>1 DEF CallsOK, Legal
<1>3. /\ k \in Call /\ k.op = call[p].op /\ k.x = call[p].x /\ k.when = call[p].when /\ k.cpu = call[p].cpu
      /\ k.pc = "again"
  BY DEF CallsOK, Call
<1> HIDE DEF k
<1> QED BY <1>1, <1>2, <1>3, GoesOnWithCall

LEMMA SleepCalls ==
  ASSUME CallsOK, Apart(call), NEW p \in Task, Sleep(p)
  PROVE  CallsKept /\ DrainsReturn
<1> DEFINE k == [call[p] EXCEPT !.pc = "sleep", !.sq = FALSE]
<1>1. call' = [call EXCEPT ![p] = k] /\ call[p].pc = "add" /\ scenario' = scenario BY DEF Sleep, CallsOK
<1>2. call[p].op = "drain" BY <1>1 DEF CallsOK, Legal
<1>3. /\ k \in Call /\ k.op = call[p].op /\ k.x = call[p].x /\ k.when = call[p].when /\ k.cpu = call[p].cpu
      /\ k.pc = "sleep"
  BY DEF CallsOK, Call
<1> HIDE DEF k
<1> QED BY <1>1, <1>2, <1>3, GoesOnWithCall

LEMMA WokenCalls ==
  ASSUME CallsOK, Apart(call), NEW p \in Task, Woken(p), call'[p] = NoCall => Vanished(K', call[p].x)
  PROVE  CallsKept /\ DrainsReturn
<1>1. call[p].pc = "woken" /\ scenario' = scenario BY DEF Woken
<1>2. call[p].op = "drain" BY <1>1 DEF CallsOK, Legal
<1>3. call' = [call EXCEPT ![p].pc = "sqlock"] \/ Return(p) BY DEF Woken
<1>4. CASE Return(p)
  <2>1. call'[p] = NoCall BY <1>4, ReturnFacts
  <2> QED BY <1>1, <1>4, <2>1, ReturnKeepsCalls
<1>5. CASE call' = [call EXCEPT ![p].pc = "sqlock"]
  <2> DEFINE k == [call[p] EXCEPT !.pc = "sqlock"]
  <2>1. call' = [call EXCEPT ![p] = k] BY <1>5 DEF CallsOK
  <2>2. /\ k \in Call /\ k.op = call[p].op /\ k.x = call[p].x /\ k.when = call[p].when /\ k.cpu = call[p].cpu
        /\ k.pc = "sqlock"
    BY DEF CallsOK, Call
  <2> HIDE DEF k
  <2> QED BY <1>1, <1>2, <2>1, <2>2, GoesOnWithCall
<1> QED BY <1>3, <1>4, <1>5

(***************************************************************************)
(* The invariant.                                                           *)
(***************************************************************************)
LEMMA InitSound == Init => CalloutInv
<1> SUFFICES ASSUME Init PROVE CalloutInv OBVIOUS
<1>1. PICK n \in scenario.cpus :
        K = [cc |-> [c \in Cpu |-> callout_cpu_init], co |-> [x \in Callout |-> callout_init(n)]]
  BY DEF Init
<1>2. /\ scenario \in Scenarios /\ now = 0 /\ call = [p \in Task |-> NoCall] /\ stopped = {} BY DEF Init
<1>3. n \in Cpu BY <1>1, <1>2, ScenariosAssumption
<1>4. 0 \in Nat /\ callwheelsize \in Nat \ {0} /\ SBT_MAX \in Nat BY CalloutWheelAssumption
<1>5. /\ callout_cpu_init \in callout_cpu
      /\ callout_cpu_init.expireq = <<>> /\ \A b \in Bucket : callout_cpu_init.wheel[b] = <<>>
      /\ callout_cpu_init.lastscan = 0
      /\ \A d \in Entity : LET e == callout_cpu_init.exec[d]
                           IN  /\ e.curr = None /\ e.pc = "idle" /\ ~e.waiting /\ ~e.drain /\ e.migration = None
  BY <1>4 DEF callout_cpu_init, callout_cpu, cc_exec, Bucket
<1>6. callout_init(n) \in callout /\ ~callout_init(n).pending /\ ~callout_init(n).dfr
  BY <1>3 DEF callout_init, callout
<1>7. K \in Kernel BY <1>1, <1>5, <1>6 DEF Kernel
<1>8. /\ \A c \in Cpu : K.cc[c] = callout_cpu_init
      /\ \A x \in Callout : K.co[x] = callout_init(n)
      /\ \A c \in Cpu, d \in Entity : At(K, c, d) = callout_cpu_init.exec[d]
  BY <1>1 DEF At
<1>9. \A c \in Cpu, d \in Entity :
        /\ At(K, c, d).curr = None /\ At(K, c, d).pc = "idle" /\ ~At(K, c, d).waiting
        /\ ~At(K, c, d).drain /\ At(K, c, d).migration = None
  BY <1>5, <1>8
<1>10. ASSUME NEW c \in Cpu PROVE Tidy(K, c)
  <2>1. IsInjective(<<>>) BY DEF IsInjective
  <2>2. OnceEach(K, c) BY <1>5, <1>8, <2>1 DEF OnceEach
  <2>3. Suspended(K, c) BY <1>9 DEF Suspended, Entity
  <2> QED BY <2>2, <2>3 DEF Tidy
<1>11. \A c \in Cpu, d \in Entity : Steady(At(K, c, d), d) BY <1>9 DEF Steady
<1>12. ASSUME NEW x \in Callout PROVE Fine(K, call, stopped, x)
  <2>1. Unlisted(K, x)
    <3>1. x \notin ToSet(<<>>) BY DEF ToSet
    <3> QED BY <1>5, <1>8, <3>1 DEF Unlisted, OnExpireq, OnWheel
  <2>2. Linked(K, x) BY <1>6, <1>8, <2>1, UnlistedIsLinked DEF Queued
  <2>3. None # x BY CalloutWheelAssumption
  <2>4. Running(K, x) BY <1>6, <1>8, <1>9, <2>3 DEF Running
  <2>5. Moved(K, call, x) BY <1>2, <1>9, NoCallIsIdle DEF Moved, EntityMoves, ThreadMoves
  <2>6. Kept(K, stopped, x) BY <1>2 DEF Kept
  <2> QED BY <2>2, <2>4, <2>5, <2>6 DEF Fine
<1>13. \A p \in Task : Drains(K, call[p]) BY <1>2, NoCallIsIdle DEF Drains
<1>14. Sound(K, call, stopped) BY <1>7, <1>10, <1>11, <1>12, <1>13 DEF Sound
<1>15. call \in [Task -> Call] /\ \A p \in Task : Legal(call[p], scenario.ops[p]) BY <1>2, NoCallIsLegal
<1>16. Apart(call) BY <1>2, NoCallIsIdle DEF Apart
<1>17. \A c \in Cpu : K.cc[c].lastscan <= now BY <1>2, <1>5, <1>8
<1> QED BY <1>2, <1>14, <1>15, <1>16, <1>17 DEF CalloutInv

\* What every step preserves and does.
Preserves ==
  /\ scenario' = scenario
  /\ now' \in {now, now + 1}
  /\ stopped' \subseteq Callout
  /\ CallsKept /\ DrainsReturn
  /\ Sound(K', call', stopped') /\ Allowed(K', K)

LEMMA InvParts ==
  ASSUME CalloutInv
  PROVE  /\ CallsOK /\ Apart(call) /\ Sound(K, call, stopped) /\ scenario \in Scenarios /\ now \in Nat
         /\ stopped \subseteq Callout /\ \A c \in Cpu : K.cc[c].lastscan <= now
BY DEF CalloutInv, CallsOK

\* A step of an entity that touches no call.
LEMMA EntityStep ==
  ASSUME CalloutInv, UNCHANGED <<scenario, now, call>>, stopped' \subseteq stopped,
         Sound(K', call', stopped'), Allowed(K', K)
  PROVE  Preserves
<1>1. CallsKept /\ DrainsReturn BY InvParts, SameCalls
<1>2. stopped' \subseteq Callout BY InvParts
<1> QED BY <1>1, <1>2 DEF Preserves

LEMMA ExecutePreserves ==
  ASSUME CalloutInv, NEW c \in Cpu, NEW d \in Entity, Execute(c, d), HandlersStay
  PROVE  Preserves
<1>1. CallsOK /\ Apart(call) /\ Sound(K, call, stopped) /\ scenario \in Scenarios /\ now \in Nat BY InvParts
<1>2. CASE TakeLock(c, d)
  <2>1. Sound(K', call', stopped') /\ Allowed(K', K) BY <1>1, <1>2, TakeLockKeeps, QuietAllowed
  <2> QED BY <1>2, <2>1, EntityStep DEF TakeLock
<1>3. CASE HandlerResets(c, d)
  <2>1. Sound(K', call', stopped') /\ Allowed(K', K) BY <1>1, <1>3, HandlerResetsKeeps, QuietAllowed
  <2> QED BY <1>3, <2>1, EntityStep DEF HandlerResets
<1>4. CASE HandlerStops(c, d)
  <2>1. Sound(K', call', stopped') /\ Allowed(K', K) BY <1>1, <1>4, HandlerStopsKeeps, QuietAllowed
  <2> QED BY <1>4, <2>1, EntityStep DEF HandlerStops
<1>5. CASE HandlerReturns(c, d)
  <2>1. Sound(K', call', stopped') /\ Allowed(K', K) BY <1>1, <1>5, HandlerReturnsKeeps, QuietAllowed
  <2> QED BY <1>5, <2>1, EntityStep DEF HandlerReturns
<1>6. CASE Finish(c, d)
  <2>1. Sound(K', call', stopped') /\ Allowed(K', K) BY <1>1, <1>6, FinishKeeps
  <2> QED BY <1>6, <2>1, EntityStep DEF Finish
<1>7. CASE Drained(c, d)
  <2>1. Sound(K', call', stopped') /\ Allowed(K', K) BY <1>1, <1>7, DrainedKeeps, QuietAllowed
  <2> QED BY <1>7, <2>1, EntityStep DEF Drained
<1>8. CASE Wakeup(c, d)
  <2>1. Sound(K', call', stopped') /\ Allowed(K', K) BY <1>1, <1>8, WakeupKeeps, QuietAllowed
  <2>2. CallsKept /\ DrainsReturn BY <1>1, <1>8, WakeupCalls
  <2>3. stopped' \subseteq Callout BY <1>8, InvParts DEF Wakeup
  <2> QED BY <1>8, <2>1, <2>2, <2>3 DEF Wakeup, Preserves
<1>9. CASE Migrate(c, d)
  <2>1. Sound(K', call', stopped') /\ Allowed(K', K) BY <1>1, <1>9, MigrateKeeps, QuietAllowed
  <2> QED BY <1>9, <2>1, EntityStep DEF Migrate
<1>10. CASE Relock(c, d)
  <2>1. At(K, c, d).pc = "relock" /\ K' = Returned(K, c, d) /\ UNCHANGED <<scenario, now, call, stopped>>
    BY <1>10 DEF Relock, At
  <2>2. Sound(K', call', stopped') /\ Allowed(K', K) BY <1>1, <2>1, ReturnedKeeps, QuietAllowed
  <2> QED BY <2>1, <2>2, EntityStep
<1> QED BY <1>2, <1>3, <1>4, <1>5, <1>6, <1>7, <1>8, <1>9, <1>10 DEF Execute

LEMMA CpuPreserves ==
  ASSUME CalloutInv, NEW c \in Cpu, Process(c) \/ Softclock(c)
  PROVE  Preserves
<1>1. CallsOK /\ Sound(K, call, stopped) /\ now \in Nat /\ K.cc[c].lastscan <= now BY InvParts
<1>2. CASE Process(c)
  <2>1. /\ Sound(K', call', stopped')
        /\ \A c1 \in Cpu : K'.cc[c1].lastscan \in {K.cc[c1].lastscan, now}
        /\ \A c1 \in Cpu, d \in Entity : At(K', c1, d).pc = "drain" => At(K, c1, d).pc = "drain"
    BY <1>1, <1>2, ProcessKeeps
  <2>2. Allowed(K', K) BY <2>1 DEF Allowed
  <2> QED BY <1>2, <2>1, <2>2, EntityStep DEF Process
<1>3. CASE Softclock(c)
  <2>1. K' = softclock(K, c) /\ At(K, c, 0).pc = "idle" /\ UNCHANGED <<scenario, now, call, stopped>>
    BY <1>3 DEF Softclock, At
  <2>2. Rests(At(K, c, 0)) BY <2>1 DEF Rests
  <2>3. Sound(K', call', stopped') /\ Allowed(K', K) BY <1>1, <2>1, <2>2, softclockKeeps, QuietAllowed
  <2> QED BY <2>1, <2>3, EntityStep
<1> QED BY <1>2, <1>3

\* A thread takes a step.
LEMMA ThreadStep ==
  ASSUME CalloutInv, UNCHANGED <<scenario, now>>, stopped' \subseteq Callout,
         Sound(K', call', stopped'), Quiet(K', K), CallsKept, DrainsReturn
  PROVE  Preserves
BY QuietAllowed DEF Preserves

LEMMA ThreadPreserves ==
  ASSUME CalloutInv, NEW p \in Task,
         \/ ResetCall(p) \/ Switched(p) \/ StopCall(p) \/ Drain(p)
         \/ LockSleepq(p) \/ Sleep(p) \/ Woken(p)
  PROVE  Preserves
<1>1. CallsOK /\ Apart(call) /\ Sound(K, call, stopped) /\ stopped \subseteq Callout BY InvParts
<1>2. Quiet(K, K) BY DEF Quiet
<1>3. CASE ResetCall(p)
  <2>1. Sound(K', call', stopped') /\ Quiet(K', K) BY <1>1, <1>3, ResetCallKeeps
  <2>2. CallsKept /\ DrainsReturn BY <1>1, <1>3, ResetCalls
  <2>3. stopped' \subseteq Callout BY <1>1, <1>3 DEF ResetCall
  <2> QED BY <1>3, <2>1, <2>2, <2>3, ThreadStep DEF ResetCall
<1>4. CASE Switched(p)
  <2>1. Sound(K', call', stopped') /\ Quiet(K', K) BY <1>1, <1>4, SwitchedKeeps
  <2>2. call[p].op = "reset" BY <1>1, <1>4 DEF Switched, CallsOK, Legal
  <2>3. Return(p) /\ UNCHANGED <<scenario, now, stopped>> BY <1>4 DEF Switched
  <2>4. CallsKept /\ DrainsReturn BY <1>1, <2>2, <2>3, ReturnKeepsCalls
  <2> QED BY <1>1, <2>1, <2>3, <2>4, ThreadStep
<1>5. CASE StopCall(p)
  <2>1. Sound(K', call', stopped') /\ Quiet(K', K) BY <1>1, <1>5, StopCallKeeps
  <2>2. /\ call[p].op \in {"stop", "async"} /\ Return(p) /\ UNCHANGED <<scenario, now>>
        /\ stopped' \subseteq stopped \cup {call[p].x}
    BY <1>5 DEF StopCall
  <2>3. CallsKept /\ DrainsReturn BY <1>1, <2>2, ReturnKeepsCalls
  <2>4. call[p].x \in Callout BY <1>1, <2>2, CallFields
  <2>5. stopped' \subseteq Callout BY <1>1, <2>2, <2>4
  <2> QED BY <2>1, <2>2, <2>3, <2>5, ThreadStep
<1>6. CASE Drain(p)
  <2>1. Sound(K', call', stopped') /\ Quiet(K', K) /\ (call'[p] = NoCall => Vanished(K', call[p].x))
    BY <1>1, <1>6, DrainKeeps
  <2>2. CallsKept /\ DrainsReturn BY <1>1, <1>6, <2>1, DrainCalls
  <2>3. UNCHANGED <<scenario, now, stopped>> BY <1>6 DEF Drain
  <2> QED BY <1>1, <2>1, <2>2, <2>3, ThreadStep
<1>7. CASE LockSleepq(p)
  <2>1. Sound(K', call', stopped') BY <1>1, <1>7, LockSleepqKeeps
  <2>2. CallsKept /\ DrainsReturn BY <1>1, <1>7, LockSleepqCalls
  <2>3. UNCHANGED <<scenario, now, stopped, K>> BY <1>7 DEF LockSleepq
  <2> QED BY <1>1, <1>2, <2>1, <2>2, <2>3, ThreadStep
<1>8. CASE Sleep(p)
  <2>1. Sound(K', call', stopped') BY <1>1, <1>8, SleepKeeps
  <2>2. CallsKept /\ DrainsReturn BY <1>1, <1>8, SleepCalls
  <2>3. UNCHANGED <<scenario, now, stopped, K>> BY <1>8 DEF Sleep
  <2> QED BY <1>1, <1>2, <2>1, <2>2, <2>3, ThreadStep
<1>9. CASE Woken(p)
  <2>1. Sound(K', call', stopped') /\ Quiet(K', K) /\ (call'[p] = NoCall => Vanished(K', call[p].x))
    BY <1>1, <1>9, WokenKeeps
  <2>2. CallsKept /\ DrainsReturn BY <1>1, <1>9, <2>1, WokenCalls
  <2>3. UNCHANGED <<scenario, now, stopped>> BY <1>9 DEF Woken
  <2> QED BY <1>1, <2>1, <2>2, <2>3, ThreadStep
<1> QED BY <1>3, <1>4, <1>5, <1>6, <1>7, <1>8, <1>9

LEMMA NextPreserves ==
  ASSUME CalloutInv, Next, HandlersStay
  PROVE  Preserves
<1>1. CallsOK /\ Apart(call) /\ Sound(K, call, stopped) /\ scenario \in Scenarios /\ now \in Nat
      /\ stopped \subseteq Callout
  BY InvParts
<1>2. Quiet(K, K) BY DEF Quiet
<1>3. CASE Tick
  <2>1. UNCHANGED <<scenario, K, call, stopped>> /\ now' = now + 1 BY <1>3 DEF Tick
  <2>2. CallsKept /\ DrainsReturn BY <1>1, <2>1, SameCalls
  <2> QED BY <1>1, <1>2, <2>1, <2>2, QuietAllowed DEF Preserves
<1>4. ASSUME NEW c \in scenario.cpus, Process(c) \/ Softclock(c) \/ \E d \in Entity : Execute(c, d)
      PROVE  Preserves
  <2>1. c \in Cpu BY <1>1, ScenariosAssumption
  <2> QED BY <1>4, <2>1, CpuPreserves, ExecutePreserves
<1>5. ASSUME NEW p \in Task, NEW x \in scenario.callouts, NEW op \in {"reset", "stop", "drain", "async"},
             Begin(p, op, x)
      PROVE  Preserves
  <2>1. Sound(K', call', stopped') BY <1>1, <1>5, BeginKeeps
  <2>2. CallsKept /\ DrainsReturn BY <1>1, <1>5, BeginCalls
  <2>3. UNCHANGED <<scenario, now, stopped, K>> BY <1>5 DEF Begin
  <2> QED BY <1>1, <1>2, <2>1, <2>2, <2>3, ThreadStep
<1> QED BY <1>3, <1>4, <1>5, ThreadPreserves DEF Next

LEMMA PreservedInv ==
  ASSUME CalloutInv, Preserves
  PROVE  CalloutInv'
<1>1. now \in Nat /\ scenario \in Scenarios /\ \A c \in Cpu : K.cc[c].lastscan <= now BY InvParts
<1>2. now' \in Nat /\ scenario' \in Scenarios BY <1>1 DEF Preserves
<1>3. \A c \in Cpu : K'.cc[c].lastscan <= now'
  <2>1. K \in Kernel BY InvParts DEF Sound
  <2>2. \A c \in Cpu : K.cc[c].lastscan \in Nat BY <2>1, KernelFields
  <2>3. now' = now \/ now' = now + 1 BY DEF Preserves
  <2>4. \A c \in Cpu : K'.cc[c].lastscan = K.cc[c].lastscan \/ K'.cc[c].lastscan = now BY DEF Preserves, Allowed
  <2> QED BY <1>1, <2>2, <2>3, <2>4
<1>4. call' \in [Task -> Call] /\ (\A p \in Task : Legal(call'[p], scenario'.ops[p])) /\ Apart(call')
  BY DEF Preserves, CallsKept, CallsOK
<1>5. stopped' \in SUBSET Callout /\ Sound(K', call', stopped') BY DEF Preserves
<1> QED BY <1>2, <1>3, <1>4, <1>5 DEF CalloutInv

LEMMA SameInv ==
  ASSUME CalloutInv, UNCHANGED vars
  PROVE  CalloutInv'
<1>1. UNCHANGED <<scenario, now, call, K, stopped>> BY DEF vars
<1> QED BY <1>1 DEF CalloutInv

\* The lists, the entities that run callouts, moves between CPUs and the
\* threads that drain fit together, whatever steps CPUs and threads take: the
\* invariant of callout_process, softclock, callout_reset, callout_stop and
\* callout_drain.  HandlersStay is needed: no handler moves a callout that a thread
\* drains.
THEOREM CalloutInvariant == HandlersStay => (Spec => []CalloutInv)
<1>1. Init => CalloutInv BY InitSound
<1>2. HandlersStay /\ CalloutInv /\ [Next]_vars => CalloutInv' BY NextPreserves, PreservedInv, SameInv
<1> SUFFICES ASSUME HandlersStay PROVE Spec => []CalloutInv
  OBVIOUS
<1>3. CalloutInv /\ [Next]_vars => CalloutInv' BY <1>2
<1> QED BY <1>1, <1>3, PTL DEF Spec

(***************************************************************************)
(* The properties.                                                          *)
(***************************************************************************)
\* A callout is pending exactly when it is on a list, or to be moved, or being
\* moved; it is on the list that its fields name, and there once.  As all that
\* follows, it is shown under HandlersStay.
THEOREM CalloutPendingMeansListed == HandlersStay => (Spec => []PendingMeansListed)
<1>1. ASSUME CalloutInv PROVE PendingMeansListed
  <2>1. /\ K \in Kernel /\ \A c \in Cpu : OnceEach(K, c)
        /\ \A x \in Callout : Linked(K, x) /\ K.co[x] \in callout
    BY <1>1, InvParts, SoundParts DEF Tidy
  <2>2. \A c \in Cpu : DOMAIN K.cc[c].wheel = Bucket BY <2>1, KernelFields DEF callout_cpu, Bucket
  <2>3. ASSUME NEW c \in Cpu, NEW x
        PROVE  OnList(c, x) <=> OnExpireq(K, c, x) \/ \E b \in Bucket : OnWheel(K, c, b, x)
    BY <2>2 DEF OnList, Lists, OnExpireq, OnWheel
  <2>4. ASSUME NEW x \in Callout, K.co[x].pending, ~K.co[x].dfr, K.co[x].cpu # CPUBLOCK
        PROVE  OnList(K.co[x].cpu, x)
    <3>1. Queued(K.co[x]) /\ K.co[x].cpu \in Cpu /\ K.co[x].time \in Nat
      BY <2>1, <2>4, CalloutFields DEF Queued
    <3>2. callout_get_bucket(K.co[x].time) \in Bucket BY <3>1, BucketFacts
    <3>3. Listed(K, x) BY <2>1 DEF Linked
    <3>4. OnExpireq(K, K.co[x].cpu, x) \/ \E b \in Bucket : OnWheel(K, K.co[x].cpu, b, x)
      BY <3>1, <3>2, <3>3 DEF Listed
    <3> QED BY <2>3, <3>1, <3>4
  <2>5. ASSUME NEW c \in Cpu, NEW x \in Callout, OnList(c, x)
        PROVE  /\ K.co[x].pending /\ K.co[x].active /\ ~K.co[x].dfr /\ K.co[x].cpu = c
               /\ x \in ToSet(K.cc[c].expireq) <=> K.co[x].processed
               /\ \A b \in DOMAIN K.cc[c].wheel : x \in ToSet(K.cc[c].wheel[b]) =>
                    b = callout_get_bucket(K.co[x].time) /\ ~K.co[x].processed
    <3>1. Listed(K, x) /\ (Queued(K.co[x]) => K.co[x].active) BY <2>1 DEF Linked
    <3>2. Queued(K.co[x]) /\ K.co[x].cpu = c BY <2>3, <2>5, <3>1 DEF Listed
    <3>3. OnExpireq(K, c, x) <=> K.co[x].processed BY <3>1, <3>2 DEF Listed
    <3>4. \A b \in Bucket : OnWheel(K, c, b, x) => b = callout_get_bucket(K.co[x].time) /\ ~K.co[x].processed
      BY <3>1 DEF Listed
    <3> QED BY <2>2, <3>1, <3>2, <3>3, <3>4 DEF Queued, OnExpireq, OnWheel
  <2>6. \A c \in Cpu : \A l \in Lists(c) : IsInjective(l) BY <2>1, <2>2 DEF Lists, OnceEach
  <2>7. \A x \in Callout :
          K.co[x].pending => K.co[x].dfr \/ K.co[x].cpu = CPUBLOCK \/ OnList(K.co[x].cpu, x)
    BY <2>4
  <2> QED BY <2>5, <2>6, <2>7 DEF PendingMeansListed
<1> SUFFICES ASSUME HandlersStay PROVE Spec => []PendingMeansListed
  OBVIOUS
<1>2. Spec => []CalloutInv BY CalloutInvariant
<1> QED BY <1>1, <1>2, PTL

\* While a direct callout runs, cc_next stays in the bucket of the scan that
\* called it (under HandlersStay).
THEOREM CalloutScanStaysInBucket == HandlersStay => (Spec => []ScanStaysInBucket)
<1>1. ASSUME CalloutInv PROVE ScanStaysInBucket
  <2>1. \A c \in Cpu : Suspended(K, c) BY <1>1, InvParts, SoundParts DEF Tidy
  <2> QED BY <2>1 DEF ScanStaysInBucket, Suspended, At
<1> SUFFICES ASSUME HandlersStay PROVE Spec => []ScanStaysInBucket
  OBVIOUS
<1>2. Spec => []CalloutInv BY CalloutInvariant
<1> QED BY <1>1, <1>2, PTL

\* After callout_stop has returned 1, the handler does not start until someone
\* resets the callout (under HandlersStay).
THEOREM CalloutStopMeansCancelled == HandlersStay => (Spec => []StopMeansCancelled)
<1>1. ASSUME CalloutInv PROVE StopMeansCancelled
  <2>1. Sound(K, call, stopped) /\ stopped \subseteq Callout BY <1>1, InvParts
  <2>2. ASSUME NEW x \in stopped
        PROVE  ~K.co[x].pending /\ ~K.co[x].dfr /\ \A c \in Cpu, d \in Entity : ~Runs(c, d, x)
    <3>1. x \in Callout /\ Kept(K, stopped, x) BY <2>1, SoundParts
    <3>2. ASSUME NEW c \in Cpu, NEW d \in Entity, Runs(c, d, x) PROVE FALSE
      <4>1. Steady(At(K, c, d), d) BY <2>1, SoundParts
      <4>2. At(K, c, d).pc = "run" /\ At(K, c, d).curr = x BY <3>2, <4>1 DEF Runs, At, Steady
      <4> QED BY <3>1, <4>2 DEF Kept, Cancels
    <3> QED BY <3>1, <3>2 DEF Kept
  <2> QED BY <2>2 DEF StopMeansCancelled
<1> SUFFICES ASSUME HandlersStay PROVE Spec => []StopMeansCancelled
  OBVIOUS
<1>2. Spec => []CalloutInv BY CalloutInvariant
<1> QED BY <1>1, <1>2, PTL

\* A thread that sleeps in callout_drain has its wakeup to come (under
\* HandlersStay).
THEOREM CalloutSleepersAreWoken == HandlersStay => (Spec => []SleepersAreWoken)
<1>1. ASSUME CalloutInv PROVE SleepersAreWoken
  <2>1. ASSUME NEW p \in Task, call[p].pc = "sleep"
        PROVE  LET e == K.cc[call[p].ch[1]].exec[call[p].ch[2]]
               IN  e.pc = "wakeup" \/ (e.waiting /\ e.pc \in {"lock", "run", "finish", "drain"})
    <3>1. Legal(call[p], scenario.ops[p]) /\ Drains(K, call[p]) BY <1>1, InvParts DEF CallsOK, Sound
    <3>2. call[p].op = "drain" BY <2>1, <3>1 DEF Legal
    <3>3. PICK c, d : call[p].ch = <<c, d>> /\ WakeupToCome(At(K, c, d), call[p].x) BY <2>1, <3>1, <3>2 DEF Drains
    <3>4. call[p].ch[1] = c /\ call[p].ch[2] = d BY <3>3
    <3> QED BY <3>3, <3>4 DEF WakeupToCome, At
  <2> QED BY <2>1 DEF SleepersAreWoken
<1> SUFFICES ASSUME HandlersStay PROVE Spec => []SleepersAreWoken
  OBVIOUS
<1>2. Spec => []CalloutInv BY CalloutInvariant
<1> QED BY <1>1, <1>2, PTL

\* When callout_drain returns, and when the function given to
\* callout_async_drain is called, the callout neither runs nor is set, although
\* its handler may have set it again, if HandlersStay: handlers do not set for
\* another CPU what threads drain with callout_drain.
THEOREM CalloutDrainMeansGone == HandlersStay => (Spec => DrainMeansGone)
<1> DEFINE Ends(x) ==
             \/ \E p \in Task : call[p].op = "drain" /\ call[p].x = x /\ call'[p] = NoCall
             \/ \E c \in Cpu, d \in Entity : /\ K.cc[c].exec[d].x = x /\ K.cc[c].exec[d].pc = "finish"
                                            /\ K'.cc[c].exec[d].pc = "drain"
           Settled == \A x \in Callout :
             \/ \E p \in Task : call[p].op = "drain" /\ call[p].x = x /\ call'[p] = NoCall
             \/ \E c \in Cpu, d \in Entity : /\ K.cc[c].exec[d].x = x /\ K.cc[c].exec[d].pc = "finish"
                                            /\ K'.cc[c].exec[d].pc = "drain"
             => Gone(x)'
<1>1. ASSUME HandlersStay, CalloutInv, Next, NEW x \in Callout, Ends(x) PROVE Gone(x)'
  <2>1. Preserves BY <1>1, NextPreserves
  <2>2. Vanished(K', x)
    <3>1. CASE \E p \in Task : call[p].op = "drain" /\ call[p].x = x /\ call'[p] = NoCall
      BY <2>1, <3>1 DEF Preserves, DrainsReturn
    <3>2. CASE \E c \in Cpu, d \in Entity : /\ K.cc[c].exec[d].x = x /\ K.cc[c].exec[d].pc = "finish"
                                           /\ K'.cc[c].exec[d].pc = "drain"
      BY <2>1, <3>2 DEF Preserves, Allowed, At
    <3> QED BY <1>1, <3>1, <3>2
  <2>3. ASSUME NEW c \in Cpu, NEW d \in Entity PROVE K'.cc[c].exec[d].curr # x /\ ~Runs(c, d, x)'
    <3>1. Steady(At(K', c, d), d) BY <2>1, SoundParts DEF Preserves
    <3>2. At(K', c, d).curr # x BY <2>2 DEF Vanished
    <3>3. At(K', c, d).pc = "run" => At(K', c, d).curr = At(K', c, d).x BY <3>1 DEF Steady
    <3> QED BY <3>2, <3>3 DEF Runs, At
  <2> QED BY <2>2, <2>3 DEF Gone, Vanished
<1>2. HandlersStay /\ CalloutInv /\ [Next]_vars => [Settled]_vars BY <1>1
<1> SUFFICES ASSUME HandlersStay PROVE Spec => DrainMeansGone
  OBVIOUS
<1>3. CalloutInv /\ [Next]_vars => [Settled]_vars BY <1>2
<1>4. Spec => []CalloutInv BY CalloutInvariant
<1> QED BY <1>3, <1>4, PTL DEF Spec, DrainMeansGone
===============================================================================

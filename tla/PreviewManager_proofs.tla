------------------------ MODULE PreviewManager_proofs ------------------------
(***************************************************************************)
(* Proofs about PreviewManager, for any number of sites, environments and  *)
(* sweeps and any length of the queues: a site has one preview that both   *)
(* maps name and that is alive, every live environment has an owner, and   *)
(* nothing is left when close() returned without an error.                 *)
(***************************************************************************)
EXTENDS PreviewManager, FiniteSetTheorems, SequenceTheorems, TLAPS

Positions(s) == 1 .. Len(queue[s])

\* The i-th operation of s works on e, to make it the preview of s.
Owns(s, i, e) ==
  /\ i \in Positions(s)
  /\ queue[s][i].do # "stop"
  /\ e \in queue[s][i].env

\* The two maps agree, name one preview of a site, and name live environments.
Maps ==
  /\ \A s \in Sites : \A e, f \in bySite[s] : e = f
  /\ \A e \in Envs, s \in Sites : e \in bySite[s] <=> s \in session[e]
  /\ \A e \in Sessions : env[e] = "live"

\* An operation of s that works on e: e is the preview of no other site, and,
\* unless it belongs to a reference generation, which can be retried, alive and
\* no preview at all.
Works(s, e) ==
  /\ e \notin unadopted /\ env[e] # "free"
  /\ session[e] \subseteq {s} /\ Retried[e] \subseteq {s}
  /\ Retried[e] = {} => env[e] = "live" /\ session[e] = {}

\* An environment that was refused is alive and no preview, and one that can be
\* adopted again is a preview of its own site only.
Apart ==
  /\ \A s \in Sites, i \in Nat, e \in Envs : Owns(s, i, e) => Works(s, e)
  /\ \A e \in unadopted : env[e] = "live" /\ session[e] = {}
  /\ \A e \in Envs : Retried[e] # {} => session[e] \subseteq Retried[e]

\* No two operations work on one environment, and none on two.
Once ==
  /\ \A s, t \in Sites, i, k \in Nat, e \in Envs :
       Owns(s, i, e) /\ Owns(t, k, e) => s = t /\ i = k
  /\ \A s \in Sites : \A i \in Positions(s) : \A e, f \in queue[s][i].env : e = f

\* Only the running operation has restored an environment, which no pipeline will
\* offer, and then the site has no preview.
Restored ==
  \A s \in Sites : \A i \in Positions(s) :
    queue[s][i].do = "start" /\ queue[s][i].env # {} =>
      i = 1 /\ bySite[s] = {} /\ \A e \in queue[s][i].env : Retried[e] = {}

\* Who answers for a live environment.
Known ==
  \A e \in Envs : env[e] = "live" =>
    \/ e \in Sessions \cup faulty \cup unadopted
    \/ \E s \in Sites, i \in Nat : Owns(s, i, e)

\* From close() on, what can still make a preview is counted in drain ...
Drained ==
  /\ closing # "open" =>
       \A s \in Sites : \A i \in Positions(s) : queue[s][i].do # "stop" => i <= drain[s]
  /\ closing \in {"stopping", "closed", "failed"} => \A s \in Sites : drain[s] = 0

\* ... and from its last part on, every preview left has its stop in the queue.
StopsQueued ==
  /\ closing = "stopping" /\ ~rejected =>
       \A s \in Sites : \A e \in bySite[s] :
         \E i \in Positions(s) : queue[s][i] = StopOp(e, "close")
  /\ closing = "closed" => \A s \in Sites : bySite[s] = {}

IInv == TypeOK /\ Maps /\ Apart /\ Once /\ Restored /\ Known /\ Drained /\ StopsQueued

-----------------------------------------------------------------------------
(* Queues *)

\* A new operation comes last.
LEMMA Appended ==
  ASSUME QueueTyped, NEW s \in Sites, NEW op \in Op, Queued(s, op)
  PROVE  /\ QueueTyped'
         /\ \A t \in Sites \ {s} : queue'[t] = queue[t]
         /\ Len(queue'[s]) = Len(queue[s]) + 1
         /\ queue'[s][Len(queue[s]) + 1] = op
         /\ \A i \in Positions(s) : queue'[s][i] = queue[s][i]
<1>1. queue[s] \in Seq(Op) /\ queue' = [queue EXCEPT ![s] = Append(queue[s], op)]
  BY DEF QueueTyped, Queued
<1> DEFINE q == queue[s]
<1> HIDE DEF q
<1>2. q \in Seq(Op)  BY <1>1 DEF q
<1>3. /\ Append(q, op) \in Seq(Op) /\ Len(Append(q, op)) = Len(q) + 1
      /\ Append(q, op)[Len(q) + 1] = op
      /\ \A i \in 1 .. Len(q) : Append(q, op)[i] = q[i]
  BY <1>2
<1>4. queue'[s] = Append(q, op) /\ \A t \in Sites \ {s} : queue'[t] = queue[t]
  BY <1>1 DEF QueueTyped, q
<1>5. QueueTyped'  BY <1>1, <1>3 DEF QueueTyped, q
<1> QED  BY <1>3, <1>4, <1>5 DEF q, Positions

\* When an operation settles the others move up.
LEMMA Popped ==
  ASSUME QueueTyped, NEW s \in Sites, Busy(s), queue' = [queue EXCEPT ![s] = Tail(@)]
  PROVE  /\ QueueTyped'
         /\ \A t \in Sites \ {s} : queue'[t] = queue[t]
         /\ Len(queue'[s]) = Len(queue[s]) - 1 /\ 1 \in Positions(s)
         /\ First(s) = queue[s][1] /\ First(s) \in Op
         /\ \A i \in Positions(s)' : i + 1 \in Positions(s) /\ queue'[s][i] = queue[s][i + 1]
<1> DEFINE q == queue[s]
<1>1. q \in Seq(Op) /\ q # << >>  BY DEF QueueTyped, Busy
<1>2. queue'[s] = Tail(q) /\ \A t \in Sites \ {s} : queue'[t] = queue[t]
  BY DEF QueueTyped
<1> HIDE DEF q
<1>3. /\ Tail(q) \in Seq(Op) /\ Len(Tail(q)) = Len(q) - 1 /\ Len(q) \in Nat \ {0}
      /\ Head(q) = q[1] /\ q[1] \in Op
      /\ \A i \in 1 .. Len(Tail(q)) : i + 1 \in 1 .. Len(q) /\ Tail(q)[i] = q[i + 1]
  BY <1>1
<1>4. QueueTyped'  BY <1>2, <1>3 DEF QueueTyped
<1>5. Len(queue'[s]) = Len(queue[s]) - 1 /\ 1 \in Positions(s)
  <2>1. Len(queue'[s]) = Len(Tail(q))  BY <1>2, Zenon
  <2>2. Len(queue'[s]) = Len(q) - 1  BY <2>1, <1>3
  <2>3. 1 \in 1 .. Len(q)  BY <1>3
  <2> QED  BY <2>2, <2>3 DEF q, Positions
<1>6. First(s) = queue[s][1] /\ First(s) \in Op  BY <1>3 DEF q, First
<1>7. \A i \in 1 .. Len(queue'[s]) : i + 1 \in 1 .. Len(queue[s]) /\ queue'[s][i] = queue[s][i + 1]
  BY <1>2, <1>3 DEF q
<1> QED  BY <1>2, <1>4, <1>5, <1>6, <1>7 DEF Positions

\* What the operations work on, before and after.
LEMMA OwnsAppended ==
  ASSUME QueueTyped, NEW s \in Sites, NEW op \in Op, Queued(s, op)
  PROVE  \A t \in Sites, i \in Nat, e \in Envs :
           Owns(t, i, e)' <=>
             \/ Owns(t, i, e)
             \/ t = s /\ i = Len(queue[s]) + 1 /\ op.do # "stop" /\ e \in op.env
<1>1. Len(queue[s]) \in Nat  BY DEF QueueTyped
<1> QED  BY <1>1, Appended DEF Owns, Positions

LEMMA OwnsPopped ==
  ASSUME QueueTyped, NEW s \in Sites, Busy(s), queue' = [queue EXCEPT ![s] = Tail(@)]
  PROVE  \A t \in Sites, i \in Nat, e \in Envs :
           Owns(t, i, e)' <=> IF t = s THEN i # 0 /\ Owns(s, i + 1, e) ELSE Owns(t, i, e)
<1> SUFFICES ASSUME NEW t \in Sites, NEW i \in Nat, NEW e \in Envs
             PROVE  Owns(t, i, e)' <=> IF t = s THEN i # 0 /\ Owns(s, i + 1, e) ELSE Owns(t, i, e)
  OBVIOUS
<1>1. Len(queue[s]) \in Nat  BY DEF QueueTyped
<1>2. /\ \A u \in Sites \ {s} : queue'[u] = queue[u]
      /\ Len(queue'[s]) = Len(queue[s]) - 1
      /\ \A k \in 1 .. Len(queue'[s]) : queue'[s][k] = queue[s][k + 1]
  BY Popped DEF Positions
<1>3. CASE t # s  BY <1>2, <1>3 DEF Owns, Positions
<1>4. CASE t = s
  <2>1. i \in 1 .. Len(queue'[s]) <=> i # 0 /\ i + 1 \in 1 .. Len(queue[s])  BY <1>1, <1>2
  <2> QED  BY <1>2, <1>4, <2>1 DEF Owns, Positions
<1> QED  BY <1>3, <1>4

\* A queue does not touch the maps, and the maps do not touch a queue.
LEMMA QueuesApart ==
  ASSUME QueueTyped, UNCHANGED queue
  PROVE  \A t \in Sites, i \in Nat, e \in Envs : Owns(t, i, e)' <=> Owns(t, i, e)
BY DEF Owns, Positions

-----------------------------------------------------------------------------
(* Actions that only queue an operation, or none *)

\* An operation that has no environment yet, or that stops a preview, joins.
LEMMA Joins ==
  ASSUME IInv, NEW s \in Sites, NEW op \in Op, Queued(s, op),
         \/ op.do = "stop" /\ \A e, f \in op.env : e = f
         \/ op.do = "start" /\ op.env = {} /\ ~Closed,
         UNCHANGED <<env, session, bySite, unadopted, faulty, closing, drain, rejected>>
  PROVE  /\ QueueTyped' /\ Maps' /\ Apart' /\ Once' /\ Restored' /\ Known'
         /\ Drained' /\ StopsQueued'
<1> USE DEF IInv, TypeOK
<1>1. /\ QueueTyped'
      /\ \A t \in Sites \ {s} : queue'[t] = queue[t]
      /\ Len(queue'[s]) = Len(queue[s]) + 1
      /\ queue'[s][Len(queue[s]) + 1] = op
      /\ \A i \in Positions(s) : queue'[s][i] = queue[s][i]
  BY Appended
<1>2. Len(queue[s]) \in Nat  BY DEF QueueTyped
<1>3. \A t \in Sites, i \in Nat, e \in Envs : Owns(t, i, e)' <=> Owns(t, i, e)
  BY <1>1, OwnsAppended
<1>4. \A t \in Sites : \A i \in Positions(t)' :
        \/ i \in Positions(t) /\ queue'[t][i] = queue[t][i]
        \/ t = s /\ i = Len(queue[s]) + 1 /\ queue'[t][i] = op
  BY <1>1, <1>2 DEF Positions
<1>5. Maps'  BY DEF Maps, Sessions
<1>6. Apart'  BY <1>3 DEF Apart, Works
<1>7. Once'
  <2>1. \A t, u \in Sites, i, k \in Nat, e \in Envs :
          Owns(t, i, e)' /\ Owns(u, k, e)' => t = u /\ i = k
    BY <1>3 DEF Once
  <2>2. \A t \in Sites : \A i \in Positions(t)' : \A e, f \in queue'[t][i].env : e = f
    BY <1>4 DEF Once
  <2> QED  BY <2>1, <2>2 DEF Once
<1>8. Restored'
  <2> SUFFICES ASSUME NEW t \in Sites, NEW i \in Positions(t)',
                      queue'[t][i].do = "start", queue'[t][i].env # {}
               PROVE  i = 1 /\ bySite[t] = {} /\ \A e \in queue'[t][i].env : Retried[e] = {}
    BY DEF Restored
  <2>1. i \in Positions(t) /\ queue'[t][i] = queue[t][i]  BY <1>4
  <2> QED  BY <2>1 DEF Restored
<1>9. Known'
  <2> SUFFICES ASSUME NEW e \in Envs, env[e] = "live", e \notin Sessions \cup faulty \cup unadopted
               PROVE  \E t \in Sites, i \in Nat : Owns(t, i, e)'
    BY DEF Known, Sessions
  <2> QED  BY <1>3 DEF Known
<1>10. Drained'
  <2>1. ASSUME closing # "open", NEW t \in Sites, NEW i \in Positions(t)', queue'[t][i].do # "stop"
        PROVE  i <= drain[t]
    BY <1>4, <2>1 DEF Drained, Closed
  <2> QED  BY <2>1 DEF Drained
<1>11. StopsQueued'
  <2>1. ASSUME closing = "stopping", ~rejected, NEW t \in Sites, NEW e \in bySite[t]
        PROVE  \E i \in Positions(t)' : queue'[t][i] = StopOp(e, "close")
    <3>1. PICK i \in Positions(t) : queue[t][i] = StopOp(e, "close")  BY <2>1 DEF StopsQueued
    <3>2. i \in Positions(t)' /\ queue'[t][i] = queue[t][i]  BY <1>1, <1>2 DEF Positions
    <3> QED  BY <3>1, <3>2
  <2> QED  BY <2>1 DEF StopsQueued
<1> QED  BY <1>1, <1>5, <1>6, <1>7, <1>8, <1>9, <1>10, <1>11

-----------------------------------------------------------------------------
(* The running operation settles *)

LEMMA SettledKeeps ==
  ASSUME IInv, NEW s \in Sites, Busy(s), NEW ok \in BOOLEAN, Settled(s, ok)
  PROVE  /\ QueueTyped' /\ WorkTyped' /\ Once' /\ Drained' /\ closing' = closing
         /\ \A t \in Sites : \A i \in Positions(t)' :
              \/ t # s /\ i \in Positions(t) /\ queue'[t][i] = queue[t][i]
              \/ t = s /\ i + 1 \in Positions(s) /\ queue'[s][i] = queue[s][i + 1]
<1> USE DEF IInv, TypeOK
<1>1. /\ queue' = [queue EXCEPT ![s] = Tail(@)]
      /\ drain' = [drain EXCEPT ![s] = DrainLeft(s)]
      /\ sweep' = [w \in Sweeps |-> IF First(s).by = w THEN AfterStop(ok) ELSE sweep[w]]
      /\ rejected' = (rejected \/ (~ok /\ First(s).by = "close"))
      /\ UNCHANGED <<seen, closing>>
  BY DEF Settled
<1>2. /\ QueueTyped'
      /\ \A t \in Sites \ {s} : queue'[t] = queue[t]
      /\ Len(queue'[s]) = Len(queue[s]) - 1
      /\ \A i \in Positions(s)' : i + 1 \in Positions(s) /\ queue'[s][i] = queue[s][i + 1]
  BY <1>1, Popped
<1>3. DrainLeft(s) \in Nat  BY DEF DrainLeft, WorkTyped
<1>4. WorkTyped'
  <2>1. drain' \in [Sites -> Nat]  BY <1>1, <1>3 DEF WorkTyped
  <2>2. sweep' \in [Sweeps -> {"idle", "walking", "waiting"}]
    BY <1>1 DEF WorkTyped, AfterStop
  <2>3. rejected' \in BOOLEAN  BY <1>1 DEF WorkTyped
  <2> QED  BY <1>1, <2>1, <2>2, <2>3 DEF WorkTyped
<1>5. \A t \in Sites : \A i \in Positions(t)' :
        \/ t # s /\ i \in Positions(t) /\ queue'[t][i] = queue[t][i]
        \/ t = s /\ i + 1 \in Positions(s) /\ queue'[s][i] = queue[s][i + 1]
  BY <1>2 DEF Positions
<1>6. Once'
  <2>0. \A t \in Sites, i \in Nat, e \in Envs :
          Owns(t, i, e)' => IF t = s THEN Owns(s, i + 1, e) ELSE Owns(t, i, e)
    BY <1>1, OwnsPopped
  <2>1. ASSUME NEW t \in Sites, NEW u \in Sites, NEW i \in Nat, NEW k \in Nat, NEW e \in Envs,
               Owns(t, i, e)', Owns(u, k, e)'
        PROVE  t = u /\ i = k
    <3>1. CASE t = s /\ u = s
      <4>1. Owns(s, i + 1, e) /\ Owns(s, k + 1, e)  BY <2>0, <2>1, <3>1
      <4>2. i + 1 = k + 1  BY <4>1 DEF Once
      <4> QED  BY <3>1, <4>2
    <3>2. CASE t = s /\ u # s
      <4>1. Owns(s, i + 1, e) /\ Owns(u, k, e)  BY <2>0, <2>1, <3>2
      <4> QED  BY <3>2, <4>1 DEF Once
    <3>3. CASE t # s /\ u = s
      <4>1. Owns(t, i, e) /\ Owns(s, k + 1, e)  BY <2>0, <2>1, <3>3
      <4> QED  BY <3>3, <4>1 DEF Once
    <3>4. CASE t # s /\ u # s
      <4>1. Owns(t, i, e) /\ Owns(u, k, e)  BY <2>0, <2>1, <3>4
      <4> QED  BY <4>1 DEF Once
    <3> QED  BY <3>1, <3>2, <3>3, <3>4
  <2>2. \A t \in Sites : \A i \in Positions(t)' : \A e, f \in queue'[t][i].env : e = f
    BY <1>5 DEF Once
  <2> QED  BY <2>1, <2>2 DEF Once
<1>7. Drained'
  <2>1. ASSUME closing # "open", NEW t \in Sites, NEW i \in Positions(t)', queue'[t][i].do # "stop"
        PROVE  i <= drain'[t]
    <3>1. drain[t] \in Nat /\ i \in Nat  BY DEF WorkTyped, Positions
    <3>2. CASE t # s
      <4>1. i <= drain[t]  BY <1>5, <2>1, <3>2 DEF Drained
      <4> QED  BY <1>1, <3>2, <4>1 DEF WorkTyped
    <3>3. CASE t = s
      <4>1. i + 1 <= drain[s]  BY <1>5, <2>1, <3>3 DEF Drained
      <4>2. drain'[s] = DrainLeft(s)  BY <1>1 DEF WorkTyped
      <4> QED  BY <3>1, <3>3, <4>1, <4>2 DEF DrainLeft
    <3> QED  BY <3>2, <3>3
  <2>2. ASSUME closing \in {"stopping", "closed", "failed"}, NEW t \in Sites
        PROVE  drain'[t] = 0
    <3>1. drain[t] = 0  BY <2>2 DEF Drained
    <3> QED  BY <1>1, <3>1 DEF WorkTyped, DrainLeft
  <2> QED  BY <1>1, <2>1, <2>2 DEF Drained
<1> QED  BY <1>1, <1>2, <1>4, <1>5, <1>6, <1>7

\* What the other operations wait for is still true once one has settled, if the
\* others' sites got no preview, and no stop of close() was lost.
LEMMA RestIsQueued ==
  ASSUME IInv, NEW s \in Sites, Busy(s), NEW ok \in BOOLEAN, Settled(s, ok),
         \A t \in Sites \ {s} : bySite'[t] \subseteq bySite[t],
         \/ First(s).do # "stop"
         \/ /\ bySite'[s] \subseteq bySite[s]
            /\ \A e \in bySite'[s] : First(s) = StopOp(e, "close") => rejected'
  PROVE  Restored' /\ StopsQueued'
<1> USE DEF IInv, TypeOK
<1>1. /\ queue' = [queue EXCEPT ![s] = Tail(@)]
      /\ rejected' = (rejected \/ (~ok /\ First(s).by = "close"))
      /\ closing' = closing
  BY DEF Settled
<1>2. /\ QueueTyped'
      /\ \A t \in Sites \ {s} : queue'[t] = queue[t]
      /\ Len(queue'[s]) = Len(queue[s]) - 1 /\ 1 \in Positions(s) /\ First(s) = queue[s][1]
      /\ \A i \in Positions(s)' : i + 1 \in Positions(s) /\ queue'[s][i] = queue[s][i + 1]
  BY <1>1, Popped
<1>3. Restored'
  <2> SUFFICES ASSUME NEW t \in Sites, NEW i \in Positions(t)',
                      queue'[t][i].do = "start", queue'[t][i].env # {}
               PROVE  i = 1 /\ bySite'[t] = {} /\ \A e \in queue'[t][i].env : Retried[e] = {}
    BY DEF Restored
  <2>1. CASE t = s
    <3>1. i + 1 \in Positions(s) /\ queue'[s][i] = queue[s][i + 1]  BY <1>2, <2>1
    <3>2. i + 1 = 1  BY <2>1, <3>1 DEF Restored
    <3> QED  BY <3>2 DEF Positions
  <2>2. CASE t # s
    <3>1. i \in Positions(t) /\ queue'[t][i] = queue[t][i]  BY <1>2, <2>2 DEF Positions
    <3>2. i = 1 /\ bySite[t] = {} /\ \A e \in queue[t][i].env : Retried[e] = {}
      BY <3>1 DEF Restored
    <3> QED  BY <2>2, <3>1, <3>2
  <2> QED  BY <2>1, <2>2
<1>4. ASSUME closing \in {"stopping", "closed"}
      PROVE  /\ First(s).do = "stop"
             /\ \A t \in Sites : bySite'[t] \subseteq bySite[t]
  <2>1. First(s).do = "stop"
    <3> SUFFICES ASSUME First(s).do # "stop" PROVE FALSE  OBVIOUS
    <3>1. 1 <= drain[s] /\ drain[s] = 0  BY <1>2, <1>4 DEF Drained
    <3> QED  BY <3>1
  <2> QED  BY <2>1
<1>5. StopsQueued'
  <2>1. ASSUME closing = "stopping", ~rejected', NEW t \in Sites, NEW e \in bySite'[t]
        PROVE  \E i \in Positions(t)' : queue'[t][i] = StopOp(e, "close")
    <3>1. e \in bySite[t] /\ ~rejected  BY <1>1, <1>4, <2>1
    <3>2. PICK k \in Positions(t) : queue[t][k] = StopOp(e, "close")
      BY <2>1, <3>1 DEF StopsQueued
    <3>3. CASE t # s  BY <1>2, <3>2, <3>3 DEF Positions
    <3>4. CASE t = s
      <4>1. k # 1  BY <1>2, <1>4, <2>1, <3>2, <3>4
      <4>2. Len(queue[s]) \in Nat  BY DEF QueueTyped
      <4>3. k - 1 \in 1 .. Len(queue'[s]) /\ (k - 1) + 1 = k
        BY <1>2, <3>2, <3>4, <4>1, <4>2 DEF Positions
      <4>4. queue'[s][k - 1] = queue[s][k]  BY <1>2, <4>3 DEF Positions
      <4> QED  BY <3>2, <3>4, <4>3, <4>4 DEF Positions
    <3> QED  BY <3>3, <3>4
  <2>2. ASSUME closing = "closed", NEW t \in Sites PROVE bySite'[t] = {}
    BY <1>4, <2>2 DEF StopsQueued
  <2> QED  BY <1>1, <2>1, <2>2 DEF StopsQueued
<1> QED  BY <1>3, <1>5

-----------------------------------------------------------------------------
(* Each operation *)

\* #stop of a preview the site has.
LEMMA RemovedKeeps ==
  ASSUME IInv, NEW e \in Envs, session[e] # {}, Removed(e), UNCHANGED <<unadopted, faulty>>
  PROVE  /\ MapsTyped' /\ Maps'
         /\ \A t \in Sites : bySite'[t] \subseteq bySite[t] /\ e \notin bySite'[t]
         /\ \A f \in Envs \ {e} : env'[f] = env[f] /\ session'[f] = session[f]
         /\ env'[e] = "gone" /\ session'[e] = {}
<1> USE DEF IInv, TypeOK
<1>1. /\ env' = [env EXCEPT ![e] = "gone"]
      /\ session' = [session EXCEPT ![e] = {}]
      /\ bySite' = [t \in Sites |-> bySite[t] \ {e}]
      /\ expired' = expired \ {e}
  BY DEF Removed, SessionDropped
<1>2. MapsTyped'  BY <1>1 DEF MapsTyped
<1>3. /\ \A t \in Sites : bySite'[t] \subseteq bySite[t] /\ e \notin bySite'[t]
      /\ \A f \in Envs \ {e} : env'[f] = env[f] /\ session'[f] = session[f]
      /\ env'[e] = "gone" /\ session'[e] = {}
  BY <1>1 DEF MapsTyped
<1>4. Maps'
  <2>1. \A t \in Sites : \A f, g \in bySite'[t] : f = g  BY <1>3 DEF Maps
  <2>2. \A f \in Envs, t \in Sites : f \in bySite'[t] <=> t \in session'[f]
    BY <1>1, <1>3 DEF Maps
  <2>3. \A f \in Envs : session'[f] # {} => env'[f] = "live"
    BY <1>3 DEF Maps, Sessions
  <2> QED  BY <2>1, <2>2, <2>3 DEF Maps, Sessions
<1> QED  BY <1>2, <1>3, <1>4

LEMMA StopOldKeeps ==
  ASSUME IInv, NEW s \in Sites, StopOld(s)
  PROVE  IInv'
<1> USE DEF IInv, TypeOK
<1>1. PICK e \in bySite[s] : Removed(e)  BY DEF StopOld
<1>2. e \in Envs /\ session[e] # {}  BY DEF Maps, MapsTyped
<1>3. UNCHANGED <<queue, sweep, seen, closing, drain, rejected, unadopted, faulty>>
  BY DEF StopOld, work
<1>4. /\ MapsTyped' /\ Maps'
      /\ \A t \in Sites : bySite'[t] \subseteq bySite[t] /\ e \notin bySite'[t]
      /\ \A f \in Envs \ {e} : env'[f] = env[f] /\ session'[f] = session[f]
      /\ env'[e] = "gone" /\ session'[e] = {}
  BY <1>1, <1>2, <1>3, RemovedKeeps
<1>5. QueueTyped' /\ WorkTyped'  BY <1>3 DEF QueueTyped, WorkTyped
<1>6. \A t \in Sites, i \in Nat, f \in Envs : Owns(t, i, f)' <=> Owns(t, i, f)
  BY <1>3, QueuesApart
<1>7. \A t \in Sites : Positions(t)' = Positions(t)  BY <1>3 DEF Positions
<1>8. Apart'
  <2>1. ASSUME NEW f \in unadopted PROVE env'[f] = "live" /\ session'[f] = {}
    <3>1. f \in Envs /\ f # e  BY <1>2, <2>1 DEF Apart, MapsTyped
    <3> QED  BY <1>4, <2>1, <3>1 DEF Apart
  <2>2. ASSUME NEW t \in Sites, NEW i \in Nat, NEW f \in Envs, Owns(t, i, f)'
        PROVE  Works(t, f)'
    <3>1. Works(t, f)  BY <1>6, <2>2 DEF Apart
    <3>2. CASE f # e  BY <1>3, <1>4, <3>1, <3>2 DEF Works
    <3>3. CASE f = e  BY <1>2, <1>3, <1>4, <3>1, <3>3 DEF Works
    <3> QED  BY <3>2, <3>3
  <2>3. \A f \in Envs : session'[f] \subseteq session[f]  BY <1>4
  <2>4. \A f \in Envs : Retried[f] # {} => session'[f] \subseteq Retried[f]
    BY <2>3 DEF Apart
  <2> QED  BY <1>3, <2>1, <2>2, <2>4 DEF Apart
<1>9. Once'
  <2>1. \A t, u \in Sites, i, k \in Nat, f \in Envs :
          Owns(t, i, f)' /\ Owns(u, k, f)' => t = u /\ i = k
    BY <1>6 DEF Once
  <2>2. \A t \in Sites : \A i \in Positions(t)' : \A f, g \in queue'[t][i].env : f = g
    BY <1>3, <1>7 DEF Once
  <2> QED  BY <2>1, <2>2 DEF Once
<1>10. Restored'  BY <1>3, <1>4, <1>7 DEF Restored
<1>11. Known'
  <2> SUFFICES ASSUME NEW f \in Envs, env'[f] = "live"
               PROVE  \/ session'[f] # {} \/ f \in faulty \cup unadopted
                      \/ \E t \in Sites, i \in Nat : Owns(t, i, f)'
    BY <1>3 DEF Known, Sessions
  <2>1. f # e /\ env[f] = "live" /\ session'[f] = session[f]  BY <1>4
  <2>2. \/ session[f] # {} \/ f \in faulty \cup unadopted
        \/ \E t \in Sites, i \in Nat : Owns(t, i, f)
    BY <2>1 DEF Known, Sessions
  <2> QED  BY <1>6, <2>1, <2>2
<1>12. Drained'  BY <1>3, <1>7 DEF Drained
<1>13. StopsQueued'
  <2>1. ASSUME closing = "stopping", ~rejected, NEW t \in Sites, NEW f \in bySite'[t]
        PROVE  \E i \in Positions(t) : queue[t][i] = StopOp(f, "close")
    BY <1>4, <2>1 DEF StopsQueued
  <2>2. closing = "closed" => \A t \in Sites : bySite'[t] = {}  BY <1>4 DEF StopsQueued
  <2> QED  BY <1>3, <1>7, <2>1, <2>2 DEF StopsQueued
<1> QED  BY <1>4, <1>5, <1>8, <1>9, <1>10, <1>11, <1>12, <1>13

\* The first operation leaves the queue: what holds of those that stay.
LEMMA FirstLeaves ==
  ASSUME IInv, NEW s \in Sites, Busy(s), NEW ok \in BOOLEAN, Settled(s, ok)
  PROVE  /\ First(s) \in Op
         /\ First(s).do # "stop" => \A e \in First(s).env : Owns(s, 1, e)
         /\ \A e, f \in First(s).env : e = f
         /\ First(s).do = "start" =>
              \A e \in First(s).env : bySite[s] = {} /\ Retried[e] = {}
         /\ \A t \in Sites, i \in Nat, e \in Envs :
              Owns(t, i, e)' => \E k \in Nat : Owns(t, k, e) /\ ~(t = s /\ k = 1)
         /\ \A e \in Envs : (\E t \in Sites, i \in Nat : Owns(t, i, e)) =>
              \/ \E t \in Sites, i \in Nat : Owns(t, i, e)'
              \/ First(s).do # "stop" /\ e \in First(s).env
<1> USE DEF IInv, TypeOK
<1>1. queue' = [queue EXCEPT ![s] = Tail(@)]  BY DEF Settled
<1>2. 1 \in Positions(s) /\ First(s) = queue[s][1] /\ First(s) \in Op  BY <1>1, Popped
<1>3. First(s).do # "stop" => \A e \in First(s).env : Owns(s, 1, e)  BY <1>2 DEF Owns
<1>4. \A e, f \in First(s).env : e = f  BY <1>2 DEF Once
<1>5. First(s).do = "start" => \A e \in First(s).env : bySite[s] = {} /\ Retried[e] = {}
  BY <1>2 DEF Restored
<1>6. \A t \in Sites, i \in Nat, e \in Envs :
        Owns(t, i, e)' <=> IF t = s THEN i # 0 /\ Owns(s, i + 1, e) ELSE Owns(t, i, e)
  BY <1>1, OwnsPopped
<1>7. ASSUME NEW t \in Sites, NEW i \in Nat, NEW e \in Envs, Owns(t, i, e)'
      PROVE  \E k \in Nat : Owns(t, k, e) /\ ~(t = s /\ k = 1)
  <2>1. CASE t = s
    <3>1. Owns(s, i + 1, e) /\ i # 0  BY <1>6, <1>7, <2>1
    <3>2. i + 1 \in Nat /\ i + 1 # 1  BY <3>1
    <3> QED  BY <2>1, <3>1, <3>2
  <2>2. CASE t # s
    <3>1. Owns(t, i, e)  BY <1>6, <1>7, <2>2
    <3> QED  BY <2>2, <3>1
  <2> QED  BY <2>1, <2>2
<1>8. ASSUME NEW e \in Envs, NEW t \in Sites, NEW i \in Nat, Owns(t, i, e)
      PROVE  \/ \E u \in Sites, k \in Nat : Owns(u, k, e)'
             \/ First(s).do # "stop" /\ e \in First(s).env
  <2>1. CASE t # s
    <3>1. Owns(t, i, e)'  BY <1>6, <1>8, <2>1
    <3> QED  BY <3>1
  <2>2. CASE t = s /\ i = 1  BY <1>2, <1>8, <2>2 DEF Owns
  <2>3. CASE t = s /\ i # 1
    <3>1. i - 1 \in Nat /\ i - 1 # 0 /\ (i - 1) + 1 = i  BY <1>8, <2>3 DEF Owns, Positions
    <3>2. Owns(s, i - 1, e)'  BY <1>6, <1>8, <2>3, <3>1
    <3> QED  BY <3>1, <3>2
  <2> QED  BY <2>1, <2>2, <2>3
<1> QED  BY <1>2, <1>3, <1>4, <1>5, <1>7, <1>8

\* An environment becomes the preview of a site that has none.
LEMMA RegisterKeeps ==
  ASSUME IInv, NEW s \in Sites, Busy(s), First(s).do # "stop", bySite[s] = {},
         NEW e \in First(s).env, env[e] = "live", Registered(s, e), Settled(s, TRUE),
         UNCHANGED <<env, expired, unadopted, faulty>>
  PROVE  IInv'
<1> USE DEF IInv, TypeOK
<1>1. /\ QueueTyped' /\ WorkTyped' /\ Once' /\ Drained'
      /\ \A e1 \in First(s).env : Owns(s, 1, e1)
      /\ \A t \in Sites, i \in Nat, f \in Envs :
           Owns(t, i, f)' => \E k \in Nat : Owns(t, k, f) /\ ~(t = s /\ k = 1)
      /\ \A f \in Envs : (\E t \in Sites, i \in Nat : Owns(t, i, f)) =>
           \/ \E t \in Sites, i \in Nat : Owns(t, i, f)'
           \/ f \in First(s).env
      /\ \A f \in First(s).env : f = e
      /\ First(s) \in Op
  BY SettledKeeps, FirstLeaves
<1>2. e \in Envs /\ Owns(s, 1, e)  BY <1>1 DEF Op
<1>3. session[e] = {} /\ e \notin unadopted /\ Retried[e] \subseteq {s}
  <2>1. Works(s, e)  BY <1>2 DEF Apart
  <2>2. s \notin session[e]  BY <1>2 DEF Maps
  <2> QED  BY <2>1, <2>2 DEF Works
<1>4. /\ session' = [session EXCEPT ![e] = {s}]
      /\ bySite' = [bySite EXCEPT ![s] = {e}]
  BY DEF Registered
<1>5. /\ MapsTyped'
      /\ session'[e] = {s} /\ bySite'[s] = {e}
      /\ \A f \in Envs \ {e} : session'[f] = session[f]
      /\ \A t \in Sites \ {s} : bySite'[t] = bySite[t]
  BY <1>2, <1>4 DEF MapsTyped
<1>6. Maps'
  <2>1. \A t \in Sites : \A f, g \in bySite'[t] : f = g  BY <1>5 DEF Maps
  <2>2. ASSUME NEW f \in Envs, NEW t \in Sites
        PROVE  f \in bySite'[t] <=> t \in session'[f]
    <3>1. f \in bySite[t] <=> t \in session[f]  BY DEF Maps
    <3> QED  BY <1>3, <1>5, <3>1
  <2>3. \A f \in Envs : session'[f] # {} => env[f] = "live"
    BY <1>3, <1>5 DEF Maps, Sessions
  <2> QED  BY <2>1, <2>2, <2>3 DEF Maps, Sessions
<1>7. Apart'
  <2>1. ASSUME NEW f \in unadopted PROVE env[f] = "live" /\ session'[f] = {}
    <3>1. f \in Envs /\ f # e  BY <1>3, <2>1 DEF MapsTyped
    <3> QED  BY <1>5, <2>1, <3>1 DEF Apart
  <2>2. ASSUME NEW t \in Sites, NEW i \in Nat, NEW f \in Envs, Owns(t, i, f)'
        PROVE  Works(t, f)'
    <3>1. PICK k \in Nat : Owns(t, k, f) /\ ~(t = s /\ k = 1)  BY <1>1, <2>2
    <3>2. f # e  BY <1>2, <3>1 DEF Once
    <3>3. Works(t, f)  BY <3>1 DEF Apart
    <3> QED  BY <1>5, <3>2, <3>3 DEF Works
  <2>3. \A f \in Envs : Retried[f] # {} => session'[f] \subseteq Retried[f]
    BY <1>3, <1>5 DEF Apart
  <2> QED  BY <2>1, <2>2, <2>3 DEF Apart
<1>8. Known'
  <2> SUFFICES ASSUME NEW f \in Envs, env[f] = "live"
               PROVE  \/ session'[f] # {} \/ f \in faulty \cup unadopted
                      \/ \E t \in Sites, i \in Nat : Owns(t, i, f)'
    BY DEF Known, Sessions
  <2>1. CASE f = e  BY <1>5, <2>1
  <2>2. CASE f # e
    <3>1. \/ session[f] # {} \/ f \in faulty \cup unadopted
          \/ \E t \in Sites, i \in Nat : Owns(t, i, f)
      BY DEF Known, Sessions
    <3> QED  BY <1>1, <1>5, <2>2, <3>1
  <2> QED  BY <2>1, <2>2
<1>9. Restored' /\ StopsQueued'  BY <1>5, RestIsQueued
<1> QED  BY <1>1, <1>5, <1>6, <1>7, <1>8, <1>9

LEMMA RestoreKeeps ==
  ASSUME IInv, NEW s \in Sites, Restore(s)
  PROVE  IInv'
<1> USE DEF IInv, TypeOK
<1>1. PICK e \in Envs : /\ env[e] = "free" /\ Retried[e] = {} /\ env' = [env EXCEPT ![e] = "live"]
                        /\ queue' = [queue EXCEPT ![s][1].env = {e}]
  BY DEF Restore
<1>2. /\ Busy(s) /\ First(s).do = "start" /\ First(s).env = {} /\ bySite[s] = {}
      /\ UNCHANGED <<session, bySite, expired, sweep, seen, closing, drain, rejected, unadopted, faulty>>
  BY DEF Restore, Vacant, work
<1> DEFINE q == queue[s]
<1>3. q \in Seq(Op) /\ q # << >>  BY <1>2 DEF Busy, QueueTyped
<1>4. Len(q) \in Nat \ {0} /\ q[1] = First(s) /\ q[1] \in Op  BY <1>3 DEF First
<1>5. /\ queue' = [queue EXCEPT ![s] = [q EXCEPT ![1] = [q[1] EXCEPT !.env = {e}]]]
      /\ [q[1] EXCEPT !.env = {e}] \in Op
  BY <1>1, <1>4 DEF Op
<1>6. /\ queue'[s] = [q EXCEPT ![1] = [q[1] EXCEPT !.env = {e}]]
      /\ \A t \in Sites \ {s} : queue'[t] = queue[t]
  BY <1>5 DEF QueueTyped
<1>7. /\ [q EXCEPT ![1] = [q[1] EXCEPT !.env = {e}]] \in Seq(Op)
      /\ Len([q EXCEPT ![1] = [q[1] EXCEPT !.env = {e}]]) = Len(q)
  <2> DEFINE op == [q[1] EXCEPT !.env = {e}]
  <2>1. op \in Op  BY <1>5
  <2>2. 1 \in 1 .. Len(q)  BY <1>4
  <2> HIDE DEF op, q
  <2>3. [q EXCEPT ![1] = op] \in Seq(Op) /\ Len([q EXCEPT ![1] = op]) = Len(q)
    BY <1>3, <2>1, <2>2, ExceptSeq
  <2> QED  BY <2>3 DEF op
<1>8. QueueTyped'  BY <1>5, <1>7 DEF QueueTyped
<1>9. /\ Len(queue'[s]) = Len(q)
      /\ queue'[s][1] = [q[1] EXCEPT !.env = {e}]
      /\ \A i \in 2 .. Len(q) : queue'[s][i] = q[i]
  BY <1>3, <1>4, <1>6, <1>7
<1>10. queue'[s][1].do = "start" /\ queue'[s][1].env = {e}
  BY <1>2, <1>4, <1>9 DEF Op
<1>11. \A t \in Sites : \A i \in Positions(t)' :
         \/ t = s /\ i = 1
         \/ ~(t = s /\ i = 1) /\ i \in Positions(t) /\ queue'[t][i] = queue[t][i]
  BY <1>4, <1>6, <1>9 DEF Positions
<1>12. \A t \in Sites, i \in Nat, f \in Envs :
         Owns(t, i, f)' <=> Owns(t, i, f) \/ (t = s /\ i = 1 /\ f = e)
  <2>1. \A t \in Sites : Positions(t)' = Positions(t)  BY <1>6, <1>9 DEF Positions
  <2>2. 1 \in Positions(s) /\ \A f \in Envs : ~Owns(s, 1, f)  BY <1>2, <1>4 DEF Owns, Positions
  <2>3. \A f \in Envs : Owns(s, 1, f)' <=> f = e  BY <1>10, <2>1, <2>2 DEF Owns
  <2>4. ASSUME NEW t \in Sites, NEW i \in Nat, NEW f \in Envs, ~(t = s /\ i = 1)
        PROVE  Owns(t, i, f)' <=> Owns(t, i, f)
    BY <1>11, <2>1, <2>4 DEF Owns
  <2> QED  BY <2>2, <2>3, <2>4
<1>13. session[e] = {} /\ e \notin unadopted /\ \A t \in Sites, i \in Nat : ~Owns(t, i, e)
  BY <1>1 DEF Maps, Apart, Works, Sessions
<1>14. MapsTyped' /\ WorkTyped'  BY <1>1, <1>2 DEF MapsTyped, WorkTyped
<1>15. env'[e] = "live" /\ \A f \in Envs \ {e} : env'[f] = env[f]  BY <1>1 DEF MapsTyped
<1>16. Maps'  BY <1>2, <1>15 DEF Maps, Sessions
<1>17. Apart'
  <2>1. ASSUME NEW f \in unadopted PROVE env'[f] = "live" /\ session[f] = {}
    <3>1. f \in Envs  BY DEF MapsTyped
    <3> QED  BY <1>15, <2>1, <3>1 DEF Apart
  <2>2. ASSUME NEW t \in Sites, NEW i \in Nat, NEW f \in Envs, Owns(t, i, f)'
        PROVE  Works(t, f)'
    <3>1. CASE f = e  BY <1>1, <1>2, <1>13, <1>15, <3>1 DEF Works
    <3>2. CASE f # e
      <4>1. Works(t, f)  BY <1>12, <2>2, <3>2 DEF Apart
      <4> QED  BY <1>2, <1>15, <3>2, <4>1 DEF Works
    <3> QED  BY <3>1, <3>2
  <2> QED  BY <1>2, <2>1, <2>2 DEF Apart
<1>18. Once'
  <2>1. ASSUME NEW t \in Sites, NEW u \in Sites, NEW i \in Nat, NEW k \in Nat, NEW f \in Envs,
               Owns(t, i, f)', Owns(u, k, f)'
        PROVE  t = u /\ i = k
    BY <1>12, <1>13, <2>1 DEF Once
  <2>2. \A t \in Sites : \A i \in Positions(t)' : \A f, g \in queue'[t][i].env : f = g
    BY <1>10, <1>11 DEF Once
  <2> QED  BY <2>1, <2>2 DEF Once
<1>19. Restored'
  <2> SUFFICES ASSUME NEW t \in Sites, NEW i \in Positions(t)',
                      queue'[t][i].do = "start", queue'[t][i].env # {}
               PROVE  i = 1 /\ bySite[t] = {} /\ \A f \in queue'[t][i].env : Retried[f] = {}
    BY <1>2 DEF Restored
  <2> QED  BY <1>1, <1>2, <1>10, <1>11 DEF Restored
<1>20. Known'
  <2> SUFFICES ASSUME NEW f \in Envs, env'[f] = "live"
               PROVE  \/ session[f] # {} \/ f \in faulty \cup unadopted
                      \/ \E t \in Sites, i \in Nat : Owns(t, i, f)'
    BY <1>2 DEF Known, Sessions
  <2>1. CASE f = e
    <3>1. Owns(s, 1, f)'  BY <1>12, <2>1
    <3> QED  BY <3>1
  <2>2. CASE f # e
    <3>1. \/ session[f] # {} \/ f \in faulty \cup unadopted
          \/ \E t \in Sites, i \in Nat : Owns(t, i, f)
      BY <1>15, <2>2 DEF Known, Sessions
    <3> QED  BY <1>12, <3>1
  <2> QED  BY <2>1, <2>2
<1>21. 1 \in Positions(s) /\ queue[s][1].do = "start"  BY <1>2, <1>4 DEF Positions
<1>22. closing \notin {"stopping", "closed", "failed"}
  <2> SUFFICES ASSUME closing \in {"stopping", "closed", "failed"} PROVE FALSE  OBVIOUS
  <2>1. 1 <= drain[s] /\ drain[s] = 0  BY <1>21 DEF Drained
  <2> QED  BY <2>1
<1>23. Drained'
  <2>1. ASSUME closing # "open", NEW t \in Sites, NEW i \in Positions(t)', queue'[t][i].do # "stop"
        PROVE  i <= drain[t]
    BY <1>11, <1>21, <2>1 DEF Drained
  <2> QED  BY <1>2, <1>22, <2>1 DEF Drained
<1>24. StopsQueued'  BY <1>2, <1>22 DEF StopsQueued
<1> QED  BY <1>8, <1>14, <1>16, <1>17, <1>18, <1>19, <1>20, <1>23, <1>24

\* An operation ends without a preview: its environment, if any, was disposed of,
\* is known to resist, or was refused.
LEMMA FailureKeeps ==
  ASSUME IInv, NEW s \in Sites, Busy(s), First(s).do # "stop", Settled(s, FALSE),
         UNCHANGED <<session, bySite, expired>>, MapsTyped',
         \A f \in Envs \ First(s).env :
           env'[f] = env[f] /\ (f \in unadopted' <=> f \in unadopted),
         faulty \subseteq faulty',
         \A f \in First(s).env :
           \/ /\ env'[f] = env[f]
              /\ IF f \in unadopted' THEN env[f] = "live" /\ session[f] = {}
                 ELSE f \in faulty' \/ env[f] # "live" \/ session[f] # {}
           \/ env'[f] # "live" /\ session[f] = {} /\ f \notin unadopted'
  PROVE  IInv'
<1> USE DEF IInv, TypeOK
<1>1. /\ QueueTyped' /\ WorkTyped' /\ Once' /\ Drained'
      /\ \A e1 \in First(s).env : Owns(s, 1, e1)
      /\ \A t \in Sites, i \in Nat, f \in Envs :
           Owns(t, i, f)' => \E k \in Nat : Owns(t, k, f) /\ ~(t = s /\ k = 1)
      /\ \A f \in Envs : (\E t \in Sites, i \in Nat : Owns(t, i, f)) =>
           \/ \E t \in Sites, i \in Nat : Owns(t, i, f)'
           \/ f \in First(s).env
      /\ First(s) \in Op
  BY SettledKeeps, FirstLeaves
<1>2. First(s).env \subseteq Envs  BY <1>1 DEF Op
<1>4. Maps'
  <2>1. ASSUME NEW f \in Envs, session[f] # {} PROVE env'[f] = "live"
    <3>1. env[f] = "live"  BY <2>1 DEF Maps, Sessions
    <3> QED  BY <2>1, <3>1
  <2> QED  BY <2>1 DEF Maps, Sessions
<1>5. Apart'
  <2>1. ASSUME NEW f \in unadopted' PROVE env'[f] = "live" /\ session[f] = {}
    <3>1. f \in Envs  BY <2>1 DEF MapsTyped
    <3>2. CASE f \in First(s).env  BY <2>1, <3>2
    <3>3. CASE f \notin First(s).env  BY <2>1, <3>1, <3>3 DEF Apart
    <3> QED  BY <3>2, <3>3
  <2>2. ASSUME NEW t \in Sites, NEW i \in Nat, NEW f \in Envs, Owns(t, i, f)'
        PROVE  Works(t, f)'
    <3>1. PICK k \in Nat : Owns(t, k, f) /\ ~(t = s /\ k = 1)  BY <1>1, <2>2
    <3>2. f \notin First(s).env  BY <1>1, <3>1 DEF Once
    <3>3. Works(t, f)  BY <3>1 DEF Apart
    <3> QED  BY <3>2, <3>3 DEF Works
  <2> QED  BY <2>1, <2>2 DEF Apart
<1>6. Known'
  <2> SUFFICES ASSUME NEW f \in Envs, env'[f] = "live"
               PROVE  \/ session[f] # {} \/ f \in faulty' \cup unadopted'
                      \/ \E t \in Sites, i \in Nat : Owns(t, i, f)'
    BY DEF Known, Sessions
  <2>1. CASE f \in First(s).env  BY <2>1
  <2>2. CASE f \notin First(s).env
    <3>1. \/ session[f] # {} \/ f \in faulty \cup unadopted
          \/ \E t \in Sites, i \in Nat : Owns(t, i, f)
      BY <2>2 DEF Known, Sessions
    <3> QED  BY <1>1, <2>2, <3>1
  <2> QED  BY <2>1, <2>2
<1>7. Restored' /\ StopsQueued'  BY RestIsQueued
<1> QED  BY <1>1, <1>4, <1>5, <1>6, <1>7

\* A stop ends, whatever became of the preview it was for.
LEMMA StopKeeps ==
  ASSUME IInv, NEW s \in Sites, Busy(s), First(s).do = "stop", NEW ok \in BOOLEAN,
         Settled(s, ok), NEW e \in First(s).env, UNCHANGED unadopted,
         \/ session[e] # {} /\ Removed(e) /\ UNCHANGED faulty
         \/ session[e] = {} /\ UNCHANGED <<env, session, bySite, expired, faulty>>
         \/ ~ok /\ faulty' = faulty \cup {e} /\ UNCHANGED <<env, session, bySite, expired>>
  PROVE  IInv'
<1> USE DEF IInv, TypeOK
<1>1. /\ QueueTyped' /\ WorkTyped' /\ Once' /\ Drained'
      /\ \A e1, f \in First(s).env : e1 = f
      /\ \A t \in Sites, i \in Nat, f \in Envs : Owns(t, i, f)' => \E k \in Nat : Owns(t, k, f)
      /\ \A f \in Envs : (\E t \in Sites, i \in Nat : Owns(t, i, f)) =>
           \E t \in Sites, i \in Nat : Owns(t, i, f)'
      /\ First(s) \in Op
  BY SettledKeeps, FirstLeaves
<1>2. e \in Envs  BY <1>1 DEF Op
<1>3. rejected' = (rejected \/ (~ok /\ First(s).by = "close"))  BY DEF Settled
<1>4. /\ MapsTyped' /\ Maps'
      /\ \A t \in Sites : bySite'[t] \subseteq bySite[t]
      /\ \A f \in Envs \ {e} : env'[f] = env[f] /\ session'[f] = session[f]
      /\ faulty \subseteq faulty'
      /\ \/ /\ env'[e] = "gone" /\ session'[e] = {}
            /\ (\A t \in Sites : e \notin bySite'[t]) /\ session[e] # {}
         \/ UNCHANGED <<env, session, bySite>> /\ (session[e] = {} \/ ~ok)
  <2>1. CASE session[e] # {} /\ Removed(e) /\ UNCHANGED faulty
    BY <1>2, <2>1, RemovedKeeps
  <2>2. CASE UNCHANGED <<env, session, bySite, expired>> /\ (session[e] = {} \/ ~ok)
              /\ (UNCHANGED faulty \/ faulty' = faulty \cup {e})
    BY <1>2, <2>2 DEF MapsTyped, Maps, Sessions
  <2> QED  BY <2>1, <2>2
<1>5. Apart'
  <2>1. ASSUME NEW f \in Envs, env[f] = "live", session[f] = {}
        PROVE  env'[f] = "live" /\ session'[f] = {}
    BY <1>4, <2>1
  <2>2. \A f \in unadopted : f \in Envs /\ env[f] = "live" /\ session[f] = {}
    BY DEF Apart, MapsTyped
  <2>3. ASSUME NEW t \in Sites, NEW i \in Nat, NEW f \in Envs, Owns(t, i, f)'
        PROVE  Works(t, f)'
    <3>1. Works(t, f)  BY <1>1, <2>3 DEF Apart
    <3>2. CASE f # e  BY <1>4, <3>1, <3>2 DEF Works
    <3>3. CASE f = e  BY <1>4, <3>1, <3>3 DEF Works
    <3> QED  BY <3>2, <3>3
  <2>4. \A f \in Envs : session'[f] \subseteq session[f]  BY <1>4
  <2>5. \A f \in Envs : Retried[f] # {} => session'[f] \subseteq Retried[f]
    BY <2>4 DEF Apart
  <2> QED  BY <2>1, <2>2, <2>3, <2>5 DEF Apart
<1>6. Known'
  <2> SUFFICES ASSUME NEW f \in Envs, env'[f] = "live"
               PROVE  \/ session'[f] # {} \/ f \in faulty' \cup unadopted'
                      \/ \E t \in Sites, i \in Nat : Owns(t, i, f)'
    BY DEF Known, Sessions
  <2>1. env[f] = "live" /\ session'[f] = session[f]  BY <1>4
  <2>2. \/ session[f] # {} \/ f \in faulty \cup unadopted
        \/ \E t \in Sites, i \in Nat : Owns(t, i, f)
    BY <2>1 DEF Known, Sessions
  <2> QED  BY <1>1, <1>4, <2>1, <2>2
<1>7. Restored' /\ StopsQueued'
  <2>1. ASSUME NEW f \in bySite'[s], First(s) = StopOp(f, "close") PROVE rejected'
    <3>1. f = e /\ First(s).by = "close"  BY <1>1, <2>1 DEF StopOp
    <3>2. e \in bySite[s] /\ session[e] # {}  BY <1>2, <1>4, <2>1, <3>1 DEF Maps
    <3>3. ~ok  BY <1>4, <2>1, <3>1, <3>2
    <3> QED  BY <1>3, <3>1, <3>3
  <2> QED  BY <1>4, <2>1, RestIsQueued
<1> QED  BY <1>1, <1>4, <1>5, <1>6, <1>7

LEMMA OperationKeeps ==
  ASSUME IInv, NEW s \in Sites, Operation(s)
  PROVE  IInv'
<1> USE DEF IInv, TypeOK
<1>0. Busy(s) => First(s) \in Op
  <2> SUFFICES ASSUME Busy(s) PROVE First(s) \in Op  OBVIOUS
  <2>1. queue[s] \in Seq(Op) /\ queue[s] # << >>  BY DEF QueueTyped, Busy
  <2> QED  BY <2>1 DEF First
<1>1. CASE StopOld(s)  BY <1>1, StopOldKeeps
<1>2. CASE StopOldFails(s)
  <2>1. PICK e \in bySite[s] \cap Fragile : faulty' = faulty \cup {e}
    BY <1>2 DEF StopOldFails
  <2>2. /\ Busy(s) /\ First(s).do # "stop" /\ Settled(s, FALSE)
        /\ unadopted' = unadopted \cup {f \in First(s).env : env[f] = "live" /\ session[f] = {}}
        /\ UNCHANGED <<env, session, bySite, expired>>
    BY <1>2 DEF StopOldFails
  <2>3. First(s).env \subseteq Envs  BY <1>0, <2>2 DEF Op
  <2>4. MapsTyped'  BY <2>1, <2>2, <2>3 DEF MapsTyped
  <2>5. \A f \in First(s).env : f \notin unadopted
    <3>1. \A f \in First(s).env : Owns(s, 1, f)  BY <2>2, FirstLeaves
    <3> QED  BY <2>3, <3>1 DEF Apart, Works
  <2> QED  BY <2>1, <2>2, <2>4, <2>5, FailureKeeps
<1>3. CASE AdoptReady(s)
  <2>1. PICK e \in First(s).env : env[e] = "live" /\ Registered(s, e)
    BY <1>3 DEF AdoptReady, Showing
  <2>2. /\ Busy(s) /\ First(s).do # "stop" /\ bySite[s] = {} /\ Settled(s, TRUE)
        /\ UNCHANGED <<env, expired, unadopted, faulty>>
    BY <1>3 DEF AdoptReady, Vacant
  <2> QED  BY <2>1, <2>2, RegisterKeeps
<1>4. CASE Restore(s)  BY <1>4, RestoreKeeps
<1>5. CASE RestoreFails(s)
  <2>1. /\ Busy(s) /\ First(s).do # "stop" /\ First(s).env = {} /\ Settled(s, FALSE)
        /\ UNCHANGED <<env, session, bySite, expired, unadopted, faulty>>
    BY <1>5 DEF RestoreFails
  <2>2. MapsTyped'  BY <2>1 DEF MapsTyped
  <2> QED  BY <2>1, <2>2, FailureKeeps
<1>6. CASE PreviewReady(s)
  <2>1. PICK e \in First(s).env : Registered(s, e)  BY <1>6 DEF PreviewReady
  <2>2. /\ Busy(s) /\ First(s).do = "start" /\ Settled(s, TRUE)
        /\ UNCHANGED <<env, expired, unadopted, faulty>>
    BY <1>6 DEF PreviewReady
  <2>3. bySite[s] = {} /\ Retried[e] = {} /\ Owns(s, 1, e)  BY <2>1, <2>2, FirstLeaves
  <2>4. e \in Envs  BY <1>0, <2>1, <2>2 DEF Op
  <2>5. env[e] = "live"  BY <2>3, <2>4 DEF Apart, Works
  <2> QED  BY <2>1, <2>2, <2>3, <2>5, RegisterKeeps
<1>7. CASE PreviewFails(s)
  <2>1. PICK e \in First(s).env : Disposed(e)  BY <1>7 DEF PreviewFails
  <2>2. /\ Busy(s) /\ First(s).do = "start" /\ Settled(s, FALSE)
        /\ UNCHANGED <<session, bySite, expired, unadopted>>
    BY <1>7 DEF PreviewFails
  <2>3. /\ First(s).env \subseteq Envs /\ \A f \in First(s).env : f = e
        /\ \A f \in First(s).env : Owns(s, 1, f) /\ Retried[f] = {}
    <3>1. First(s).env \subseteq Envs  BY <1>0, <2>2 DEF Op
    <3>2. /\ \A f, g \in First(s).env : f = g
          /\ \A f \in First(s).env : Owns(s, 1, f) /\ Retried[f] = {}
      BY <2>2, FirstLeaves
    <3> QED  BY <3>1, <3>2
  <2>4. e \in Envs /\ e \notin unadopted /\ session[e] = {}  BY <2>3 DEF Apart, Works
  <2>5. \/ env' = [env EXCEPT ![e] = "gone"] /\ UNCHANGED faulty
        \/ faulty' = faulty \cup {e} /\ UNCHANGED env
    BY <2>1 DEF Disposed
  <2>6. MapsTyped'  BY <2>2, <2>4, <2>5 DEF MapsTyped
  <2>7. \A f \in Envs \ First(s).env : env'[f] = env[f]  BY <2>1, <2>5 DEF MapsTyped
  <2>8. \/ env'[e] = env[e] /\ e \in faulty' /\ e \notin unadopted'
        \/ env'[e] # "live" /\ session[e] = {} /\ e \notin unadopted'
    BY <2>2, <2>4, <2>5 DEF MapsTyped
  <2>9. faulty \subseteq faulty'  BY <2>5
  <2> QED  BY <2>2, <2>3, <2>6, <2>7, <2>8, <2>9, FailureKeeps
<1>8. CASE RunStop(s)
  <2>1. PICK e \in First(s).env :
          IF session[e] = {} THEN UNCHANGED <<env, session, bySite, expired>> ELSE Removed(e)
    BY <1>8 DEF RunStop
  <2>2. /\ Busy(s) /\ First(s).do = "stop" /\ Settled(s, TRUE) /\ UNCHANGED <<unadopted, faulty>>
    BY <1>8 DEF RunStop
  <2> QED  BY <2>1, <2>2, StopKeeps
<1>9. CASE RunStopFails(s)
  <2>1. PICK e \in First(s).env : faulty' = faulty \cup {e}  BY <1>9 DEF RunStopFails
  <2>2. /\ Busy(s) /\ First(s).do = "stop" /\ Settled(s, FALSE)
        /\ UNCHANGED <<env, session, bySite, expired, unadopted>>
    BY <1>9 DEF RunStopFails
  <2> QED  BY <2>1, <2>2, StopKeeps
<1>10. CASE AdoptRefused(s)
  <2>1. PICK e \in First(s).env : env[e] # "live"  BY <1>10 DEF AdoptRefused, Showing
  <2>2. /\ Busy(s) /\ First(s).do # "stop" /\ Settled(s, FALSE)
        /\ UNCHANGED <<env, session, bySite, expired, unadopted, faulty>>
    BY <1>10 DEF AdoptRefused
  <2>3. MapsTyped'  BY <2>2 DEF MapsTyped
  <2>4. \A f \in First(s).env : f = e /\ Owns(s, 1, f)
    <3>1. \A f \in First(s).env : Owns(s, 1, f)  BY <2>2, FirstLeaves
    <3>2. \A f, g \in First(s).env : f = g  BY <2>2, FirstLeaves
    <3> QED  BY <2>1, <3>1, <3>2
  <2>5. e \in Envs /\ e \notin unadopted  BY <1>0, <2>1, <2>2, <2>4 DEF Op, Apart, Works
  <2> QED  BY <2>1, <2>2, <2>3, <2>4, <2>5, FailureKeeps
<1> QED  BY <1>1, <1>2, <1>3, <1>4, <1>5, <1>6, <1>7, <1>8, <1>9, <1>10 DEF Operation

-----------------------------------------------------------------------------
(* Requests *)

\* An environment that nobody works on is handed over: it joins a queue or is
\* refused.
LEMMA HandedOver ==
  ASSUME IInv, NEW s \in Sites, NEW e \in Envs,
         Retried[e] \subseteq {s}, session[e] \subseteq {s},
         \A t \in Sites, i \in Nat : ~Owns(t, i, e),
         \/ env[e] = "free" /\ env' = [env EXCEPT ![e] = "live"]
         \/ env[e] # "free" /\ Retried[e] # {} /\ ~Closed /\ UNCHANGED env,
         \/ ~Closed /\ Queued(s, AdoptOp(e)) /\ unadopted' = unadopted \ {e}
         \/ Closed /\ unadopted' = unadopted \cup {e} /\ UNCHANGED queue,
         UNCHANGED <<session, bySite, expired, sweep, seen, closing, drain, rejected, faulty>>
  PROVE  IInv'
<1> USE DEF IInv, TypeOK
<1>1. MapsTyped' /\ WorkTyped'  BY DEF MapsTyped, WorkTyped
<1>2. /\ \A f \in Envs \ {e} : env'[f] = env[f]
      /\ env'[e] # "free"
      /\ \/ env'[e] = "live" /\ session[e] = {}
         \/ env'[e] = env[e] /\ Retried[e] # {} /\ ~Closed
  BY DEF MapsTyped, Maps, Sessions
<1>3. Maps'  BY <1>2 DEF Maps, Sessions
<1>6. ASSUME e \notin unadopted' PROVE Works(s, e)'  BY <1>2, <1>6 DEF Works
<1>7. \A t \in Sites, f \in Envs \ {e} : Works(t, f) => Works(t, f)'
  <2>1. \A f \in Envs \ {e} : f \in unadopted' <=> f \in unadopted  OBVIOUS
  <2> QED  BY <1>2, <2>1 DEF Works
<1>8. \A f \in Envs : Retried[f] # {} => session[f] \subseteq Retried[f]  BY DEF Apart
<1>4. CASE ~Closed /\ Queued(s, AdoptOp(e)) /\ unadopted' = unadopted \ {e}
  <2>1. AdoptOp(e) \in Op /\ AdoptOp(e).do = "adopt" /\ AdoptOp(e).env = {e}
    BY DEF AdoptOp, Op
  <2>2. /\ QueueTyped'
        /\ \A t \in Sites \ {s} : queue'[t] = queue[t]
        /\ Len(queue'[s]) = Len(queue[s]) + 1
        /\ queue'[s][Len(queue[s]) + 1] = AdoptOp(e)
        /\ \A i \in Positions(s) : queue'[s][i] = queue[s][i]
    BY <1>4, <2>1, Appended
  <2>3. PICK last \in Nat : last = Len(queue[s]) + 1  BY DEF QueueTyped
  <2>4. \A t \in Sites, i \in Nat, f \in Envs :
          Owns(t, i, f)' <=> Owns(t, i, f) \/ (t = s /\ i = last /\ f = e)
    BY <1>4, <2>1, <2>3, OwnsAppended
  <2>5. \A t \in Sites : \A i \in Positions(t)' :
          \/ i \in Positions(t) /\ queue'[t][i] = queue[t][i]
          \/ t = s /\ i = last /\ queue'[t][i] = AdoptOp(e)
    <3>1. Len(queue[s]) \in Nat  BY DEF QueueTyped
    <3> QED  BY <2>2, <2>3, <3>1 DEF Positions
  <2>6. Apart'
    <3>1. \A f \in unadopted' : env'[f] = "live" /\ session[f] = {}
      BY <1>2, <1>4 DEF Apart, MapsTyped
    <3>2. ASSUME NEW t \in Sites, NEW i \in Nat, NEW f \in Envs, Owns(t, i, f)'
          PROVE  Works(t, f)'
      <4>1. CASE f = e  BY <1>4, <1>6, <2>4, <3>2, <4>1
      <4>2. CASE f # e
        <5>1. Works(t, f)  BY <2>4, <3>2, <4>2 DEF Apart
        <5> QED  BY <1>7, <4>2, <5>1
      <4> QED  BY <4>1, <4>2
    <3> QED  BY <1>8, <3>1, <3>2 DEF Apart
  <2>7. Once'
    <3>1. ASSUME NEW t \in Sites, NEW u \in Sites, NEW i \in Nat, NEW k \in Nat, NEW f \in Envs,
                 Owns(t, i, f)', Owns(u, k, f)'
          PROVE  t = u /\ i = k
      <4>1. CASE f = e  BY <2>4, <3>1, <4>1
      <4>2. CASE f # e  BY <2>4, <3>1, <4>2 DEF Once
      <4> QED  BY <4>1, <4>2
    <3>2. \A t \in Sites : \A i \in Positions(t)' : \A f, g \in queue'[t][i].env : f = g
      BY <2>1, <2>5 DEF Once
    <3> QED  BY <3>1, <3>2 DEF Once
  <2>8. Restored'
    <3> SUFFICES ASSUME NEW t \in Sites, NEW i \in Positions(t)',
                        queue'[t][i].do = "start", queue'[t][i].env # {}
                 PROVE  i = 1 /\ bySite[t] = {} /\ \A f \in queue'[t][i].env : Retried[f] = {}
      BY DEF Restored
    <3>1. i \in Positions(t) /\ queue'[t][i] = queue[t][i]  BY <2>1, <2>5
    <3> QED  BY <3>1 DEF Restored
  <2>9. Known'
    <3> SUFFICES ASSUME NEW f \in Envs, env'[f] = "live"
                 PROVE  \/ session[f] # {} \/ f \in faulty \cup unadopted'
                        \/ \E t \in Sites, i \in Nat : Owns(t, i, f)'
      BY DEF Known, Sessions
    <3>1. CASE f = e
      <4>1. Owns(s, last, f)'  BY <2>3, <2>4, <3>1
      <4> QED  BY <2>3, <4>1
    <3>2. CASE f # e
      <4>1. \/ session[f] # {} \/ f \in faulty \cup unadopted
            \/ \E t \in Sites, i \in Nat : Owns(t, i, f)
        BY <1>2, <3>2 DEF Known, Sessions
      <4> QED  BY <1>4, <2>4, <3>2, <4>1
    <3> QED  BY <3>1, <3>2
  <2>10. closing = "open"  BY <1>4 DEF Closed
  <2> QED
    BY <1>1, <1>3, <2>2, <2>6, <2>7, <2>8, <2>9, <2>10 DEF Drained, StopsQueued
<1>5. CASE Closed /\ unadopted' = unadopted \cup {e} /\ UNCHANGED queue
  <2>1. \A t \in Sites, i \in Nat, f \in Envs : Owns(t, i, f)' <=> Owns(t, i, f)
    BY <1>5, QueuesApart
  <2>2. QueueTyped' /\ \A t \in Sites : Positions(t)' = Positions(t)
    BY <1>5 DEF QueueTyped, Positions
  <2>3. Apart'
    <3>1. \A f \in unadopted' : env'[f] = "live" /\ session[f] = {}
      BY <1>2, <1>5 DEF Apart, MapsTyped
    <3>2. ASSUME NEW t \in Sites, NEW i \in Nat, NEW f \in Envs, Owns(t, i, f)'
          PROVE  Works(t, f)'
      <4>1. Works(t, f) /\ f # e  BY <2>1, <3>2 DEF Apart
      <4> QED  BY <1>7, <4>1
    <3> QED  BY <1>8, <3>1, <3>2 DEF Apart
  <2>4. Once'
    <3>1. \A t, u \in Sites, i, k \in Nat, f \in Envs :
            Owns(t, i, f)' /\ Owns(u, k, f)' => t = u /\ i = k
      BY <2>1 DEF Once
    <3>2. \A t \in Sites : \A i \in Positions(t)' : \A f, g \in queue'[t][i].env : f = g
      BY <1>5, <2>2 DEF Once
    <3> QED  BY <3>1, <3>2 DEF Once
  <2>5. Known'
    <3> SUFFICES ASSUME NEW f \in Envs, env'[f] = "live"
                 PROVE  \/ session[f] # {} \/ f \in faulty \cup unadopted'
                        \/ \E t \in Sites, i \in Nat : Owns(t, i, f)'
      BY DEF Known, Sessions
    <3>1. CASE f = e  BY <1>5, <3>1
    <3>2. CASE f # e
      <4>1. \/ session[f] # {} \/ f \in faulty \cup unadopted
            \/ \E t \in Sites, i \in Nat : Owns(t, i, f)
        BY <1>2, <3>2 DEF Known, Sessions
      <4> QED  BY <1>5, <2>1, <4>1
    <3> QED  BY <3>1, <3>2
  <2>6. Restored' /\ Drained' /\ StopsQueued'
    BY <1>5, <2>2 DEF Restored, Drained, StopsQueued
  <2> QED  BY <1>1, <1>3, <2>2, <2>3, <2>4, <2>5, <2>6
<1> QED  BY <1>4, <1>5

\* Nothing the maps and queues speak of changes, unless an environment nobody
\* works on is destroyed, or a stage of close() begins.
LEMMA QuietKeeps ==
  ASSUME IInv, UNCHANGED <<session, bySite, queue, rejected>>, MapsTyped', WorkTyped',
         \/ UNCHANGED <<env, unadopted, faulty>>
         \/ \E e \in unadopted : unadopted' = unadopted \ {e} /\ Disposed(e),
         \/ UNCHANGED <<closing, drain>>
         \/ closing' = "draining" /\ drain' = PendingNow
         \/ /\ closing = "stopping" /\ ~AwaitsStops /\ UNCHANGED drain
            /\ closing' = IF rejected THEN "failed" ELSE "closed"
  PROVE  IInv'
<1> USE DEF IInv, TypeOK
<1>1. \A t \in Sites, i \in Nat, f \in Envs : Owns(t, i, f)' <=> Owns(t, i, f)
  BY QueuesApart
<1>2. QueueTyped' /\ \A t \in Sites : Positions(t)' = Positions(t)
  BY DEF QueueTyped, Positions
<1>3. /\ \A f \in Envs :
           \/ env'[f] = env[f] /\ (f \in unadopted' <=> f \in unadopted)
           \/ f \in unadopted /\ f \notin unadopted' /\ (env'[f] = "gone" \/ f \in faulty')
      /\ faulty \subseteq faulty'
      /\ \A f \in Envs : env'[f] = env[f] \/ f \in unadopted
  BY DEF Disposed, MapsTyped
<1>4. Maps'
  <2>1. \A f \in Envs : session[f] # {} => env'[f] = "live"
    BY <1>3 DEF Maps, Sessions, Apart
  <2> QED  BY <2>1 DEF Maps, Sessions
<1>5. Apart'
  <2>1. \A f \in unadopted' : env'[f] = "live" /\ session[f] = {}
    BY <1>3 DEF Apart, MapsTyped
  <2>2. ASSUME NEW t \in Sites, NEW i \in Nat, NEW f \in Envs, Owns(t, i, f)'
        PROVE  Works(t, f)'
    <3>1. Works(t, f)  BY <1>1, <2>2 DEF Apart
    <3> QED  BY <1>3, <3>1 DEF Works
  <2> QED  BY <2>1, <2>2 DEF Apart
<1>6. Once'
  <2>1. \A t, u \in Sites, i, k \in Nat, f \in Envs :
          Owns(t, i, f)' /\ Owns(u, k, f)' => t = u /\ i = k
    BY <1>1 DEF Once
  <2>2. \A t \in Sites : \A i \in Positions(t)' : \A f, g \in queue'[t][i].env : f = g
    BY <1>2 DEF Once
  <2> QED  BY <2>1, <2>2 DEF Once
<1>7. Known'
  <2> SUFFICES ASSUME NEW f \in Envs, env'[f] = "live"
               PROVE  \/ session[f] # {} \/ f \in faulty' \cup unadopted'
                      \/ \E t \in Sites, i \in Nat : Owns(t, i, f)'
    BY DEF Known, Sessions
  <2>1. \/ session[f] # {} \/ f \in faulty \cup unadopted
        \/ \E t \in Sites, i \in Nat : Owns(t, i, f)
    BY <1>3 DEF Known, Sessions
  <2> QED  BY <1>1, <1>3, <2>1
<1>8. Restored'  BY <1>2 DEF Restored
<1>9. CASE UNCHANGED <<closing, drain>>
  <2>1. Drained' /\ StopsQueued'  BY <1>2, <1>9 DEF Drained, StopsQueued
  <2> QED  BY <1>2, <1>4, <1>5, <1>6, <1>7, <1>8, <2>1
<1>10. CASE closing' = "draining" /\ drain' = PendingNow
  <2>1. \A t \in Sites : drain'[t] = Len(queue[t])  BY <1>10 DEF PendingNow
  <2>2. Drained'
    <3>1. \A t \in Sites : \A i \in Positions(t)' : i <= drain'[t]  BY <1>2, <2>1 DEF Positions
    <3> QED  BY <1>10, <3>1 DEF Drained
  <2>3. StopsQueued'  BY <1>10 DEF StopsQueued
  <2> QED  BY <1>2, <1>4, <1>5, <1>6, <1>7, <1>8, <2>2, <2>3
<1>11. CASE /\ closing = "stopping" /\ ~AwaitsStops /\ UNCHANGED drain
            /\ closing' = IF rejected THEN "failed" ELSE "closed"
  <2>1. Drained'  BY <1>2, <1>11 DEF Drained
  <2>2. ASSUME ~rejected, NEW t \in Sites PROVE bySite[t] = {}
    <3> SUFFICES ASSUME NEW e \in bySite[t] PROVE FALSE  OBVIOUS
    <3>1. PICK i \in Positions(t) : queue[t][i] = StopOp(e, "close")
      BY <1>11, <2>2 DEF StopsQueued
    <3>2. queue[t][i].by = "close" /\ i \in DOMAIN queue[t]
      BY <3>1 DEF StopOp, Positions, QueueTyped
    <3> QED  BY <1>11, <3>2 DEF AwaitsStops
  <2>3. StopsQueued'  BY <1>11, <2>2 DEF StopsQueued
  <2> QED  BY <1>2, <1>4, <1>5, <1>6, <1>7, <1>8, <2>1, <2>3
<1> QED  BY <1>9, <1>10, <1>11

-----------------------------------------------------------------------------
(* The last part of close(), and the whole *)

\* A stop is queued for every preview there is, after what is left in the queues.
LEMMA StopAllKeeps ==
  ASSUME IInv, StopAll
  PROVE  IInv'
<1> USE DEF IInv, TypeOK
<1>1. /\ closing = "draining" /\ closing' = "stopping" /\ \A s \in Sites : drain[s] = 0
      /\ UNCHANGED <<env, session, bySite, expired, sweep, seen, drain, rejected, unadopted, faulty>>
  BY DEF StopAll
<1> DEFINE stop(s) == StopOp(CHOOSE e \in bySite[s] : TRUE, "close")
           longer(s) == queue[s] \o (IF Vacant(s) THEN << >> ELSE <<stop(s)>>)
<1>0. queue' = [s \in Sites |-> longer(s)]  BY DEF StopAll
<1> HIDE DEF longer
<1>20. DOMAIN queue' = Sites /\ queue' = [s \in Sites |-> queue'[s]]
  BY <1>0
<1>21. \A s \in Sites : queue'[s] = longer(s)  BY <1>0
<1>2. ASSUME NEW s \in Sites
      PROVE  /\ queue'[s] \in Seq(Op) /\ queue[s] \in Seq(Op)
             /\ \A i \in Positions(s)' :
                  \/ i \in Positions(s) /\ queue'[s][i] = queue[s][i]
                  \/ i \notin Positions(s) /\ queue'[s][i].do = "stop"
                     /\ \A e, f \in queue'[s][i].env : e = f
             /\ \A i \in Positions(s) : i \in Positions(s)' /\ queue'[s][i] = queue[s][i]
             /\ \A e \in bySite[s] : \E i \in Positions(s)' : queue'[s][i] = StopOp(e, "close")
  <2> DEFINE q == queue[s]
  <2>1. q \in Seq(Op)  BY DEF QueueTyped
  <2>2. queue'[s] = longer(s)  BY <1>21
  <2>5. bySite[s] = {} => queue'[s] = q \o << >>  BY <2>2, Zenon DEF longer, Vacant
  <2>6. bySite[s] # {} => queue'[s] = q \o <<stop(s)>>  BY <2>2, Zenon DEF longer, Vacant
  <2>3. CASE bySite[s] = {}
    <3>1. queue'[s] = q  BY <2>1, <2>3, <2>5
    <3> QED  BY <2>1, <2>3, <3>1 DEF Positions
  <2>4. CASE bySite[s] # {}
    <3>1. PICK e \in bySite[s] : stop(s) = StopOp(e, "close")  BY <2>4
    <3>2. e \in Envs /\ \A f \in bySite[s] : f = e  BY DEF MapsTyped, Maps
    <3>3. stop(s) \in Op /\ stop(s).do = "stop" /\ stop(s).env = {e}
      BY <3>1, <3>2 DEF StopOp, Op
    <3>4. PICK op \in Op : op = stop(s)  BY <3>3
    <3> HIDE DEF q, stop
    <3>5. queue'[s] = q \o <<op>>  BY <2>4, <2>6, <3>4
    <3>6. /\ q \o <<op>> \in Seq(Op) /\ Len(q \o <<op>>) = Len(q) + 1 /\ Len(q) \in Nat
          /\ \A i \in 1 .. Len(q) : (q \o <<op>>)[i] = q[i]
          /\ (q \o <<op>>)[Len(q) + 1] = op
      BY <2>1
    <3>7. /\ queue'[s] \in Seq(Op) /\ Len(queue'[s]) = Len(q) + 1
          /\ \A i \in 1 .. Len(q) : queue'[s][i] = q[i]
          /\ queue'[s][Len(q) + 1] = op
      BY <3>5, <3>6
    <3>8. \A i \in 1 .. Len(queue'[s]) :
            \/ i \in 1 .. Len(q) /\ queue'[s][i] = q[i]
            \/ i \notin 1 .. Len(q) /\ queue'[s][i] = op
      BY <3>6, <3>7
    <3>9. \A i \in 1 .. Len(q) : i \in 1 .. Len(queue'[s]) /\ queue'[s][i] = q[i]
      BY <3>6, <3>7
    <3>10. \A f \in bySite[s] : \E i \in 1 .. Len(queue'[s]) : queue'[s][i] = StopOp(f, "close")
      <4>1. Len(q) + 1 \in 1 .. Len(queue'[s])  BY <3>6, <3>7
      <4>2. \A f \in bySite[s] : queue'[s][Len(q) + 1] = StopOp(f, "close")
        BY <3>1, <3>2, <3>4, <3>7
      <4> QED  BY <4>1, <4>2
    <3> QED  BY <2>1, <3>3, <3>4, <3>7, <3>8, <3>9, <3>10 DEF Positions, q
  <2> QED  BY <2>3, <2>4
<1>3. QueueTyped'
  <2> QED  BY <1>2, <1>20 DEF QueueTyped
<1>4. MapsTyped' /\ WorkTyped'  BY <1>1 DEF MapsTyped, WorkTyped
<1>5. \A s \in Sites, i \in Nat, e \in Envs : Owns(s, i, e)' <=> Owns(s, i, e)
  BY <1>2 DEF Owns
<1>6. Maps'  BY <1>1 DEF Maps, Sessions
<1>7. Apart'  BY <1>1, <1>5 DEF Apart, Works
<1>8. Once'
  <2>1. \A s, t \in Sites, i, k \in Nat, e \in Envs :
          Owns(s, i, e)' /\ Owns(t, k, e)' => s = t /\ i = k
    BY <1>5 DEF Once
  <2>2. \A s \in Sites : \A i \in Positions(s)' : \A e, f \in queue'[s][i].env : e = f
    BY <1>2 DEF Once
  <2> QED  BY <2>1, <2>2 DEF Once
<1>9. Restored'
  <2> SUFFICES ASSUME NEW s \in Sites, NEW i \in Positions(s)',
                      queue'[s][i].do = "start", queue'[s][i].env # {}
               PROVE  i = 1 /\ bySite[s] = {} /\ \A e \in queue'[s][i].env : Retried[e] = {}
    BY <1>1 DEF Restored
  <2>1. i \in Positions(s) /\ queue'[s][i] = queue[s][i]  BY <1>2
  <2> QED  BY <2>1 DEF Restored
<1>10. Known'
  <2> SUFFICES ASSUME NEW e \in Envs, env[e] = "live", e \notin Sessions \cup faulty \cup unadopted
               PROVE  \E s \in Sites, i \in Nat : Owns(s, i, e)'
    BY <1>1 DEF Known, Sessions
  <2> QED  BY <1>5 DEF Known
<1>11. Drained'
  <2>1. ASSUME NEW s \in Sites, NEW i \in Positions(s)', queue'[s][i].do # "stop"
        PROVE  i <= drain[s]
    <3>1. i \in Positions(s) /\ queue'[s][i] = queue[s][i]  BY <1>2, <2>1
    <3> QED  BY <1>1, <2>1, <3>1 DEF Drained
  <2> QED  BY <1>1, <2>1 DEF Drained
<1>12. StopsQueued'  BY <1>1, <1>2 DEF StopsQueued
<1> QED  BY <1>3, <1>4, <1>6, <1>7, <1>8, <1>9, <1>10, <1>11, <1>12

LEMMA IInvInit == Init => IInv
<1> SUFFICES ASSUME Init PROVE IInv  OBVIOUS
<1> USE DEF Init
<1>1. MapsTyped  BY DEF MapsTyped
<1>2. QueueTyped
  <2>1. << >> \in Seq(Op)  OBVIOUS
  <2> QED  BY <2>1 DEF QueueTyped
<1>3. WorkTyped  BY DEF WorkTyped
<1>4. \A s \in Sites : queue[s] = << >> /\ Positions(s) = {}  BY DEF Positions
<1>5. Maps /\ Known  BY DEF Maps, Known, Sessions
<1>6. Apart /\ Once /\ Restored  BY <1>4 DEF Apart, Once, Restored, Owns
<1>7. Drained /\ StopsQueued  BY DEF Drained, StopsQueued
<1> QED  BY <1>1, <1>2, <1>3, <1>5, <1>6, <1>7 DEF IInv, TypeOK

LEMMA IInvNext == IInv /\ [Next]_vars => IInv'
<1> SUFFICES ASSUME IInv, [Next]_vars PROVE IInv'  OBVIOUS
<1> USE DEF IInv, TypeOK
<1>1. ASSUME NEW s \in Sites, Start(s) PROVE IInv'
  <2>1. PICK op : op = [do |-> "start", env |-> {}, by |-> "client"]  OBVIOUS
  <2>2. op \in Op /\ op.do = "start" /\ op.env = {}  BY <2>1 DEF Op
  <2>3. /\ ~Closed /\ Queued(s, op)
        /\ UNCHANGED <<env, session, bySite, expired, sweep, seen, closing, drain, rejected, unadopted, faulty>>
    BY <1>1, <2>1 DEF Start, work
  <2>4. MapsTyped' /\ WorkTyped'  BY <2>3 DEF MapsTyped, WorkTyped
  <2> QED  BY <2>2, <2>3, <2>4, Joins
<1>2. ASSUME NEW s \in Sites, NEW e \in Envs, Adopt(s, e) PROVE IInv'
  <2>1. /\ env[e] = "free" /\ Retried[e] \subseteq {s} /\ env' = [env EXCEPT ![e] = "live"]
        /\ \/ ~Closed /\ Queued(s, AdoptOp(e)) /\ UNCHANGED unadopted
           \/ Closed /\ unadopted' = unadopted \cup {e} /\ UNCHANGED queue
        /\ UNCHANGED <<session, bySite, expired, sweep, seen, closing, drain, rejected, faulty>>
    BY <1>2 DEF Adopt, work
  <2>2. session[e] = {} /\ e \notin unadopted /\ \A t \in Sites, i \in Nat : ~Owns(t, i, e)
    BY <2>1 DEF Maps, Sessions, Apart, Works
  <2>3. unadopted = unadopted \ {e}  BY <2>2
  <2> QED  BY <2>1, <2>2, <2>3, HandedOver
<1>3. ASSUME NEW s \in Sites, NEW e \in Envs, AdoptAgain(s, e) PROVE IInv'
  <2>1. /\ s \in Retried[e] /\ env[e] # "free" /\ ~Pending(e) /\ ~Closed /\ Queued(s, AdoptOp(e))
        /\ unadopted' = unadopted \ {e}
        /\ UNCHANGED <<env, session, bySite, expired, sweep, seen, closing, drain, rejected, faulty>>
    BY <1>3 DEF AdoptAgain, work
  <2>2. Retried[e] \subseteq {s}  BY <2>1, PreviewAssumption
  <2>3. session[e] \subseteq {s}  BY <2>1, <2>2 DEF Apart
  <2>4. \A t \in Sites, i \in Nat : ~Owns(t, i, e)
    BY <2>1 DEF Pending, Owns, Positions, QueueTyped
  <2> QED  BY <2>1, <2>2, <2>3, <2>4, HandedOver
<1>4. ASSUME NEW e \in Envs, Discard(e) PROVE IInv'
  <2>1. /\ e \in unadopted /\ unadopted' = unadopted \ {e} /\ Disposed(e)
        /\ UNCHANGED <<session, bySite, queue, expired, sweep, seen, closing, drain, rejected>>
    BY <1>4 DEF Discard, work
  <2>2. MapsTyped' /\ WorkTyped'  BY <2>1 DEF MapsTyped, WorkTyped, Disposed
  <2> QED  BY <2>1, <2>2, QuietKeeps
<1>5. ASSUME NEW e \in Envs, Stop(e) PROVE IInv'
  <2>1. PICK s \in session[e] : Queued(s, StopOp(e, "client"))  BY <1>5 DEF Stop
  <2>2. s \in Sites  BY DEF MapsTyped
  <2>3. PICK op : op = StopOp(e, "client")  OBVIOUS
  <2>4. op \in Op /\ op.do = "stop" /\ op.env = {e}  BY <2>3 DEF StopOp, Op
  <2>5. UNCHANGED <<env, session, bySite, expired, sweep, seen, closing, drain, rejected, unadopted, faulty>>
    BY <1>5 DEF Stop, work
  <2>6. MapsTyped' /\ WorkTyped'  BY <2>5 DEF MapsTyped, WorkTyped
  <2>7. Queued(s, op)  BY <2>1, <2>3
  <2>8. op.do = "stop" /\ \A f, g \in op.env : f = g
       BY <2>4
  <2>9. QueueTyped' /\ Maps' /\ Apart' /\ Once' /\ Restored' /\ Known' /\ Drained' /\ StopsQueued'
    <3> HIDE DEF IInv, TypeOK
    <3> QED  BY <2>2, <2>4, <2>5, <2>7, <2>8, Joins
  <2> QED  BY <2>6, <2>9
<1>6. ASSUME NEW e \in Envs, Get(e) \/ TtlPasses(e) PROVE IInv'
  <2>1. /\ expired' \subseteq Envs
        /\ UNCHANGED <<env, session, bySite, queue, sweep, seen, closing, drain, rejected, unadopted, faulty>>
    BY <1>6 DEF Get, TtlPasses, work, MapsTyped
  <2>2. MapsTyped' /\ WorkTyped'  BY <2>1 DEF MapsTyped, WorkTyped
  <2> QED  BY <2>1, <2>2, QuietKeeps
<1>7. ASSUME NEW w \in Sweeps, SweepBegins(w) \/ SweepEnds(w) PROVE IInv'
  <2>1. UNCHANGED <<env, session, bySite, queue, expired, closing, drain, rejected, unadopted, faulty>>
    BY <1>7 DEF SweepBegins, SweepEnds
  <2>2. MapsTyped' /\ WorkTyped'
    BY <1>7, <2>1 DEF MapsTyped, WorkTyped, SweepBegins, SweepEnds
  <2> QED  BY <2>1, <2>2, QuietKeeps
<1>8. ASSUME NEW w \in Sweeps, NEW e \in Envs, SweepVisits(w, e) PROVE IInv'
  <2>1. UNCHANGED <<env, session, bySite, expired, closing, drain, rejected, unadopted, faulty>>
    BY <1>8 DEF SweepVisits
  <2>2. seen' = [seen EXCEPT ![w] = @ \cup {e}]  BY <1>8 DEF SweepVisits
  <2>3. CASE Overdue(e)
    <3>1. PICK s \in session[e] : Queued(s, StopOp(e, w))  BY <1>8, <2>3 DEF SweepVisits
    <3>2. s \in Sites  BY DEF MapsTyped
    <3>3. PICK op : op = StopOp(e, w)  OBVIOUS
    <3>4. op \in Op /\ op.do = "stop" /\ op.env = {e}  BY <3>3 DEF StopOp, Op
    <3>5. sweep' = [sweep EXCEPT ![w] = "waiting"]  BY <1>8, <2>3 DEF SweepVisits
    <3>6. MapsTyped' /\ WorkTyped'  BY <2>1, <2>2, <3>5 DEF MapsTyped, WorkTyped
    <3>7. Queued(s, op)  BY <3>1, <3>3
    <3>8. op.do = "stop" /\ \A f, g \in op.env : f = g
       BY <3>4
    <3>9. QueueTyped' /\ Maps' /\ Apart' /\ Once' /\ Restored' /\ Known' /\ Drained' /\ StopsQueued'
      <4> HIDE DEF IInv, TypeOK
      <4> QED  BY <2>1, <3>2, <3>4, <3>7, <3>8, Joins
    <3> QED  BY <3>6, <3>9
  <2>4. CASE ~Overdue(e)
    <3>1. UNCHANGED <<queue, sweep>>  BY <1>8, <2>4 DEF SweepVisits
    <3>2. MapsTyped' /\ WorkTyped'  BY <2>1, <2>2, <3>1 DEF MapsTyped, WorkTyped
    <3> QED  BY <2>1, <3>1, <3>2, QuietKeeps
  <2> QED  BY <2>3, <2>4
<1>9. CASE Close
  <2>1. /\ closing' = "draining" /\ drain' = PendingNow
        /\ UNCHANGED <<env, session, bySite, queue, expired, sweep, seen, rejected, unadopted, faulty>>
    BY <1>9 DEF Close
  <2>2. drain' \in [Sites -> Nat]
    <3>1. \A s \in Sites : Len(queue[s]) \in Nat  BY DEF QueueTyped
    <3> QED  BY <2>1, <3>1 DEF PendingNow
  <2>3. MapsTyped' /\ WorkTyped'  BY <2>1, <2>2 DEF MapsTyped, WorkTyped
  <2> QED  BY <2>1, <2>3, QuietKeeps
<1>10. CASE CloseReturns
  <2>1. /\ closing = "stopping" /\ ~AwaitsStops
        /\ closing' = IF rejected THEN "failed" ELSE "closed"
        /\ UNCHANGED <<env, session, bySite, queue, expired, sweep, seen, drain, rejected, unadopted, faulty>>
    BY <1>10 DEF CloseReturns
  <2>2. MapsTyped' /\ WorkTyped'  BY <2>1 DEF MapsTyped, WorkTyped
  <2> QED  BY <2>1, <2>2, QuietKeeps
<1>11. CASE StopAll  BY <1>11, StopAllKeeps
<1>12. CASE UNCHANGED vars
  <2>1. UNCHANGED <<env, session, bySite, queue, expired, sweep, seen, closing, drain, rejected, unadopted, faulty>>
    BY <1>12 DEF vars, work
  <2>2. MapsTyped' /\ WorkTyped'  BY <2>1 DEF MapsTyped, WorkTyped
  <2> QED  BY <2>1, <2>2, QuietKeeps
<1> HIDE DEF IInv
<1>13. ASSUME NEW s \in Sites, Operation(s) PROVE IInv'  BY <1>13, OperationKeeps
<1> QED
  BY <1>1, <1>2, <1>3, <1>4, <1>5, <1>6, <1>7, <1>8, <1>9, <1>10, <1>11, <1>12, <1>13
     DEF Next, Sweeping, Closing

-----------------------------------------------------------------------------
(* The theorems *)

LEMMA Inductive == Spec => []IInv
<1> QED  BY IInvInit, IInvNext, PTL DEF Spec

\* The maps, queues and stages of the manager keep their shape.
THEOREM TypeCorrect == Spec => []TypeOK
<1>1. IInv => TypeOK  BY DEF IInv
<1> QED  BY <1>1, Inductive, PTL

\* Whatever starts, adoptions, stops and sweeps overlap, a site has at most one
\* preview, both maps name it and its environment is alive
\* (development-preview-manager.ts).
THEOREM OnePreview == Spec => []OnePreviewPerSite
<1>1. ASSUME IInv PROVE OnePreviewPerSite
  <2>1. ASSUME NEW s \in Sites PROVE Cardinality(bySite[s]) <= 1
    <3>1. CASE bySite[s] = {}  BY <3>1, FS_EmptySet
    <3>2. CASE bySite[s] # {}
      <4>1. PICK e \in bySite[s] : bySite[s] = {e}  BY <1>1, <3>2 DEF IInv, Maps
      <4>2. Cardinality({e}) = 1  BY FS_Singleton
      <4> QED  BY <4>1, <4>2
    <3> QED  BY <3>1, <3>2
  <2> QED  BY <1>1, <2>1 DEF IInv, Maps, OnePreviewPerSite
<1> QED  BY <1>1, Inductive, PTL

\* Every live environment has an owner, resisted its destruction or was refused;
\* when close() returned without an error no preview is left and none will start.
THEOREM NoStray == Spec => []NoStrayEnvironment
<1>1. ASSUME IInv PROVE NoStrayEnvironment
  <2>1. ASSUME NEW e \in Envs, env[e] = "live", e \notin Sessions \cup faulty \cup unadopted
        PROVE  Pending(e)
    <3>1. PICK s \in Sites, i \in Nat : Owns(s, i, e)  BY <1>1, <2>1 DEF IInv, Known
    <3>2. i \in DOMAIN queue[s] /\ queue[s][i].do # "stop" /\ e \in queue[s][i].env
      BY <1>1, <3>1 DEF IInv, TypeOK, QueueTyped, Owns, Positions
    <3> QED  BY <3>2 DEF Pending
  <2>2. ASSUME closing = "closed"
        PROVE  /\ Sessions = {}
               /\ \A s \in Sites : \A i \in DOMAIN queue[s] : queue[s][i].do = "stop"
    <3>1. \A s \in Sites : bySite[s] = {} /\ drain[s] = 0
      BY <1>1, <2>2 DEF IInv, StopsQueued, Drained
    <3>2. Sessions = {}
      <4> SUFFICES ASSUME NEW e \in Envs, NEW s \in session[e] PROVE FALSE  BY DEF Sessions
      <4>1. s \in Sites  BY <1>1 DEF IInv, TypeOK, MapsTyped
      <4> QED  BY <1>1, <3>1, <4>1 DEF IInv, Maps
    <3>3. ASSUME NEW s \in Sites, NEW i \in DOMAIN queue[s] PROVE queue[s][i].do = "stop"
      <4>1. i \in Positions(s)  BY <1>1 DEF IInv, TypeOK, QueueTyped, Positions
      <4>2. queue[s][i].do # "stop" => i <= 0  BY <1>1, <2>2, <3>1, <4>1 DEF IInv, Drained
      <4> QED  BY <4>1, <4>2 DEF Positions
    <3> QED  BY <3>2, <3>3
  <2> QED  BY <2>1, <2>2 DEF NoStrayEnvironment
<1> QED  BY <1>1, Inductive, PTL

=============================================================================

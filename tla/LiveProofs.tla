----------------------------- MODULE LiveProofs -----------------------------
(***************************************************************************)
(* Proofs about the parts of MCLive.  For any number of requests and       *)
(* threads, no request runs in another's context, and the server gets its  *)
(* own back.  For any number of tasks, managers and querysets, a task is in*)
(* the context of its innermost block, and rows are handed only to code in *)
(* a context of their scope.  For any models, relations and order of       *)
(* registration, the guards are complete.  Tampering with the tables of a  *)
(* history shows.  And each part behaves in the composition as it does     *)
(* alone.                                                                  *)
(***************************************************************************)
EXTENDS MCLive, SequenceTheorems, FiniteSetTheorems, WellFoundedInduction, TLAPS

-----------------------------------------------------------------------------
(* Requests.                                                               *)

\* Two requests never run on one thread.
Exclusive ==
  \A r, s \in Request : on[r] # NoThread /\ on[r] = on[s] => r = s

\* A request that is not resolved has neither context.
Unresolved ==
  \A r \in Request : at[r] \in {"new", "resolving"} => ctx[r] = NoContext /\ own[r] = NoContext

\* Leaving the application's own scope goes back to the request's context.
BackToRequest == \A r \in Request : own[r] # NoContext => own[r].old = ctx[r]

RequestInv == TypeOK /\ Exclusive /\ Unresolved /\ BackToRequest /\ OwnContext

\* What the frames of the middleware will put back.
Restores == \A r \in Request : at[r] \in Running => Head(tokens[r]) \in LeftIn(on[r])

\* A request whose generator was abandoned is over.
AbandonedDone == \A r \in Request : abandoned[r] # NoThread => at[r] = "done"

HomeInv == Restores /\ AbandonedDone /\ ServerUntouched

-----------------------------------------------------------------------------

\* Starting a frame on a free thread, or on the request's own.
LEMMA SetFacts ==
  ASSUME TypeOK, NEW r \in Request, NEW t \in Thread, NEW value \in Value, Set(r, t, value)
  PROVE  /\ current' \in [Thread -> Value]
         /\ tokens' \in [Request -> Seq(Value)]
         /\ tokens'[r] # <<>>
         /\ \A s \in Request : s # r => tokens'[s] = tokens[s]
         /\ current'[t] = value
         /\ \A u \in Thread : u # t => current'[u] = current[u]
         /\ tokens[r] = <<>> => Head(tokens'[r]) = current[t]
         /\ tokens[r] # <<>> => Head(tokens'[r]) = Head(tokens[r])
<1>1. current \in [Thread -> Value] /\ tokens \in [Request -> Seq(Value)]
  BY DEF TypeOK
<1>2. DEFINE new == Append(tokens[r], current[t])
<1>3. tokens[r] \in Seq(Value) /\ current[t] \in Value
  BY <1>1
<1>4. new \in Seq(Value) /\ new # <<>>
  BY <1>3
<1>5. tokens[r] = <<>> => Head(new) = current[t]
  BY <1>3
<1>6. tokens[r] # <<>> => Head(new) = Head(tokens[r])
  BY <1>3
<1>7. /\ current' = [current EXCEPT ![t] = value]
      /\ tokens' = [tokens EXCEPT ![r] = new]
  BY DEF Set
<1>8. tokens'[r] = new
  BY <1>1, <1>7
<1> HIDE DEF new
<1> QED
  BY <1>1, <1>4, <1>5, <1>6, <1>7, <1>8

\* Leaving all frames.
LEMMA LeaveFacts ==
  ASSUME TypeOK, NEW r \in Request, NEW point \in Idle, at[r] \in Running, Leave(r, point)
  PROVE  /\ current' \in [Thread -> Value]
         /\ at' \in [Request -> Idle \union Running]
         /\ on' \in [Request -> Thread \union {NoThread}]
         /\ tokens' \in [Request -> Seq(Value)]
         /\ at'[r] = point /\ on'[r] = NoThread /\ tokens'[r] = <<>>
         /\ on[r] \in Thread
         /\ current'[on[r]] = Head(tokens[r])
         /\ \A u \in Thread : u # on[r] => current'[u] = current[u]
         /\ \A s \in Request : s # r => /\ at'[s] = at[s] /\ on'[s] = on[s]
                                        /\ tokens'[s] = tokens[s]
<1>1. on[r] \in Thread /\ tokens[r] # <<>> /\ tokens[r] \in Seq(Value)
  BY DEF TypeOK
<1>2. Head(tokens[r]) \in Value
  BY <1>1
<1> QED
  BY <1>1, <1>2 DEF TypeOK, Leave

-----------------------------------------------------------------------------
(* No request runs in another's context. *)

\* The initial states.
LEMMA RequestStart == Init => RequestInv
<1> SUFFICES ASSUME Init PROVE RequestInv
  OBVIOUS
<1>1. TypeOK
  BY HomeAssumption, ChunksAssumption
  DEF Init, TypeOK, Value, Context, Idle, Running
<1>2. Exclusive /\ Unresolved /\ BackToRequest /\ OwnContext
  BY DEF Init, Exclusive, Unresolved, BackToRequest, OwnContext, Running
<1> QED
  BY <1>1, <1>2 DEF RequestInv

\* A request starts to run, or goes on, on a thread that no other runs on.
LEMMA SetKeeps ==
  ASSUME RequestInv, NEW r \in Request, NEW t \in Thread, NEW value \in Context, NEW point \in Running,
         Free(t) \/ on[r] = t,
         Set(r, t, value),
         at' = [at EXCEPT ![r] = point],
         on' = [on EXCEPT ![r] = t],
         ctx' = [ctx EXCEPT ![r] = value],
         UNCHANGED <<own, abandoned>>,
         chunks' \in [Request -> 0..MaxChunks],
         point = "resolving" => value = NoContext /\ ctx[r] = NoContext,
         value # ctx[r] => own[r] = NoContext,
         point = "resolving" => own[r] = NoContext
  PROVE  RequestInv'
<1> USE DEF RequestInv
<1>1. value \in Value
  BY DEF Value
<1>2. TypeOK'
  <2>1. current' \in [Thread -> Value] /\ tokens' \in [Request -> Seq(Value)]
    BY <1>1, SetFacts
  <2>2. /\ at' \in [Request -> Idle \union Running]
        /\ on' \in [Request -> Thread \union {NoThread}]
        /\ ctx' \in [Request -> Context]
        /\ own' \in [Request -> Token \union {NoContext}]
    BY DEF TypeOK
  <2>3. tokens'[r] # <<>> /\ \A s \in Request : s # r => tokens'[s] = tokens[s]
    BY <1>1, SetFacts
  <2>4. ASSUME NEW s \in Request
        PROVE  /\ at'[s] \in Running <=> on'[s] # NoThread
               /\ at'[s] \in Running <=> tokens'[s] # <<>>
    <3>1. CASE s = r
      <4>1. at'[s] \in Running /\ on'[s] = t
        BY <3>1 DEF TypeOK
      <4>2. QED
        BY <2>3, <3>1, <4>1, NoThreadAssumption
    <3>2. CASE s # r
      <4>1. at'[s] = at[s] /\ on'[s] = on[s] /\ tokens'[s] = tokens[s]
        BY <2>3, <3>2 DEF TypeOK
      <4>2. QED
        BY <4>1 DEF TypeOK
    <3>3. QED
      BY <3>1, <3>2
  <2>5. QED
    BY <2>1, <2>2, <2>4 DEF TypeOK
<1>3. Exclusive'
  BY NoThreadAssumption DEF TypeOK, Exclusive, Free
<1>4. Unresolved'
  BY DEF TypeOK, Unresolved, Running
<1>5. BackToRequest'
  BY DEF TypeOK, BackToRequest
<1>6. OwnContext'
  <2> SUFFICES ASSUME NEW s \in Request, at'[s] \in Running
               PROVE  /\ at'[s] = "resolving" => current'[on'[s]] = NoContext
                      /\ own'[s] = NoContext => current'[on'[s]] = ctx'[s]
                      /\ current'[on'[s]] \in {ctx'[s], Own(s)}
    BY DEF OwnContext
  <2>1. CASE s = r
    BY <1>1, <2>1, SetFacts DEF TypeOK
  <2>2. CASE s # r
    <3>1. at'[s] = at[s] /\ on'[s] = on[s] /\ ctx'[s] = ctx[s]
      BY <2>2 DEF TypeOK
    <3>2. on[s] \in Thread /\ on[s] # t
      BY <2>2, <3>1, NoThreadAssumption DEF TypeOK, Exclusive, Free
    <3>3. current'[on[s]] = current[on[s]]
      BY <1>1, <3>2, SetFacts
    <3> QED
      BY <3>1, <3>3 DEF OwnContext
  <2> QED
    BY <2>1, <2>2
<1> QED
  BY <1>2, <1>3, <1>4, <1>5, <1>6

\* A request stops running.
LEMMA LeaveKeeps ==
  ASSUME RequestInv, NEW r \in Request, NEW point \in {"paused", "done"}, at[r] \in Running,
         Leave(r, point),
         UNCHANGED <<ctx, chunks, abandoned>>,
         own' = own \/ own' = [own EXCEPT ![r] = NoContext]
  PROVE  RequestInv'
<1> USE DEF RequestInv
<1>0. point \in Idle
  BY DEF Idle
<1>1. TypeOK'
  <2>1. own' \in [Request -> Token \union {NoContext}]
    <3>1. own \in [Request -> Token \union {NoContext}]
      BY DEF TypeOK
    <3> QED
      BY <3>1
  <2>2. /\ ctx' \in [Request -> Context] /\ chunks' \in [Request -> 0..MaxChunks]
        /\ abandoned' \in [Request -> Thread \union {NoThread}]
    BY DEF TypeOK
  <2>3. ASSUME NEW s \in Request
        PROVE  /\ at'[s] \in Running <=> on'[s] # NoThread
               /\ at'[s] \in Running <=> tokens'[s] # <<>>
    BY <1>0, LeaveFacts DEF TypeOK, Idle, Running
  <2>4. /\ current' \in [Thread -> Value] /\ at' \in [Request -> Idle \union Running]
        /\ on' \in [Request -> Thread \union {NoThread}] /\ tokens' \in [Request -> Seq(Value)]
    BY <1>0, LeaveFacts
  <2> QED
    BY ONLY <2>1, <2>2, <2>3, <2>4 DEF TypeOK
<1>2. Exclusive'
  <2>1. on'[r] = NoThread /\ \A s \in Request : s # r => on'[s] = on[s]
    BY <1>0, LeaveFacts
  <2> QED
    BY <2>1 DEF Exclusive
<1>3. Unresolved'
  BY <1>0, LeaveFacts DEF TypeOK, Unresolved
<1>4. BackToRequest'
  BY DEF TypeOK, BackToRequest
<1>5. OwnContext'
  <2> SUFFICES ASSUME NEW s \in Request, at'[s] \in Running
               PROVE  /\ at'[s] = "resolving" => current'[on'[s]] = NoContext
                      /\ own'[s] = NoContext => current'[on'[s]] = ctx'[s]
                      /\ current'[on'[s]] \in {ctx'[s], Own(s)}
    BY DEF OwnContext
  <2>1. s # r
    BY <1>0, LeaveFacts DEF Running
  <2>2. at'[s] = at[s] /\ on'[s] = on[s] /\ own'[s] = own[s]
    BY <1>0, <2>1, LeaveFacts DEF TypeOK
  <2>3. on[s] \in Thread /\ on[s] # on[r]
    BY <2>1, <2>2, NoThreadAssumption DEF TypeOK, Exclusive
  <2>4. current'[on[s]] = current[on[s]]
    BY <1>0, <2>3, LeaveFacts
  <2> QED
    BY <2>2, <2>4 DEF OwnContext
<1> QED
  BY <1>1, <1>2, <1>3, <1>4, <1>5

\* What every step keeps.
LEMMA RequestStep == RequestInv /\ [Next]_vars => RequestInv'
<1> SUFFICES ASSUME RequestInv, [Next]_vars PROVE RequestInv'
  OBVIOUS
<1>0. CASE UNCHANGED vars
  BY <1>0 DEF vars, RequestInv, TypeOK, Exclusive, Unresolved, BackToRequest, OwnContext
<1>1. CASE \E r \in Request, t \in Thread : Handle(r, t)
  <2>1. PICK r \in Request, t \in Thread : Handle(r, t)
    BY <1>1
  <2>2. ctx[r] = NoContext /\ own[r] = NoContext /\ chunks \in [Request -> 0..MaxChunks]
    BY <2>1 DEF Handle, RequestInv, Unresolved, TypeOK
  <2>3. ctx' = [ctx EXCEPT ![r] = NoContext]
    BY <2>1, <2>2 DEF Handle, RequestInv, TypeOK
  <2>4. NoContext \in Context /\ "resolving" \in Running
    BY DEF Context, Running
  <2> QED
    BY <2>1, <2>2, <2>3, <2>4, SetKeeps DEF Handle, Cleared
<1>2. CASE \E r \in Request, t \in Thread : Pull(r, t) \/ Close(r, t)
  <2>1. PICK r \in Request, t \in Thread : Pull(r, t) \/ Close(r, t)
    BY <1>2
  <2>2. chunks' \in [Request -> 0..MaxChunks]
    <3>1. chunks \in [Request -> 0..MaxChunks]
      BY DEF RequestInv, TypeOK
    <3>2. CASE Close(r, t)
      BY <3>1, <3>2 DEF Close
    <3>3. CASE Pull(r, t)
      <4>1. chunks[r] \in 0..MaxChunks /\ chunks[r] < MaxChunks
        BY <3>1, <3>3 DEF Pull
      <4>2. chunks[r] + 1 \in 0..MaxChunks
        BY <4>1, ChunksAssumption
      <4> QED
        BY <3>1, <3>3, <4>2 DEF Pull
    <3> QED
      BY <2>1, <3>2, <3>3
  <2>3. ctx' = [ctx EXCEPT ![r] = ctx[r]] /\ ctx[r] \in Context
    BY <2>1 DEF Pull, Close, RequestInv, TypeOK
  <2>4. PICK point \in {"chunk", "closing"} : at' = [at EXCEPT ![r] = point]
    BY <2>1 DEF Pull, Close
  <2>5. point \in Running /\ point # "resolving"
    BY DEF Running
  <2>6. /\ Free(t) /\ Set(r, t, ctx[r]) /\ UNCHANGED <<own, abandoned>>
        /\ on' = [on EXCEPT ![r] = t]
    BY <2>1 DEF Pull, Close
  <2> QED
    BY <2>2, <2>3, <2>4, <2>5, <2>6, SetKeeps
<1>3. CASE \E r \in Request, result \in Context \union {Invalid} : ResolveContext(r, result)
  <2>1. PICK r \in Request, result \in Context \union {Invalid} : ResolveContext(r, result)
    BY <1>3
  <2>2. result \in Context
    BY <2>1 DEF ResolveContext, Valid
  <2>3. own[r] = NoContext /\ on[r] \in Thread /\ chunks' \in [Request -> 0..MaxChunks]
    BY <2>1 DEF ResolveContext, RequestInv, Unresolved, TypeOK, Running
  <2>4. on' = [on EXCEPT ![r] = on[r]] /\ "view" \in Running /\ "view" # "resolving"
    BY <2>1 DEF ResolveContext, RequestInv, TypeOK, Running
  <2> QED
    BY <2>1, <2>2, <2>3, <2>4, SetKeeps DEF ResolveContext
<1>4. CASE \E r \in Request : ResolveNone(r)
  <2>1. PICK r \in Request : ResolveNone(r)
    BY <1>4
  <2> USE <2>1 DEF ResolveNone, RequestInv
  <2>2. TypeOK'
    BY DEF TypeOK, Idle, Running
  <2>3. Exclusive' /\ Unresolved' /\ BackToRequest'
    BY DEF TypeOK, Exclusive, Unresolved, BackToRequest
  <2>4. OwnContext'
    BY DEF TypeOK, Unresolved, OwnContext, Running
  <2> QED
    BY <2>2, <2>3, <2>4
<1>5. CASE \E r \in Request : EnterScope(r)
  <2>1. PICK r \in Request : EnterScope(r)
    BY <1>5
  <2> USE DEF RequestInv
  <2>2. /\ on[r] \in Thread
        /\ current[on[r]] \in Value
        /\ current[on[r]] = ctx[r]
        /\ at[r] \in {"view", "chunk"}
    BY <2>1 DEF EnterScope, TypeOK, OwnContext, Running
  <2>3. Own(r) \in Value
    BY DEF Value, Context
  <2>4. /\ [thread |-> on[r], old |-> current[on[r]]] \in Token
        /\ own'[r] # NoContext /\ own'[r].old = ctx[r]
        /\ \A s \in Request : s # r => own'[s] = own[s]
    BY <2>1, <2>2, NoContextAssumption DEF EnterScope, Token, TypeOK
  <2>5. TypeOK'
    BY <2>1, <2>2, <2>3, <2>4 DEF EnterScope, TypeOK
  <2>6. Exclusive' /\ Unresolved' /\ BackToRequest'
    BY <2>1, <2>2, <2>4 DEF EnterScope, Exclusive, Unresolved, BackToRequest
  <2>7. OwnContext'
    BY <2>1, <2>2, <2>4, NoThreadAssumption
    DEF EnterScope, TypeOK, Exclusive, OwnContext, Running
  <2> QED
    BY <2>5, <2>6, <2>7
<1>6. CASE \E r \in Request : LeaveScope(r)
  <2>1. PICK r \in Request : LeaveScope(r)
    BY <1>6
  <2> USE DEF RequestInv
  <2>2. on[r] \in Thread /\ own[r].old = ctx[r] /\ own[r].old \in Value
    BY <2>1 DEF LeaveScope, TypeOK, BackToRequest, Running, Value
  <2>3. TypeOK'
    BY <2>1, <2>2 DEF LeaveScope, TypeOK
  <2>4. Exclusive' /\ Unresolved' /\ BackToRequest'
    BY <2>1 DEF LeaveScope, TypeOK, Exclusive, Unresolved, BackToRequest
  <2>5. OwnContext'
    BY <2>1, <2>2, NoThreadAssumption
    DEF LeaveScope, TypeOK, Exclusive, OwnContext, Running
  <2> QED
    BY <2>3, <2>4, <2>5
<1>7. CASE \E r \in Request : \/ ResolveRaises(r) \/ Yield(r) \/ Exhaust(r)
                             \/ \E point \in {"paused", "done"} : ViewReturns(r, point)
  <2>1. PICK r \in Request, point \in {"paused", "done"} :
           at[r] \in Running /\ Leave(r, point) /\ UNCHANGED <<ctx, own, chunks, abandoned>>
    BY <1>7 DEF ResolveRaises, Yield, Exhaust, ViewReturns, Running
  <2> QED
    BY <2>1, LeaveKeeps
<1>8. CASE \E r \in Request : Raises(r) \/ CloseEnds(r)
  <2>1. PICK r \in Request : Raises(r) \/ CloseEnds(r)
    BY <1>8
  <2>2. own' = own \/ own' = [own EXCEPT ![r] = NoContext]
    BY <2>1 DEF Raises, CloseEnds, RequestInv, TypeOK
  <2>3. at[r] \in Running
    BY <2>1 DEF Raises, CloseEnds, Running
  <2> QED
    BY <2>1, <2>2, <2>3, LeaveKeeps DEF Raises, CloseEnds
<1>9. CASE \E r \in Request, t \in Thread : Release(r, t)
  <2>1. PICK r \in Request, t \in Thread : Release(r, t)
    BY <1>9
  <2> USE DEF RequestInv
  <2>2. own[r] # NoContext => own[r].old \in Value
    BY DEF TypeOK, Token
  <2>3. TypeOK'
    BY <2>1, <2>2 DEF Release, TypeOK, Idle, Running
  <2>4. Exclusive' /\ Unresolved' /\ BackToRequest'
    BY <2>1 DEF Release, TypeOK, Exclusive, Unresolved, BackToRequest
  <2>5. OwnContext'
    BY <2>1 DEF Release, TypeOK, OwnContext, Free, Running
  <2> QED
    BY <2>3, <2>4, <2>5
<1> QED
  BY <1>0, <1>1, <1>2, <1>3, <1>4, <1>5, <1>6, <1>7, <1>8, <1>9 DEF Next, Done, Context

\* The code of a request, on whatever threads the middleware and the chunks of
\* its response run, never runs in the context of another request.
THEOREM NoInheritance == Spec => []OwnContext
<1>1. RequestInv => OwnContext
  BY DEF RequestInv
<1> QED
  BY <1>1, RequestStart, RequestStep, PTL DEF Spec

-----------------------------------------------------------------------------
(* The server's code gets its own context back. *)

\* What a thread can be left in only grows.
LEMMA LeftInGrows ==
  ASSUME NEW t \in Thread,
         \A r \in Request : abandoned[r] = t => abandoned'[r] = t /\ ctx'[r] = ctx[r]
  PROVE  LeftIn(t) \subseteq LeftIn(t)'
BY DEF LeftIn

\* A step of the middleware or the application.
LEMMA HomeKept == RequestInv /\ HomeInv /\ [Next]_vars => HomeInv'
<1> SUFFICES ASSUME RequestInv, HomeInv, [Next]_vars PROVE HomeInv'
  OBVIOUS
<1> USE DEF RequestInv, HomeInv
<1>0. CASE UNCHANGED vars
  BY <1>0 DEF vars, Restores, AbandonedDone, ServerUntouched, LeftIn, Free
<1>1. ASSUME NEW r \in Request, NEW t \in Thread, NEW value \in Context,
             NEW point \in Running,
             (Free(t) /\ at[r] \in Idle \ {"done"}) \/ (on[r] = t /\ at[r] \in Running),
             Set(r, t, value),
             at' = [at EXCEPT ![r] = point],
             on' = [on EXCEPT ![r] = t],
             ctx' = [ctx EXCEPT ![r] = value] \/ ctx' = ctx,
             UNCHANGED abandoned
      PROVE  HomeInv'
  <2>1. value \in Value
    BY DEF Value
  <2>2. at[r] # "done"
    BY <1>1 DEF Running
  <2>3. \A u \in Thread : LeftIn(u) \subseteq LeftIn(u)'
    <3> SUFFICES ASSUME NEW u \in Thread PROVE LeftIn(u) \subseteq LeftIn(u)'
      OBVIOUS
    <3>1. ASSUME NEW s \in Request, abandoned[s] = u
          PROVE  abandoned'[s] = u /\ ctx'[s] = ctx[s]
      <4>1. s # r
        BY <2>2, <3>1, NoThreadAssumption DEF AbandonedDone
      <4> QED
        BY <1>1, <3>1, <4>1 DEF TypeOK
    <3> QED
      BY <3>1, LeftInGrows
  <2>4. Restores'
    <3> SUFFICES ASSUME NEW s \in Request, at'[s] \in Running
                 PROVE  Head(tokens'[s]) \in LeftIn(on[s])'
      BY DEF Restores, LeftIn
    <3>1. CASE s # r
      <4>1. at'[s] = at[s] /\ on'[s] = on[s] /\ tokens'[s] = tokens[s]
        BY <1>1, <2>1, <3>1, SetFacts DEF TypeOK
      <4>2. on[s] \in Thread /\ Head(tokens[s]) \in LeftIn(on[s])
        BY <4>1 DEF TypeOK, Restores
      <4> QED
        BY <2>3, <4>1, <4>2 DEF LeftIn
    <3>2. CASE s = r /\ at[r] \in Idle
      <4>1. tokens[r] = <<>> /\ current[t] \in LeftIn(t)
        BY <1>1, <3>2, NoThreadAssumption DEF TypeOK, ServerUntouched, Idle, Running
      <4>2. on'[s] = t /\ Head(tokens'[s]) = current[t]
        BY <1>1, <2>1, <3>2, <4>1, SetFacts DEF TypeOK
      <4> QED
        BY <2>3, <4>1, <4>2 DEF LeftIn
    <3>3. CASE s = r /\ at[r] \in Running
      <4>1. tokens[r] # <<>> /\ Head(tokens[r]) \in LeftIn(on[r]) /\ on[r] = t
        BY <1>1, <3>3 DEF TypeOK, Restores, Idle, Running
      <4>2. on'[s] = t /\ Head(tokens'[s]) = Head(tokens[r])
        BY <1>1, <2>1, <3>3, <4>1, SetFacts DEF TypeOK
      <4> QED
        BY <2>3, <4>1, <4>2 DEF LeftIn
    <3> QED
      BY <3>1, <3>2, <3>3 DEF TypeOK
  <2>5. AbandonedDone'
    BY <1>1, <2>2 DEF AbandonedDone, TypeOK
  <2>6. ServerUntouched'
    <3> SUFFICES ASSUME NEW u \in Thread, Free(u)' PROVE current'[u] \in LeftIn(u)'
      BY DEF ServerUntouched
    <3>1. on'[r] = t /\ \A x \in Request : x # r => on'[x] = on[x]
      BY <1>1 DEF TypeOK
    <3>2. u # t
      BY <3>1 DEF Free
    <3>3. on[r] # u
      BY <1>1, <3>2, NoThreadAssumption DEF TypeOK, Idle, Running
    <3>4. Free(u)
      BY <3>1, <3>3 DEF Free
    <3>5. current[u] \in LeftIn(u) /\ current'[u] = current[u]
      BY <1>1, <2>1, <3>2, <3>4, SetFacts DEF ServerUntouched
    <3> QED
      BY <2>3, <3>5
  <2> QED
    BY <2>4, <2>5, <2>6
<1>2. ASSUME NEW r \in Request, NEW point \in {"paused", "done"}, at[r] \in Running,
             Leave(r, point), UNCHANGED <<ctx, abandoned>>
      PROVE  HomeInv'
  <2>1. point \in Idle /\ at[r] # "done"
    BY <1>2 DEF Idle, Running
  <2>2. \A u : LeftIn(u)' = LeftIn(u)
    BY <1>2 DEF LeftIn
  <2>3. Restores'
    <3> SUFFICES ASSUME NEW s \in Request, at'[s] \in Running
                 PROVE  Head(tokens'[s]) \in LeftIn(on[s])'
      BY DEF Restores, LeftIn
    <3>1. s # r
      BY <1>2, <2>1, LeaveFacts DEF Idle, Running
    <3>2. at'[s] = at[s] /\ on'[s] = on[s] /\ tokens'[s] = tokens[s]
      BY <1>2, <2>1, <3>1, LeaveFacts
    <3> QED
      BY <1>2, <3>2 DEF Restores, LeftIn
  <2>4. AbandonedDone'
    BY <1>2, <2>1, LeaveFacts DEF AbandonedDone
  <2>5. ServerUntouched'
    <3> SUFFICES ASSUME NEW u \in Thread, Free(u)' PROVE current'[u] \in LeftIn(u)
      BY <2>2 DEF ServerUntouched
    <3>1. CASE u = on[r]
      BY <1>2, <2>1, <3>1, LeaveFacts DEF Restores
    <3>2. CASE u # on[r]
      <4>1. Free(u)
        BY <1>2, <2>1, <3>2, LeaveFacts DEF Free
      <4> QED
        BY <1>2, <2>1, <3>2, <4>1, LeaveFacts DEF ServerUntouched
    <3> QED
      BY <3>1, <3>2
  <2> QED
    BY <2>3, <2>4, <2>5
<1>3. CASE \E r \in Request, t \in Thread : Handle(r, t) \/ Pull(r, t) \/ Close(r, t)
  <2>1. PICK r \in Request, t \in Thread : Handle(r, t) \/ Pull(r, t) \/ Close(r, t)
    BY <1>3
  <2>2. PICK point \in {"resolving", "chunk", "closing"} : at' = [at EXCEPT ![r] = point]
    BY <2>1 DEF Handle, Pull, Close
  <2>3. PICK value \in Context : Set(r, t, value)
    BY <2>1 DEF Handle, Pull, Close, Cleared, Context, TypeOK
  <2>4. /\ (Free(t) /\ at[r] \in Idle \ {"done"}) \/ (on[r] = t /\ at[r] \in Running)
        /\ on' = [on EXCEPT ![r] = t] /\ point \in Running
        /\ ctx' = ctx /\ UNCHANGED abandoned
    BY <2>1 DEF Handle, Pull, Close, Idle, Running
  <2> QED
    BY <2>2, <2>3, <2>4, <1>1
<1>4. CASE \E r \in Request, result \in Context \union {Invalid} : ResolveContext(r, result)
  <2>1. PICK r \in Request, result \in Context \union {Invalid} : ResolveContext(r, result)
    BY <1>4
  <2>2. result \in Context /\ on[r] \in Thread /\ at[r] \in Running /\ "view" \in Running
    BY <2>1 DEF ResolveContext, Valid, TypeOK, Running
  <2>3. on' = [on EXCEPT ![r] = on[r]]
    BY <2>1 DEF ResolveContext, TypeOK
  <2> QED
    BY <2>1, <2>2, <2>3, <1>1 DEF ResolveContext
<1>5. CASE \E r \in Request : ResolveNone(r)
  BY <1>5 DEF ResolveNone, TypeOK, Restores, AbandonedDone, ServerUntouched, LeftIn, Free, Running
<1>6. CASE \E r \in Request : EnterScope(r) \/ LeaveScope(r)
  <2>1. PICK r \in Request : EnterScope(r) \/ LeaveScope(r)
    BY <1>6
  <2>2. on[r] \in Thread /\ at[r] \in {"view", "chunk"}
    BY <2>1 DEF EnterScope, LeaveScope, TypeOK, Running
  <2>3. ~Free(on[r])
    BY DEF Free
  <2>4. Restores' /\ AbandonedDone'
    BY <2>1 DEF EnterScope, LeaveScope, Restores, AbandonedDone, LeftIn
  <2>5. ServerUntouched'
    <3>1. on' = on /\ \A u \in Thread : u # on[r] => current'[u] = current[u]
      BY <2>1 DEF EnterScope, LeaveScope, TypeOK
    <3>2. \A u : LeftIn(u)' = LeftIn(u)
      BY <2>1 DEF EnterScope, LeaveScope, LeftIn
    <3> SUFFICES ASSUME NEW u \in Thread, Free(u)' PROVE current'[u] \in LeftIn(u)
      BY <3>2 DEF ServerUntouched
    <3>3. Free(u)
      BY <3>1 DEF Free
    <3> QED
      BY <2>3, <3>1, <3>3 DEF ServerUntouched
  <2> QED
    BY <2>4, <2>5
<1>7. CASE \E r \in Request :
             \/ ResolveRaises(r) \/ Yield(r) \/ Exhaust(r) \/ Raises(r) \/ CloseEnds(r)
             \/ \E point \in {"paused", "done"} : ViewReturns(r, point)
  <2>1. PICK r \in Request, point \in {"paused", "done"} :
           at[r] \in Running /\ Leave(r, point) /\ UNCHANGED <<ctx, abandoned>>
    BY <1>7
    DEF ResolveRaises, Yield, Exhaust, Raises, CloseEnds, ViewReturns, Running
  <2> QED
    BY <2>1, <1>2
<1>8. CASE \E r \in Request, t \in Thread : Release(r, t)
  <2>1. PICK r \in Request, t \in Thread : Release(r, t)
    BY <1>8
  <2>2. /\ at' = [at EXCEPT ![r] = "done"] /\ on' = on /\ tokens' = tokens /\ ctx' = ctx
        /\ at[r] = "paused"
    BY <2>1 DEF Release
  <2>3. abandoned' = abandoned \/ abandoned' = [abandoned EXCEPT ![r] = t]
    BY <2>1 DEF Release
  <2>4. abandoned[r] = NoThread
    BY <2>2 DEF AbandonedDone
  <2>5. AbandonedDone'
    BY <2>2, <2>3 DEF AbandonedDone, TypeOK
  <2>6. \A u \in Thread : LeftIn(u) \subseteq LeftIn(u)'
    <3> SUFFICES ASSUME NEW u \in Thread PROVE LeftIn(u) \subseteq LeftIn(u)'
      OBVIOUS
    <3>1. \A s \in Request : abandoned[s] = u => abandoned'[s] = u /\ ctx'[s] = ctx[s]
      BY <2>2, <2>3, <2>4, NoThreadAssumption DEF TypeOK
    <3> QED
      BY <3>1, LeftInGrows
  <2>7. Restores'
    <3> SUFFICES ASSUME NEW s \in Request, at'[s] \in Running
                 PROVE  Head(tokens'[s]) \in LeftIn(on[s])'
      BY DEF Restores
    <3>1. at[s] \in Running
      BY <2>2 DEF TypeOK, Running
    <3>2. on[s] \in Thread /\ Head(tokens[s]) \in LeftIn(on[s])
      BY <3>1 DEF TypeOK, Restores
    <3>3. on'[s] = on[s] /\ tokens'[s] = tokens[s]
      BY <2>2
    <3> QED
      BY <2>6, <3>2, <3>3 DEF LeftIn
  <2>8. ServerUntouched'
    <3> SUFFICES ASSUME NEW u \in Thread, Free(u) PROVE current'[u] \in LeftIn(u)'
      BY <2>2 DEF ServerUntouched, Free
    <3>1. current[u] \in LeftIn(u)
      BY DEF ServerUntouched
    <3>2. CASE current'[u] = current[u]
      BY <2>6, <3>1, <3>2
    <3>3. CASE current'[u] # current[u]
      <4>1. /\ u = t /\ own[r] # NoContext /\ current'[u] = own[r].old
            /\ abandoned' = [abandoned EXCEPT ![r] = t]
        BY <2>1, <3>3 DEF Release, TypeOK
      <4>2. own[r].old = ctx'[r]
        BY <2>2, <4>1 DEF BackToRequest
      <4>3. abandoned'[r] = u
        BY <4>1 DEF TypeOK
      <4> QED
        BY <4>1, <4>2, <4>3 DEF LeftIn
    <3> QED
      BY <3>2, <3>3
  <2> QED
    BY <2>5, <2>7, <2>8
<1> QED
  BY <1>0, <1>3, <1>4, <1>5, <1>6, <1>7, <1>8 DEF Next, Done, Context

\* Whatever requests do, and wherever they stop doing it, a thread that serves
\* none is back in the context of its server's code; or else in the context of a
\* request whose generator, paused on that thread in a scope of its own, was
\* ended by something else than the middleware.
THEOREM ServerGetsItsContextBack == Spec => []ServerUntouched
<1>1. Init => HomeInv
  BY DEF Init, HomeInv, Restores, AbandonedDone, ServerUntouched, LeftIn, Running
<1>2. RequestInv /\ HomeInv /\ [Next]_vars => RequestInv' /\ HomeInv'
  BY RequestStep, HomeKept
<1>3. HomeInv => ServerUntouched
  BY DEF HomeInv
<1> QED
  BY <1>1, <1>2, <1>3, RequestStart, PTL DEF Spec

-----------------------------------------------------------------------------
(* Managers.                                                               *)

Nobody == Manager \union {NoManager}
Block == [manager : Manager, outer : Nobody]
ManagerToken == [task : Task, old : Nobody] \union {NoManager}

ManagerTyped ==
  /\ bound \in [Task -> Nobody]
  /\ token \in [Manager -> ManagerToken]
  /\ entering \in [Task -> Nobody]
  /\ blocks \in [Task -> Seq(Block)]
  /\ collided \in BOOLEAN
  /\ entered \in Nat

\* A manager that was entered, and nobody else who passed its check with it:
\* its token is of the block it was entered for, which is still open.
InUse ==
  \A t \in Task : \A i \in 1..Len(blocks[t]) :
    token[blocks[t][i].manager] = [task |-> t, old |-> blocks[t][i].outer]

\* A manager is in one block at most.
OneBlockEach ==
  \A t \in Task, u \in Task : \A i \in 1..Len(blocks[t]), j \in 1..Len(blocks[u]) :
    blocks[t][i].manager = blocks[u][j].manager => t = u /\ i = j

\* A block's enclosing context is the one of the block before it.
Nested ==
  \A t \in Task : \A i \in 1..Len(blocks[t]) :
    blocks[t][i].outer = IF i = 1 THEN NoManager ELSE blocks[t][i - 1].manager

\* A manager past its check is free, and nobody else is past it.
EnteringFree ==
  \A t \in Task : entering[t] # NoManager =>
    /\ token[entering[t]] = NoManager
    /\ \A u \in Task \ {t} : entering[u] # entering[t]

ManagerInv ==
  /\ ManagerTyped
  /\ ~collided => InUse /\ OneBlockEach /\ Nested /\ EnteringFree /\ InnermostContext

-----------------------------------------------------------------------------
(* What the sequence operators do to the blocks of a task. *)

\* Entering a block puts it after the others.
LEMMA AppendFacts ==
  ASSUME NEW s \in Seq(Block), NEW b \in Block
  PROVE  /\ Append(s, b) \in Seq(Block)
         /\ Len(Append(s, b)) = Len(s) + 1
         /\ Append(s, b)[Len(s) + 1] = b
         /\ \A i \in 1..Len(s) : Append(s, b)[i] = s[i]
         /\ Append(s, b) # <<>>
OBVIOUS

\* Leaving a block takes the last one off.
LEMMA FrontFacts ==
  ASSUME NEW s \in Seq(Block), s # <<>>
  PROVE  LET f == SubSeq(s, 1, Len(s) - 1) IN
         /\ f \in Seq(Block)
         /\ Len(s) \in Nat \ {0}
         /\ Len(f) = Len(s) - 1
         /\ \A i \in 1..Len(f) : f[i] = s[i]
         /\ (f = <<>> <=> Len(s) = 1)
<1>1. Len(s) \in Nat \ {0} /\ \A i \in 1..(Len(s) - 1) : s[i] \in Block
  OBVIOUS
<1> DEFINE f == SubSeq(s, 1, Len(s) - 1)
<1>2. /\ f \in Seq(Block)
      /\ Len(f) = IF 1 <= Len(s) - 1 THEN Len(s) - 1 - 1 + 1 ELSE 0
      /\ \A i \in 1..(Len(s) - 1 - 1 + 1) : f[i] = s[1 + i - 1]
  BY <1>1, SubSeqProperties
<1> HIDE DEF f
<1>3. Len(f) = Len(s) - 1
  <2>1. \A l \in Nat \ {0} : (IF 1 <= l - 1 THEN l - 1 - 1 + 1 ELSE 0) = l - 1
    OBVIOUS
  <2>2. QED
    BY <1>1, <1>2, <2>1
<1>4. \A i \in 1..Len(f) : f[i] = s[i]
  BY <1>1, <1>2, <1>3
<1>5. f = <<>> <=> Len(f) = 0
  BY <1>2, EmptySeq
<1>6. QED
  BY <1>1, <1>2, <1>3, <1>4, <1>5 DEF f

-----------------------------------------------------------------------------
(* Managers. *)

\* Steps that leave the blocks alone leave every manager in one at most.
LEMMA SameBlocks ==
  ASSUME blocks' = blocks, OneBlockEach
  PROVE  OneBlockEach'
<1> SUFFICES ASSUME NEW t \in Task, NEW u \in Task,
                    NEW i \in 1..Len(blocks'[t]), NEW j \in 1..Len(blocks'[u]),
                    blocks'[t][i].manager = blocks'[u][j].manager
             PROVE  t = u /\ i = j
  BY DEF OneBlockEach
<1>1. QED
  BY DEF OneBlockEach

\* At the start no block was entered.
LEMMA InitManagerInv == ManagerInit => ManagerInv
<1> SUFFICES ASSUME ManagerInit PROVE ManagerInv
  OBVIOUS
<1>1. ManagerTyped
  <2>1. <<>> \in Seq(Block)
    OBVIOUS
  <2>2. QED
    BY <2>1 DEF ManagerInit, ManagerTyped, Nobody, ManagerToken
<1>2. \A t \in Task : blocks[t] = <<>> /\ Len(blocks[t]) = 0
  BY DEF ManagerInit
<1>3. InUse /\ OneBlockEach /\ Nested /\ EnteringFree /\ InnermostContext
  BY <1>2 DEF ManagerInit, InUse, OneBlockEach, Nested, EnteringFree, InnermostContext
<1>4. QED
  BY <1>1, <1>3 DEF ManagerInv

\* The check of __enter__.
LEMMA EnterChecksKeeps ==
  ASSUME ManagerInv, NEW t \in Task, NEW m \in Manager, EnterChecks(t, m)
  PROVE  ManagerInv'
<1>1. ManagerTyped'
  BY DEF ManagerInv, ManagerTyped, EnterChecks, Nobody
<1>2. ASSUME ~collided'
      PROVE  (InUse /\ OneBlockEach /\ Nested /\ EnteringFree /\ InnermostContext)'
  <2>1. ~collided /\ \A o \in Task : entering[o] # m
    BY <1>2 DEF EnterChecks
  <2>2. EnteringFree'
    BY <2>1 DEF ManagerInv, ManagerTyped, EnteringFree, EnterChecks, Fresh
  <2>3. bound' = bound /\ token' = token /\ blocks' = blocks
    BY DEF EnterChecks
  <2>4. InUse' /\ OneBlockEach'
    <3>1. InUse'
      BY <2>1, <2>3 DEF ManagerInv, InUse
    <3>2. OneBlockEach'
      BY <2>1, <2>3, SameBlocks DEF ManagerInv
    <3>3. QED
      BY <3>1, <3>2
  <2>5. Nested' /\ InnermostContext'
    BY <2>1, <2>3 DEF ManagerInv, Nested, InnermostContext
  <2>6. QED
    BY <2>2, <2>4, <2>5
<1>3. QED
  BY <1>1, <1>2 DEF ManagerInv

\* The _current.set() of __enter__.
LEMMA EnterSetsKeeps ==
  ASSUME ManagerInv, NEW t \in Task, EnterSets(t)
  PROVE  ManagerInv'
<1> DEFINE m == entering[t]
<1> DEFINE b == [manager |-> m, outer |-> bound[t]]
<1>1. m \in Manager /\ bound[t] \in Nobody /\ blocks[t] \in Seq(Block)
  BY DEF ManagerInv, ManagerTyped, EnterSets, Nobody
<1>2. b \in Block /\ b.manager = m /\ b.outer = bound[t]
  BY <1>1 DEF Block
<1>3. /\ DOMAIN blocks' = Task /\ blocks'[t] = Append(blocks[t], b)
      /\ \A u \in Task \ {t} : blocks'[u] = blocks[u]
      /\ DOMAIN token' = Manager /\ token'[m] = [task |-> t, old |-> bound[t]]
      /\ \A n \in Manager \ {m} : token'[n] = token[n]
      /\ DOMAIN bound' = Task /\ bound'[t] = m /\ \A u \in Task \ {t} : bound'[u] = bound[u]
      /\ DOMAIN entering' = Task /\ entering'[t] = NoManager
      /\ \A u \in Task \ {t} : entering'[u] = entering[u]
      /\ collided' = collided /\ entered' = entered
  BY <1>1 DEF ManagerInv, ManagerTyped, EnterSets
<1> DEFINE n == Len(blocks[t])
<1>4. /\ blocks'[t] \in Seq(Block) /\ n \in Nat /\ Len(blocks'[t]) = n + 1
      /\ blocks'[t][n + 1] = b
      /\ \A i \in 1..n : blocks'[t][i] = blocks[t][i]
      /\ blocks'[t] # <<>>
  BY <1>1, <1>2, <1>3, AppendFacts
<1>5. ManagerTyped'
  <2>1. [task |-> t, old |-> bound[t]] \in ManagerToken
    BY <1>1 DEF ManagerToken
  <2>2. QED
    BY <1>1, <1>2, <2>1, AppendFacts DEF ManagerInv, ManagerTyped, EnterSets, Nobody
<1>6. ASSUME ~collided'
      PROVE  (InUse /\ OneBlockEach /\ Nested /\ EnteringFree /\ InnermostContext)'
  <2> HIDE DEF b, n
  <2>1. InUse /\ OneBlockEach /\ Nested /\ EnteringFree /\ InnermostContext
    BY <1>3, <1>6 DEF ManagerInv
  <2>2. \A u \in Task : \A i \in 1..Len(blocks[u]) :
          /\ blocks[u][i].manager \in Manager /\ blocks[u][i].manager # m
          /\ blocks[u][i] \in Block
    <3> SUFFICES ASSUME NEW u \in Task, NEW i \in 1..Len(blocks[u])
                 PROVE  /\ blocks[u][i].manager \in Manager /\ blocks[u][i].manager # m
                        /\ blocks[u][i] \in Block
      OBVIOUS
    <3>1. blocks[u][i] \in Block
      BY DEF ManagerInv, ManagerTyped
    <3>2. blocks[u][i].manager \in Manager /\ blocks[u][i].outer \in Nobody
      BY <3>1 DEF Block
    <3>3. token[blocks[u][i].manager] # NoManager
      <4>1. token[blocks[u][i].manager] = [task |-> u, old |-> blocks[u][i].outer]
        BY <2>1 DEF InUse
      <4>2. [task |-> u, old |-> blocks[u][i].outer] \in [task : Task, old : Manager \union {NoManager}]
        BY <3>2 DEF Nobody
      <4>3. QED
        BY <4>1, <4>2, TokenAssumption
    <3>4. token[m] = NoManager
      BY <1>1, <2>1, ManagerAssumption DEF EnteringFree
    <3>5. QED
      BY <3>1, <3>2, <3>3, <3>4
  <2>3. \A u \in Task : \A i \in 1..Len(blocks'[u]) :
          \/ i \in 1..Len(blocks[u]) /\ blocks'[u][i] = blocks[u][i]
          \/ u = t /\ i = n + 1 /\ blocks'[u][i] = b
    BY <1>3, <1>4 DEF n
  <2>4. InUse'
    BY <1>2, <1>3, <2>1, <2>2, <2>3 DEF InUse
  <2>5. OneBlockEach'
    <3> SUFFICES ASSUME NEW u \in Task, NEW v \in Task,
                        NEW i \in 1..Len(blocks'[u]), NEW j \in 1..Len(blocks'[v]),
                        blocks'[u][i].manager = blocks'[v][j].manager
                 PROVE  u = v /\ i = j
      BY DEF OneBlockEach
    <3>1. CASE i \in 1..Len(blocks[u]) /\ blocks'[u][i] = blocks[u][i]
      <4>1. blocks'[v][j].manager # m
        BY <2>2, <3>1
      <4>2. j \in 1..Len(blocks[v]) /\ blocks'[v][j] = blocks[v][j]
        BY <1>2, <2>3, <4>1
      <4>3. QED
        BY <2>1, <3>1, <4>2 DEF OneBlockEach
    <3>2. CASE u = t /\ i = n + 1 /\ blocks'[u][i] = b
      <4>1. blocks'[v][j].manager = m
        BY <1>2, <3>2
      <4>2. QED
        BY <2>2, <2>3, <3>2, <4>1, SMTT(30)
    <3>3. QED
      BY <2>3, <3>1, <3>2
  <2>6. Nested'
    <3> SUFFICES ASSUME NEW u \in Task, NEW i \in 1..Len(blocks'[u])
                 PROVE  blocks'[u][i].outer = IF i = 1 THEN NoManager ELSE blocks'[u][i - 1].manager
      BY DEF Nested
    <3>1. CASE u # t
      BY <1>3, <2>1, <3>1 DEF Nested
    <3>2. CASE u = t /\ i \in 1..n
      <4>1. blocks'[u][i] = blocks[t][i] /\ (i # 1 => blocks'[u][i - 1] = blocks[t][i - 1])
        BY <1>4, <3>2
      <4>2. QED
        BY <2>1, <3>2, <4>1 DEF Nested, n
    <3>3. CASE u = t /\ i = n + 1
      <4>1. bound[t] = IF n = 0 THEN NoManager ELSE blocks[t][n].manager
        BY <1>1, <1>3, <1>6, <2>1 DEF InnermostContext, n
      <4>2. n # 0 => blocks'[t][n] = blocks[t][n]
        BY <1>4
      <4>3. QED
        BY <1>2, <1>4, <3>3, <4>1, <4>2
    <3>4. QED
      BY <1>4, <3>1, <3>2, <3>3
  <2>7. EnteringFree'
    BY <1>1, <1>3, <2>1 DEF EnteringFree, ManagerInv, ManagerTyped, Nobody
  <2>8. InnermostContext'
    BY <1>2, <1>3, <1>4, <1>6, <2>1 DEF InnermostContext
  <2>9. QED
    BY <2>4, <2>5, <2>6, <2>7, <2>8
<1>7. QED
  BY <1>5, <1>6 DEF ManagerInv

\* __exit__: the token is the block's own, so the block's outer context is back.
LEMMA ExitBlockKeeps ==
  ASSUME ManagerInv, NEW t \in Task, ExitBlock(t)
  PROVE  ManagerInv'
<1> DEFINE n == Len(blocks[t])
<1> DEFINE last == blocks[t][n]
<1> DEFINE m == last.manager
<1>1. blocks[t] \in Seq(Block) /\ blocks[t] # <<>>
  BY DEF ManagerInv, ManagerTyped, ExitBlock
<1>2. n \in Nat \ {0} /\ last \in Block
  BY <1>1
<1>3. m \in Manager /\ last.outer \in Nobody
  BY <1>2 DEF Block
<1>4. /\ DOMAIN blocks' = Task /\ blocks'[t] = SubSeq(blocks[t], 1, n - 1)
      /\ \A u \in Task \ {t} : blocks'[u] = blocks[u]
      /\ entering' = entering /\ collided' = collided /\ entered' = entered
  BY DEF ManagerInv, ManagerTyped, ExitBlock
<1>5. /\ blocks'[t] \in Seq(Block) /\ Len(blocks'[t]) = n - 1
      /\ \A i \in 1..(n - 1) : blocks'[t][i] = blocks[t][i]
      /\ (blocks'[t] = <<>> <=> n = 1)
  BY <1>1, <1>4, FrontFacts
<1>6. ManagerTyped'
  <2>1. blocks' \in [Task -> Seq(Block)]
    BY <1>5 DEF ManagerInv, ManagerTyped, ExitBlock
  <2>2. token[m] # NoManager => token[m].old \in Nobody
    BY <1>3 DEF ManagerInv, ManagerTyped, ManagerToken
  <2>3. bound' \in [Task -> Nobody] /\ token' \in [Manager -> ManagerToken]
    BY <2>2 DEF ManagerInv, ManagerTyped, ExitBlock, ManagerToken
  <2>4. QED
    BY <1>4, <2>1, <2>3 DEF ManagerInv, ManagerTyped
<1>7. ASSUME ~collided'
      PROVE  (InUse /\ OneBlockEach /\ Nested /\ EnteringFree /\ InnermostContext)'
  <2>1. InUse /\ OneBlockEach /\ Nested /\ EnteringFree /\ InnermostContext
    BY <1>4, <1>7 DEF ManagerInv
  <2>2. token[m] = [task |-> t, old |-> last.outer]
    <3>1. n \in 1..Len(blocks[t])
      BY <1>2
    <3>2. token[blocks[t][n].manager] = [task |-> t, old |-> blocks[t][n].outer]
      BY <2>1, <3>1, Zenon DEF InUse
    <3>3. QED
      BY <3>2
  <2>3. token[m] # NoManager
    <3>1. [task |-> t, old |-> last.outer] \in [task : Task, old : Manager \union {NoManager}]
      BY <1>3 DEF Nobody
    <3>2. QED
      BY <2>2, <3>1, TokenAssumption
  <2>4. /\ DOMAIN bound = Task /\ DOMAIN token = Manager
        /\ bound' = [bound EXCEPT ![t] = last.outer]
        /\ token' = [token EXCEPT ![m] = NoManager]
    BY <2>2, <2>3 DEF ManagerInv, ManagerTyped, ExitBlock
  <2>5. \A u \in Task : \A i \in 1..Len(blocks'[u]) :
          /\ i \in 1..Len(blocks[u]) /\ blocks'[u][i] = blocks[u][i]
          /\ ~(u = t /\ i = n)
    BY <1>2, <1>4, <1>5
  <2>6. \A u \in Task : \A i \in 1..Len(blocks[u]) : blocks[u][i].manager \in Manager
    <3> SUFFICES ASSUME NEW u \in Task, NEW i \in 1..Len(blocks[u])
                 PROVE  blocks[u][i].manager \in Manager
      OBVIOUS
    <3>1. blocks[u][i] \in Block
      BY DEF ManagerInv, ManagerTyped
    <3>2. QED
      BY <3>1 DEF Block
  <2> HIDE DEF m, last, n
  <2>7. InUse'
    <3> SUFFICES ASSUME NEW u \in Task, NEW i \in 1..Len(blocks'[u])
                 PROVE  token'[blocks'[u][i].manager] = [task |-> u, old |-> blocks'[u][i].outer]
      BY DEF InUse
    <3>1. i \in 1..Len(blocks[u]) /\ blocks'[u][i] = blocks[u][i] /\ ~(u = t /\ i = n)
      BY <2>5
    <3>2. blocks[u][i].manager # m
      BY <1>2, <2>1, <3>1 DEF OneBlockEach, m, last, n
    <3>3. QED
      BY <2>1, <2>4, <2>6, <3>1, <3>2 DEF InUse
  <2>8. OneBlockEach'
    <3> SUFFICES ASSUME NEW u \in Task, NEW v \in Task,
                        NEW i \in 1..Len(blocks'[u]), NEW j \in 1..Len(blocks'[v]),
                        blocks'[u][i].manager = blocks'[v][j].manager
                 PROVE  u = v /\ i = j
      BY DEF OneBlockEach
    <3>1. /\ i \in 1..Len(blocks[u]) /\ blocks'[u][i] = blocks[u][i]
          /\ j \in 1..Len(blocks[v]) /\ blocks'[v][j] = blocks[v][j]
      BY <2>5
    <3>2. QED
      BY <2>1, <3>1 DEF OneBlockEach
  <2>9. Nested'
    <3> SUFFICES ASSUME NEW u \in Task, NEW i \in 1..Len(blocks'[u])
                 PROVE  blocks'[u][i].outer = IF i = 1 THEN NoManager ELSE blocks'[u][i - 1].manager
      BY DEF Nested
    <3>1. blocks[u][i].outer = IF i = 1 THEN NoManager ELSE blocks[u][i - 1].manager
      BY <2>1, <2>5 DEF Nested
    <3>2. i # 1 => i - 1 \in 1..Len(blocks'[u])
      <4>1. Len(blocks'[u]) \in Nat
        BY <1>6 DEF ManagerTyped
      <4>2. QED
        BY <4>1
    <3>3. QED
      BY <2>5, <3>1, <3>2
  <2>10. EnteringFree'
    BY <1>3, <1>4, <2>1, <2>4 DEF EnteringFree, ManagerInv, ManagerTyped, Nobody
  <2>11. InnermostContext'
    <3> SUFFICES ASSUME NEW u \in Task
                 PROVE  bound'[u] = IF blocks'[u] = <<>> THEN NoManager
                                    ELSE blocks'[u][Len(blocks'[u])].manager
      BY DEF InnermostContext
    <3>1. CASE u # t
      BY <1>4, <1>7, <2>1, <2>4, <3>1 DEF InnermostContext
    <3>2. CASE u = t
      <4>1. last.outer = IF n = 1 THEN NoManager ELSE blocks[t][n - 1].manager
        <5>1. n \in 1..Len(blocks[t])
          BY <1>2 DEF n
        <5>2. QED
          BY <2>1, <5>1 DEF Nested, last
      <4>2. n # 1 => blocks'[t][n - 1] = blocks[t][n - 1]
        BY <1>2, <1>5
      <4>3. QED
        BY <1>5, <2>4, <3>2, <4>1, <4>2
    <3>3. QED
      BY <3>1, <3>2
  <2>12. QED
    BY <2>7, <2>8, <2>9, <2>10, <2>11
<1>8. QED
  BY <1>6, <1>7 DEF ManagerInv

\* The invariant of the managers, whoever else moves.
LEMMA ManagerInvStep ==
  ASSUME ManagerInv, ManagerNext \/ UNCHANGED managerVars
  PROVE  ManagerInv'
<1>1. CASE ManagerNext
  BY <1>1, EnterChecksKeeps, EnterSetsKeeps, ExitBlockKeeps DEF ManagerNext
<1>2. CASE UNCHANGED managerVars
  <2>1. /\ bound' = bound /\ token' = token /\ entering' = entering /\ blocks' = blocks
        /\ collided' = collided /\ entered' = entered
    BY <1>2 DEF managerVars
  <2>2. ManagerTyped' <=> ManagerTyped
    BY <2>1 DEF ManagerTyped
  <2>3. (InUse' <=> InUse) /\ (Nested' <=> Nested)
    BY <2>1 DEF InUse, Nested
  <2>4. OneBlockEach => OneBlockEach'
    BY <2>1, SameBlocks
  <2>5. (EnteringFree' <=> EnteringFree) /\ (InnermostContext' <=> InnermostContext)
    BY <2>1 DEF EnteringFree, InnermostContext
  <2>6. QED
    BY <2>1, <2>2, <2>3, <2>4, <2>5 DEF ManagerInv
<1>3. QED
  BY <1>1, <1>2

-----------------------------------------------------------------------------
(* Reads. *)

\* A queryset was built in a context, and its predicates are that context's.
Predicates ==
  \A q \in QuerySet : querysets[q] # NotBuilt =>
    /\ querysets[q].context \in Manager
    /\ querysets[q].scopes = {ScopeOf[querysets[q].context]}

\* What an iterator has still to yield is of the scope of its queryset.
Yields ==
  \A q \in QuerySet : cursor[q] # {} =>
    /\ querysets[q] # NotBuilt
    /\ \A row \in cursor[q] : RowScope[row] = ScopeOf[querysets[q].context]

ReadsTyped ==
  /\ querysets \in [QuerySet -> [context : Nobody, scopes : SUBSET {ScopeOf[m] : m \in Manager},
                                 cached : BOOLEAN]]
  /\ cursor \in [QuerySet -> SUBSET Row]
  /\ seenRows \subseteq Row \X Manager
  /\ cacheRows \subseteq Row \X Nobody

\* What is in the cache of a queryset was handed out in its own context.
CachesSeen ==
  \A q \in QuerySet : querysets[q].cached =>
    \A row \in Rows(q) : <<row, querysets[q].context>> \in seenRows

ReadsInv == ManagerInv /\ ReadsTyped /\ Predicates /\ Yields /\ CachesSeen /\ RowsInScope

\* Nothing is built, and no row was handed out, at the start.
LEMMA InitReadsInv == ReadsInit => ReadsInv
<1> SUFFICES ASSUME ReadsInit PROVE ReadsInv
  OBVIOUS
<1>1. ManagerInv
  BY InitManagerInv DEF ReadsInit
<1>2. ReadsTyped
  BY DEF ReadsInit, ReadsTyped, NotBuilt, Nobody
<1>3. Predicates /\ Yields /\ CachesSeen /\ RowsInScope
  BY DEF ReadsInit, Predicates, Yields, CachesSeen, RowsInScope, NotBuilt
<1>4. QED
  BY <1>1, <1>2, <1>3 DEF ReadsInv

\* What a queryset selects is of the scope of its context.
LEMMA RowsOfContext ==
  ASSUME Predicates, NEW q \in QuerySet, querysets[q] # NotBuilt
  PROVE  /\ Rows(q) \subseteq Row
         /\ \A row \in Rows(q) : RowScope[row] = ScopeOf[querysets[q].context]
<1>1. querysets[q].scopes = {ScopeOf[querysets[q].context]}
  BY DEF Predicates
<1>2. QED
  BY <1>1 DEF Rows

\* get_queryset()
LEMMA BuildKeeps ==
  ASSUME ReadsInv, NEW t \in Task, NEW q \in QuerySet, BuildQuerySet(t, q)
  PROVE  ReadsInv'
<1> DEFINE new == [context |-> bound[t], scopes |-> {ScopeOf[bound[t]]}, cached |-> FALSE]
<1>1. ManagerInv'
  BY ManagerInvStep DEF ReadsInv, BuildQuerySet
<1>2. bound[t] \in Manager
  BY DEF ReadsInv, ManagerInv, ManagerTyped, BuildQuerySet, Nobody
<1>3. /\ querysets' = [querysets EXCEPT ![q] = new] /\ cursor' = cursor /\ seenRows' = seenRows
      /\ cacheRows' = cacheRows /\ querysets[q] = NotBuilt
  BY DEF BuildQuerySet
<1>4. new \in [context : Nobody, scopes : SUBSET {ScopeOf[m] : m \in Manager}, cached : BOOLEAN]
  BY <1>2 DEF Nobody
<1>5. ReadsTyped'
  BY <1>3, <1>4 DEF ReadsInv, ReadsTyped
<1>6. Predicates'
  <2> SUFFICES ASSUME NEW p \in QuerySet, querysets'[p] # NotBuilt
               PROVE  /\ querysets'[p].context \in Manager
                      /\ querysets'[p].scopes = {ScopeOf[querysets'[p].context]}
    BY DEF Predicates
  <2>1. CASE p = q
    <3>1. querysets'[q] = new
      BY <1>3 DEF ReadsInv, ReadsTyped
    <3>2. QED
      BY <1>2, <2>1, <3>1
  <2>2. CASE p # q
    BY <1>3, <2>2 DEF ReadsInv, ReadsTyped, Predicates
  <2>3. QED
    BY <2>1, <2>2
<1>7. Yields'
  <2> SUFFICES ASSUME NEW p \in QuerySet, cursor'[p] # {}
               PROVE  /\ querysets'[p] # NotBuilt
                      /\ \A row \in cursor'[p] : RowScope[row] = ScopeOf[querysets'[p].context]
    BY DEF Yields
  <2>1. p # q
    BY <1>3 DEF ReadsInv, Yields
  <2>2. QED
    BY <1>3, <2>1 DEF ReadsInv, ReadsTyped, Yields
<1>8. RowsInScope'
  BY <1>3 DEF ReadsInv, RowsInScope
<1>9. CachesSeen'
  BY <1>3 DEF ReadsInv, ReadsTyped, CachesSeen, Rows
<1>10. QED
  BY <1>1, <1>5, <1>6, <1>7, <1>8, <1>9 DEF ReadsInv

\* A step that hands out rows of the context's scope only keeps RowsInScope.
LEMMA HandedOut ==
  ASSUME ReadsInv, NEW c \in Manager, NEW found \in SUBSET Row,
         \A row \in found : RowScope[row] = ScopeOf[c],
         seenRows' = seenRows \union (found \X {c}), UNCHANGED cacheRows
  PROVE  seenRows' \subseteq Row \X Manager /\ RowsInScope'
<1>1. found \X {c} \subseteq Row \X Manager
  OBVIOUS
<1>2. \A seen \in found \X {c} : RowScope[seen[1]] = ScopeOf[seen[2]]
  OBVIOUS
<1>3. QED
  BY <1>1, <1>2 DEF ReadsInv, ReadsTyped, RowsInScope

\* Iteration, len(), bool(), count() ...: the context was checked.
LEMMA EvaluateKeeps ==
  ASSUME ReadsInv, NEW t \in Task, NEW q \in QuerySet, Evaluate(t, q)
  PROVE  ReadsInv'
<1>1. ManagerInv'
  BY ManagerInvStep DEF ReadsInv, Evaluate
<1>2. /\ querysets' = [querysets EXCEPT ![q].cached = TRUE] /\ cursor' = cursor
      /\ seenRows' = seenRows \union (Rows(q) \X {bound[t]}) /\ cacheRows' = cacheRows
      /\ querysets[q] # NotBuilt /\ bound[t] = querysets[q].context
  BY DEF Evaluate, CheckContext
<1>3. \A p \in QuerySet : /\ querysets'[p].context = querysets[p].context
                          /\ querysets'[p].scopes = querysets[p].scopes
                          /\ (querysets'[p] # NotBuilt) = (querysets[p] # NotBuilt)
  <2> SUFFICES ASSUME NEW p \in QuerySet
               PROVE  /\ querysets'[p].context = querysets[p].context
                      /\ querysets'[p].scopes = querysets[p].scopes
                      /\ (querysets'[p] # NotBuilt) = (querysets[p] # NotBuilt)
    OBVIOUS
  <2>1. CASE p # q
    BY <1>2, <2>1 DEF ReadsInv, ReadsTyped
  <2>2. CASE p = q
    <3>1. querysets'[q].context = querysets[q].context /\ querysets'[q].scopes = querysets[q].scopes
      BY <1>2 DEF ReadsInv, ReadsTyped
    <3>2. querysets[q].context \in Manager
      BY <1>2 DEF ReadsInv, Predicates
    <3>3. querysets'[q].context # NotBuilt.context
      BY <3>1, <3>2, ManagerAssumption DEF NotBuilt
    <3>4. QED
      BY <1>2, <2>2, <3>1, <3>3
  <2>3. QED
    BY <2>1, <2>2
<1>4. Predicates' /\ Yields'
  BY <1>2, <1>3 DEF ReadsInv, Predicates, Yields
<1>5. querysets[q].context \in Manager
  BY <1>2 DEF ReadsInv, Predicates
<1>6. /\ Rows(q) \subseteq Row
      /\ \A row \in Rows(q) : RowScope[row] = ScopeOf[querysets[q].context]
  BY <1>2, RowsOfContext DEF ReadsInv
<1>7. seenRows' \subseteq Row \X Manager /\ RowsInScope'
  BY <1>2, <1>5, <1>6, HandedOut
<1>8. querysets' \in [QuerySet -> [context : Nobody, scopes : SUBSET {ScopeOf[m] : m \in Manager},
                                   cached : BOOLEAN]]
  BY <1>2 DEF ReadsInv, ReadsTyped
<1>9. CachesSeen'
  <2> SUFFICES ASSUME NEW p \in QuerySet, querysets'[p].cached, NEW row \in Rows(p)'
               PROVE  <<row, querysets'[p].context>> \in seenRows'
    BY DEF CachesSeen
  <2>1. row \in Rows(p)
    BY <1>3 DEF Rows
  <2>2. CASE p = q
    BY <1>2, <1>3, <2>1, <2>2
  <2>3. CASE p # q
    <3>1. querysets'[p] = querysets[p]
      BY <1>2, <2>3 DEF ReadsInv, ReadsTyped
    <3>2. QED
      BY <1>2, <2>1, <3>1 DEF ReadsInv, CachesSeen
  <2>4. QED
    BY <2>2, <2>3
<1>10. QED
  BY <1>1, <1>2, <1>4, <1>7, <1>8, <1>9 DEF ReadsInv, ReadsTyped

\* Indexing and the like, in any context: the cache was filled in its own.
LEMMA ReadCachedKeeps ==
  ASSUME ReadsInv, NEW t \in Task, NEW q \in QuerySet, ReadCached(t, q)
  PROVE  ReadsInv'
<1>1. ManagerInv'
  BY ManagerInvStep DEF ReadsInv, ReadCached
<1>2. PICK row \in Rows(q) : cacheRows' = cacheRows \union {<<row, bound[t]>>}
  BY DEF ReadCached
<1>3. /\ querysets' = querysets /\ cursor' = cursor /\ seenRows' = seenRows
      /\ querysets[q].cached
  BY DEF ReadCached
<1>4. querysets[q] # NotBuilt
  BY <1>3 DEF NotBuilt
<1>5. row \in Row /\ RowScope[row] = ScopeOf[querysets[q].context]
  BY <1>4, RowsOfContext DEF ReadsInv
<1>6. <<row, querysets[q].context>> \in seenRows
  BY <1>3 DEF ReadsInv, CachesSeen
<1>7. bound[t] \in Nobody
  BY DEF ReadsInv, ManagerInv, ManagerTyped
<1>8. ReadsTyped'
  BY <1>2, <1>3, <1>5, <1>7 DEF ReadsInv, ReadsTyped
<1>9. Predicates' /\ Yields' /\ CachesSeen'
  BY <1>3 DEF ReadsInv, Predicates, Yields, CachesSeen, Rows
<1>10. RowsInScope'
  <2>1. \A kept \in cacheRows' :
          \E seen \in seenRows : seen[1] = kept[1] /\ RowScope[kept[1]] = ScopeOf[seen[2]]
    <3> SUFFICES ASSUME NEW kept \in cacheRows'
                 PROVE  \E seen \in seenRows : /\ seen[1] = kept[1]
                                               /\ RowScope[kept[1]] = ScopeOf[seen[2]]
      OBVIOUS
    <3>1. CASE kept \in cacheRows
      BY <3>1 DEF ReadsInv, RowsInScope
    <3>2. CASE kept = <<row, bound[t]>>
      BY <1>5, <1>6, <3>2
    <3>3. QED
      BY <1>2, <3>1, <3>2
  <2>2. QED
    BY <1>3, <2>1 DEF ReadsInv, RowsInScope
<1>11. QED
  BY <1>1, <1>8, <1>9, <1>10 DEF ReadsInv

\* iterator(), when it starts.
LEMMA OpenIteratorKeeps ==
  ASSUME ReadsInv, NEW t \in Task, NEW q \in QuerySet, OpenIterator(t, q)
  PROVE  ReadsInv'
<1>1. ManagerInv'
  BY ManagerInvStep DEF ReadsInv, OpenIterator
<1>2. /\ cursor' = [cursor EXCEPT ![q] = Rows(q)] /\ querysets' = querysets /\ seenRows' = seenRows
      /\ cacheRows' = cacheRows /\ querysets[q] # NotBuilt
  BY DEF OpenIterator
<1>3. /\ Rows(q) \subseteq Row
      /\ \A row \in Rows(q) : RowScope[row] = ScopeOf[querysets[q].context]
  BY <1>2, RowsOfContext DEF ReadsInv
<1>4. ReadsTyped'
  BY <1>2, <1>3 DEF ReadsInv, ReadsTyped
<1>5. Predicates' /\ RowsInScope' /\ CachesSeen'
  BY <1>2 DEF ReadsInv, Predicates, RowsInScope, CachesSeen, Rows
<1>6. Yields'
  BY <1>2, <1>3 DEF ReadsInv, ReadsTyped, Yields
<1>7. QED
  BY <1>1, <1>4, <1>5, <1>6 DEF ReadsInv

\* iterator(), one item further, in whatever context it is resumed.
LEMMA NextItemKeeps ==
  ASSUME ReadsInv, NEW t \in Task, NEW q \in QuerySet, NextItem(t, q)
  PROVE  ReadsInv'
<1>1. ManagerInv'
  BY ManagerInvStep DEF ReadsInv, NextItem
<1>2. querysets' = querysets /\ cacheRows' = cacheRows /\ cursor[q] # {}
  BY DEF NextItem
<1>3. Predicates' /\ CachesSeen'
  <2>1. seenRows \subseteq seenRows'
    BY DEF NextItem
  <2>2. QED
    BY <1>2, <2>1 DEF ReadsInv, Predicates, CachesSeen, Rows
<1>4. CASE CheckContext(t, q)
  <2>1. PICK row \in cursor[q] : /\ cursor' = [cursor EXCEPT ![q] = @ \ {row}]
                                 /\ seenRows' = seenRows \union {<<row, bound[t]>>}
    BY <1>4 DEF NextItem
  <2>2. /\ bound[t] = querysets[q].context /\ querysets[q].context \in Manager
        /\ row \in Row /\ RowScope[row] = ScopeOf[querysets[q].context]
    BY <1>2, <1>4 DEF CheckContext, ReadsInv, ReadsTyped, Yields, Predicates
  <2>3. {<<row, bound[t]>>} = {row} \X {bound[t]}
    OBVIOUS
  <2>4. seenRows' \subseteq Row \X Manager /\ RowsInScope'
    <3>1. {row} \in SUBSET Row /\ \A r \in {row} : RowScope[r] = ScopeOf[bound[t]]
      BY <2>2
    <3>2. seenRows' = seenRows \union ({row} \X {bound[t]}) /\ bound[t] \in Manager
      BY <2>1, <2>2, <2>3
    <3>3. QED
      BY <1>2, <3>1, <3>2, HandedOut
  <2>5. cursor' \in [QuerySet -> SUBSET Row] /\ Yields'
    BY <1>2, <2>1 DEF ReadsInv, ReadsTyped, Yields
  <2>6. QED
    BY <1>1, <1>2, <1>3, <2>4, <2>5 DEF ReadsInv, ReadsTyped
<1>5. CASE ~CheckContext(t, q)
  <2>1. cursor' = [cursor EXCEPT ![q] = {}] /\ seenRows' = seenRows
    BY <1>5 DEF NextItem
  <2>2. ReadsTyped' /\ Yields' /\ RowsInScope'
    BY <1>2, <2>1 DEF ReadsInv, ReadsTyped, Yields, RowsInScope
  <2>3. QED
    BY <1>1, <1>3, <2>2 DEF ReadsInv
<1>6. QED
  BY <1>4, <1>5

\* q1 & q2 and the like: both are of the same context.
LEMMA CombineKeeps ==
  ASSUME ReadsInv, NEW t \in Task, NEW q \in QuerySet, NEW other \in QuerySet, Combine(t, q, other)
  PROVE  ReadsInv'
<1>1. ManagerInv'
  BY ManagerInvStep DEF ReadsInv, Combine
<1>2. /\ querysets[q] # NotBuilt /\ querysets[other] # NotBuilt
      /\ querysets[q].context = querysets[other].context
      /\ cursor' = cursor /\ seenRows' = seenRows /\ cacheRows' = cacheRows
      /\ querysets' = [querysets EXCEPT ![q].scopes = @ \union querysets[other].scopes,
                                             ![q].cached = FALSE]
  BY DEF Combine, CheckContext
<1>3. /\ querysets[q].context \in Manager
      /\ querysets[q].scopes = {ScopeOf[querysets[q].context]}
      /\ querysets[other].scopes = {ScopeOf[querysets[q].context]}
  BY <1>2 DEF ReadsInv, Predicates
<1>4. querysets[q] \in [context : Nobody, scopes : SUBSET {ScopeOf[m] : m \in Manager},
                        cached : BOOLEAN]
  BY DEF ReadsInv, ReadsTyped
<1>5. querysets'[q] = [context |-> querysets[q].context, scopes |-> querysets[q].scopes,
                       cached |-> FALSE]
  <2>1. querysets[q].scopes \union querysets[other].scopes = querysets[q].scopes
    BY <1>3
  <2>2. QED
    BY <1>2, <1>4, <2>1 DEF ReadsInv, ReadsTyped
<1>6. \A p \in QuerySet \ {q} : querysets'[p] = querysets[p]
  BY <1>2 DEF ReadsInv, ReadsTyped
<1>7. querysets'[q] # NotBuilt
  BY <1>3, <1>5, ManagerAssumption DEF NotBuilt
<1>8. ReadsTyped'
  <2>1. querysets'[q] \in [context : Nobody, scopes : SUBSET {ScopeOf[m] : m \in Manager},
                           cached : BOOLEAN]
    BY <1>4, <1>5
  <2>2. querysets' \in [QuerySet -> [context : Nobody, scopes : SUBSET {ScopeOf[m] : m \in Manager},
                                     cached : BOOLEAN]]
    BY <1>2, <1>6, <2>1 DEF ReadsInv, ReadsTyped
  <2>3. QED
    BY <1>2, <2>2 DEF ReadsInv, ReadsTyped
<1>9. Predicates'
  BY <1>3, <1>5, <1>6 DEF ReadsInv, Predicates
<1>10. Yields' /\ RowsInScope' /\ CachesSeen'
  <2>1. \A p \in QuerySet : querysets'[p].context = querysets[p].context
    BY <1>5, <1>6
  <2>2. \A p \in QuerySet : querysets[p] # NotBuilt => querysets'[p] # NotBuilt
    BY <1>6, <1>7
  <2>3. Yields'
    <3> SUFFICES ASSUME NEW p \in QuerySet, cursor'[p] # {}
                 PROVE  /\ querysets'[p] # NotBuilt
                        /\ \A row \in cursor'[p] : RowScope[row] = ScopeOf[querysets'[p].context]
      BY DEF Yields
    <3>1. cursor[p] = cursor'[p] /\ querysets'[p].context = querysets[p].context
      BY <1>2, <2>1
    <3>2. /\ querysets[p] # NotBuilt
          /\ \A row \in cursor[p] : RowScope[row] = ScopeOf[querysets[p].context]
      BY <3>1 DEF ReadsInv, Yields
    <3>3. QED
      BY <2>2, <3>1, <3>2
  <2>4. RowsInScope'
    BY <1>2 DEF ReadsInv, RowsInScope
  <2>5. CachesSeen'
    <3> SUFFICES ASSUME NEW p \in QuerySet, querysets'[p].cached, NEW row \in Rows(p)'
                 PROVE  <<row, querysets'[p].context>> \in seenRows'
      BY DEF CachesSeen
    <3>1. p # q
      BY <1>5
    <3>2. querysets'[p] = querysets[p]
      BY <1>6, <3>1
    <3>3. row \in Rows(p)
      BY <3>2 DEF Rows
    <3>4. QED
      BY <1>2, <3>2, <3>3 DEF ReadsInv, CachesSeen
  <2>6. QED
    BY <2>3, <2>4, <2>5
<1>11. QED
  BY <1>1, <1>8, <1>9, <1>10 DEF ReadsInv

\* Blocks entered and left between reads do not touch what was built.
LEMMA ReadsInvStep == ReadsInv /\ [ReadsNext]_<<managerVars, readVars>> => ReadsInv'
<1> SUFFICES ASSUME ReadsInv, [ReadsNext]_<<managerVars, readVars>>
             PROVE  ReadsInv'
  OBVIOUS
<1>1. ASSUME ManagerNext \/ UNCHANGED managerVars, UNCHANGED readVars
      PROVE  ReadsInv'
  <2>1. ManagerInv'
    BY <1>1, ManagerInvStep DEF ReadsInv
  <2>2. /\ querysets' = querysets /\ cursor' = cursor /\ seenRows' = seenRows
        /\ cacheRows' = cacheRows
    BY <1>1 DEF readVars
  <2>3. QED
    BY <2>1, <2>2 DEF ReadsInv, ReadsTyped, Predicates, Yields, CachesSeen, Rows, RowsInScope
<1>2. ASSUME NEW t \in Task, NEW q \in QuerySet,
             \/ BuildQuerySet(t, q) \/ Evaluate(t, q) \/ ReadCached(t, q)
             \/ OpenIterator(t, q) \/ NextItem(t, q)
             \/ \E other \in QuerySet : Combine(t, q, other)
      PROVE  ReadsInv'
  BY <1>2, BuildKeeps, EvaluateKeeps, ReadCachedKeeps, OpenIteratorKeeps, NextItemKeeps, CombineKeeps
<1>3. QED
  BY <1>1, <1>2 DEF ReadsNext

\* "Always restores the enclosing context" (context.py): whatever blocks are
\* entered, left, nested and shared by tasks, and whatever is read in them, a
\* task runs in the context of its innermost block, unless two tasks were past
\* the check of one manager at once.
THEOREM ContextRestored == ReadsSpec => []InnermostContext
<1>1. ReadsInv => InnermostContext
  BY DEF ReadsInv, ManagerInv, InnermostContext
<1>2. QED
  BY <1>1, InitReadsInv, ReadsInvStep, PTL DEF ReadsSpec

\* docs/guarantees.md: a query brings a row only to code in a context of its
\* scope, with any number of tasks, managers, querysets and rows, whether or not
\* two tasks collided in a manager; and the rows that indexing and the like hand
\* out of a cache, in any context, were brought to such code before.
THEOREM ReadsStayInScope == ReadsSpec => []RowsInScope
<1>1. ReadsInv => RowsInScope
  BY DEF ReadsInv
<1>2. QED
  BY <1>1, InitReadsInv, ReadsInvStep, PTL DEF ReadsSpec

-----------------------------------------------------------------------------
(* Registration.                                                           *)

\* The relations that need a guard when these models are registered, and those
\* of them that need one at their other end too.
Between(registered) == {r \in Relation : {r.model, r.target} \subseteq Enforced(registered)}

Visible(registered) == {r \in Between(registered) : r.one_to_one /\ ~r.hidden}

RegistrationInv == RegistrationTypeOK /\ GuardsComplete

\* A model is registered after its class was created, so that between enforced
\* models no relation is named by a string only.
LEMMA EnforcedResolved ==
  ASSUME NEW registered, DOMAIN registered \subseteq classes
  PROVE  Forward(registered) = Between(registered)
BY DEF Forward, Between, Enforced, Resolved

\* Once all models are known the reverse accessors of all relations are.
LEMMA VisibleReversed ==
  ASSUME NEW registered, DOMAIN registered \subseteq classes, appsStage # "importing"
  PROVE  Reversed(registered) = Visible(registered)
BY EnforcedResolved DEF Reversed, Visible

\* GuardsComplete in these terms.
LEMMA CompleteMeans ==
  GuardsComplete <=>
    /\ guarded \subseteq Between(modes) \X {"forward", "reverse"}
    /\ Between(modes) \X {"forward"} \subseteq guarded
    /\ appsStage = "ready" => Visible(modes) \X {"reverse"} \subseteq guarded
BY DEF GuardsComplete, Between, Visible

\* register() of a new model.
LEMMA RegisterKeeps ==
  ASSUME RegistrationInv, NEW m \in Model, NEW mode \in {"audit", "enforce"}, Register(m, mode)
  PROVE  RegistrationInv'
<1> DEFINE registered == [n \in DOMAIN modes \union {m} |-> IF n = m THEN mode ELSE modes[n]]
<1>1. /\ m \in classes /\ m \notin DOMAIN modes
      /\ modes' = registered /\ guarded' = InstallRelationGuards(registered, m)
      /\ classes' = classes /\ appsStage' = appsStage
  BY DEF Register
<1>2. DOMAIN registered \subseteq classes
  BY <1>1 DEF RegistrationInv, RegistrationTypeOK
<1>3. Enforced(modes) \subseteq Enforced(registered)
  BY <1>1 DEF Enforced
<1> HIDE DEF registered
<1>4. Between(modes) \subseteq Between(registered)
  BY <1>3 DEF Between
<1>5. Forward(registered) = Between(registered)
  BY <1>2, EnforcedResolved
<1>6. Reversed(registered) \subseteq Between(registered)
  BY <1>5 DEF Reversed
<1>7. appsStage = "ready" => Reversed(registered) = Visible(registered)
  BY <1>2, VisibleReversed
<1>8. guarded' = guarded \union (Between(registered) \X {"forward"}) \union (Reversed(registered) \X {"reverse"})
  BY <1>1, <1>5 DEF InstallRelationGuards
<1>9. guarded \subseteq Between(modes) \X {"forward", "reverse"}
  BY CompleteMeans DEF RegistrationInv
<1>10. guarded' \subseteq Between(registered) \X {"forward", "reverse"}
  BY <1>4, <1>6, <1>8, <1>9
<1>11. RegistrationTypeOK'
  BY <1>1, <1>2, <1>10 DEF RegistrationTypeOK, Between
<1>12. GuardsComplete'
  <2>1. /\ guarded' \subseteq Between(modes') \X {"forward", "reverse"}
        /\ Between(modes') \X {"forward"} \subseteq guarded'
        /\ appsStage' = "ready" => Visible(modes') \X {"reverse"} \subseteq guarded'
    BY <1>1, <1>7, <1>8, <1>10
  <2>2. QED
    BY <2>1 DEF GuardsComplete, Between, Visible
<1>13. QED
  BY <1>11, <1>12 DEF RegistrationInv

\* PyScopedConfig.ready().
LEMMA ReadyKeeps ==
  ASSUME RegistrationInv, Ready
  PROVE  RegistrationInv'
<1>1. /\ appsStage # "importing" /\ modes' = modes /\ classes' = classes
      /\ guarded' = guarded \union (Forward(modes) \X {"forward"}) \union (Reversed(modes) \X {"reverse"})
  BY DEF Ready
<1>2. Forward(modes) = Between(modes) /\ Reversed(modes) = Visible(modes)
  BY <1>1, EnforcedResolved, VisibleReversed DEF RegistrationInv, RegistrationTypeOK
<1>3. guarded \subseteq Between(modes) \X {"forward", "reverse"}
  BY CompleteMeans DEF RegistrationInv
<1>4. Visible(modes) \subseteq Between(modes)
  BY DEF Visible
<1>5. /\ guarded' \subseteq Between(modes') \X {"forward", "reverse"}
      /\ Between(modes') \X {"forward"} \subseteq guarded'
      /\ Visible(modes') \X {"reverse"} \subseteq guarded'
  BY <1>1, <1>2, <1>3, <1>4
<1>6. GuardsComplete'
  BY <1>5 DEF GuardsComplete, Between, Visible
<1>7. RegistrationTypeOK'
  BY <1>1, <1>5 DEF RegistrationInv, RegistrationTypeOK, Between
<1>8. QED
  BY <1>6, <1>7 DEF RegistrationInv

\* Every step of an application's start and of what runs after it.
LEMMA RegistrationInvStep == RegistrationInv /\ [RegistrationNext]_registrationVars => RegistrationInv'
<1> SUFFICES ASSUME RegistrationInv, [RegistrationNext]_registrationVars
             PROVE  RegistrationInv'
  OBVIOUS
<1>1. CASE ModelsReady
  BY <1>1 DEF ModelsReady, RegistrationInv, RegistrationTypeOK, GuardsComplete, Enforced
<1>2. CASE Ready
  BY <1>2, ReadyKeeps
<1>3. ASSUME NEW m \in Model, DefineModel(m) PROVE RegistrationInv'
  BY <1>3 DEF DefineModel, RegistrationInv, RegistrationTypeOK, GuardsComplete, Enforced
<1>4. ASSUME NEW m \in Model, NEW mode \in {"audit", "enforce"}, Register(m, mode)
      PROVE  RegistrationInv'
  BY <1>4, RegisterKeeps
<1>5. CASE UNCHANGED registrationVars
  BY <1>5 DEF registrationVars, RegistrationInv, RegistrationTypeOK, GuardsComplete, Enforced
<1>6. QED
  BY <1>1, <1>2, <1>3, <1>4, <1>5 DEF RegistrationNext

\* Nothing is registered, and no guard missing, at the start.
LEMMA RegistrationStart == RegistrationInit => RegistrationInv
BY DEF RegistrationInit, RegistrationInv, RegistrationTypeOK, GuardsComplete, Enforced

\* "FK and one-to-one descriptors between enforced models use scoped target
\* queries" (docs/guarantees.md): in whatever order classes are created and
\* registered, whatever they refer to, and before, while or after the
\* applications get ready.
THEOREM EveryRelationGuarded == RegistrationSpec => []GuardsComplete
<1>1. RegistrationInv => GuardsComplete
  BY DEF RegistrationInv
<1>2. QED
  BY <1>1, RegistrationStart, RegistrationInvStep, PTL DEF RegistrationSpec

\* A descriptor that was wrapped stays wrapped, and a model's mode is for good:
\* register() refuses other options and ready() only adds guards.
THEOREM GuardsStay ==
  RegistrationSpec => [][/\ guarded \subseteq guarded'
                         /\ \A m \in DOMAIN modes : m \in DOMAIN modes' /\ modes'[m] = modes[m]
                        ]_registrationVars
<1> DEFINE Stays == /\ guarded \subseteq guarded'
                    /\ \A m \in DOMAIN modes : m \in DOMAIN modes' /\ modes'[m] = modes[m]
<1>1. ASSUME [RegistrationNext]_registrationVars PROVE [Stays]_registrationVars
  <2>1. CASE ModelsReady
    BY <2>1 DEF ModelsReady
  <2>2. CASE Ready
    BY <2>2 DEF Ready
  <2>3. ASSUME NEW m \in Model, DefineModel(m) PROVE Stays
    BY <2>3 DEF DefineModel
  <2>4. ASSUME NEW m \in Model, NEW mode \in {"audit", "enforce"}, Register(m, mode)
        PROVE  Stays
    BY <2>4 DEF Register, InstallRelationGuards
  <2>5. QED
    BY <1>1, <2>1, <2>2, <2>3, <2>4 DEF RegistrationNext
<1>2. QED
  BY <1>1, PTL DEF RegistrationSpec

\* A set of natural numbers that is not empty has a least element.
LEMMA LeastNatural == ASSUME NEW S \in SUBSET Nat, S # {} PROVE \E m \in S : \A n \in S : m <= n
<1> DEFINE R == {ss \in Nat \X Nat : ss[1] < ss[2]}
<1>1. IsWellFoundedOn(R, Nat)
  BY NatLessThanWellFounded DEF OpToRel
<1> HIDE DEF R
<1>2. PICK m \in S : \A n \in S : <<n, m>> \notin R
  BY <1>1, WFMin
<1>3. \A n \in S : ~(n < m)
  BY <1>2 DEF R
<1>4. QED
  BY <1>3

-----------------------------------------------------------------------------
(* Histories as chains.                                                    *)

\* A row of events has these columns, and a resource row these.
EventShaped(e) ==
  e \in [revision : {e.revision}, scope : {e.scope}, payload : {e.payload},
         previous : {e.previous}, digest : {e.digest}]
HeadShaped(h) ==
  /\ h \in [scope : {h.scope}, revision : {h.revision}, digest : {h.digest}]
  /\ h.scope \in ChainScope /\ h.revision \in 0..MaxAppends

\* The events of a history, whoever wrote them.
HistoryShaped(h) ==
  /\ h = [i \in DOMAIN h |-> h[i]]
  /\ DOMAIN h \subseteq 1..MaxAppends
  /\ \A i \in DOMAIN h : EventShaped(h[i]) /\ h[i].revision = i

\* A chain with this head: every event is digested with its place, the head's
\* scope and the digest of the event before it.
Chained(r, h, head) ==
  /\ DOMAIN h = 1..head.revision
  /\ \A i \in DOMAIN h :
       /\ h[i].scope = head.scope
       /\ h[i].digest = EventDigest(r, h[i])
       /\ h[i].previous = IF i = 1 THEN NoDigest ELSE h[i - 1].digest
  /\ head.digest = IF head.revision = 0 THEN NoDigest ELSE h[head.revision].digest

ChainInv ==
  /\ DOMAIN rows = Resource /\ DOMAIN trueRows = Resource
  /\ DOMAIN heads = Resource /\ DOMAIN trueHeads = Resource
  /\ \A r \in Resource :
       /\ HistoryShaped(rows[r]) /\ HistoryShaped(trueRows[r])
       /\ HeadShaped(heads[r]) /\ HeadShaped(trueHeads[r])
       /\ Chained(r, trueRows[r], trueHeads[r])

\* What append_event() and an edit write has the columns of an event.
LEMMA SealedShaped ==
  ASSUME NEW r, NEW i, NEW scope, NEW payload, NEW previous, NEW digest
  PROVE  LET e == Sealed(r, [revision |-> i, scope |-> scope, payload |-> payload, previous |-> previous])
             f == [e EXCEPT !.digest = digest]
         IN  /\ EventShaped(e) /\ EventShaped(f)
             /\ e.revision = i /\ e.scope = scope /\ e.payload = payload /\ e.previous = previous
             /\ e.digest = EventDigest(r, e)
             /\ f.revision = i
BY DEF Sealed, EventShaped, EventDigest

\* Equal columns make equal events, and equal heads.
LEMMA SameEvents ==
  ASSUME NEW e, NEW f, EventShaped(e), EventShaped(f),
         e.revision = f.revision, e.scope = f.scope, e.payload = f.payload,
         e.previous = f.previous, e.digest = f.digest
  PROVE  e = f
BY DEF EventShaped

\* Equal columns make equal heads.
LEMMA SameHeads ==
  ASSUME NEW g, NEW h, HeadShaped(g), HeadShaped(h),
         g.revision = h.revision, g.scope = h.scope, g.digest = h.digest
  PROVE  g = h
BY DEF HeadShaped

\* Equal digests are of events that say the same.
LEMMA SameDigests ==
  ASSUME NEW r, NEW e, NEW f, EventDigest(r, e) = EventDigest(r, f)
  PROVE  e.revision = f.revision /\ e.scope = f.scope /\ e.payload = f.payload /\ e.previous = f.previous
BY DEF EventDigest

\* A history with one more event, or another in its place.
LEMMA ExtendedShaped ==
  ASSUME NEW h, HistoryShaped(h), NEW e, EventShaped(e), e.revision \in 1..MaxAppends
  PROVE  /\ HistoryShaped(Extended(h, e))
         /\ DOMAIN Extended(h, e) = DOMAIN h \union {e.revision}
         /\ Extended(h, e)[e.revision] = e
         /\ \A i \in DOMAIN h : i # e.revision => Extended(h, e)[i] = h[i]
BY DEF HistoryShaped, Extended

\* A history without one of its events.
LEMMA WithoutShaped ==
  ASSUME NEW h, HistoryShaped(h), NEW i
  PROVE  HistoryShaped([k \in DOMAIN h \ {i} |-> h[k]])
BY DEF HistoryShaped

\* An empty history at the start.
LEMMA ChainStart == ChainInit => ChainInv
<1> SUFFICES ASSUME ChainInit PROVE ChainInv
  OBVIOUS
<1>1. MaxAppends \in Nat
  BY ChainAssumption
<1>2. PICK scope \in ChainScope :
        heads = [r \in Resource |-> [scope |-> scope, revision |-> 0, digest |-> NoDigest]]
  BY DEF ChainInit
<1>3. rows = [r \in Resource |-> <<>>] /\ trueRows = rows /\ trueHeads = heads
  BY DEF ChainInit
<1>4. HistoryShaped(<<>>)
  BY DEF HistoryShaped
<1>5. HeadShaped([scope |-> scope, revision |-> 0, digest |-> NoDigest])
  BY <1>1 DEF HeadShaped
<1>6. ASSUME NEW r \in Resource
      PROVE  Chained(r, <<>>, [scope |-> scope, revision |-> 0, digest |-> NoDigest])
  BY DEF Chained
<1>7. QED
  BY <1>2, <1>3, <1>4, <1>5, <1>6 DEF ChainInv

\* append_event() extends the chain.
LEMMA AppendKeepsChain ==
  ASSUME ChainInv, NEW r \in Resource, NEW payload \in Payload, AppendToChain(r, payload)
  PROVE  ChainInv'
<1> DEFINE N == heads[r].revision
           e == Sealed(r, [revision |-> N + 1, scope |-> heads[r].scope,
                           payload |-> payload, previous |-> heads[r].digest])
<1>1. /\ HeadShaped(heads[r]) /\ N \in Nat /\ N + 1 \in 1..MaxAppends /\ heads[r] = trueHeads[r]
      /\ N + 1 # 0 /\ N + 1 - 1 = N
  <2>1. HeadShaped(heads[r]) /\ heads[r] = trueHeads[r] /\ N < MaxAppends /\ MaxAppends \in Nat
    BY ChainAssumption DEF ChainInv, AppendToChain
  <2>2. N \in 0..MaxAppends
    BY <2>1 DEF HeadShaped
  <2>3. QED
    BY <2>1, <2>2
<1>2. /\ EventShaped(e) /\ e.revision = N + 1 /\ e.scope = heads[r].scope
      /\ e.previous = heads[r].digest /\ e.digest = EventDigest(r, e)
  BY DEF Sealed, EventShaped, EventDigest
<1>3. /\ rows' = [rows EXCEPT ![r] = Extended(rows[r], e)]
      /\ trueRows' = [trueRows EXCEPT ![r] = Extended(trueRows[r], e)]
      /\ heads' = [heads EXCEPT ![r].revision = e.revision, ![r].digest = e.digest]
      /\ trueHeads' = [trueHeads EXCEPT ![r] = heads'[r]]
  BY DEF AppendToChain
<1> HIDE DEF e
<1>4. /\ heads'[r].revision = N + 1 /\ heads'[r].digest = e.digest /\ heads'[r].scope = heads[r].scope
      /\ HeadShaped(heads'[r]) /\ DOMAIN heads' = Resource
      /\ \A s \in Resource : s # r => heads'[s] = heads[s]
  <2>1. heads[r] \in [scope : {heads[r].scope}, revision : {N}, digest : {heads[r].digest}]
        /\ heads[r].scope \in ChainScope /\ DOMAIN heads = Resource
    BY <1>1 DEF HeadShaped, ChainInv
  <2>2. heads'[r] = [heads[r] EXCEPT !.revision = e.revision, !.digest = e.digest]
    BY <1>3, <2>1
  <2>3. heads'[r] \in [scope : {heads[r].scope}, revision : {e.revision}, digest : {e.digest}]
    BY <2>1, <2>2
  <2>4. N + 1 \in 0..MaxAppends
    BY <1>1
  <2>5. QED
    BY <1>2, <1>3, <2>1, <2>3, <2>4 DEF HeadShaped
<1>5. /\ HistoryShaped(rows[r]) /\ HistoryShaped(trueRows[r])
      /\ Chained(r, trueRows[r], trueHeads[r])
  BY DEF ChainInv
<1>6. HistoryShaped(Extended(rows[r], e)) /\ HistoryShaped(Extended(trueRows[r], e))
  BY <1>1, <1>2, <1>5, ExtendedShaped
<1>7. Chained(r, Extended(trueRows[r], e), heads'[r])
  <2> DEFINE h == trueRows[r]
             g == Extended(h, e)
  <2>1. /\ DOMAIN h = 1..N
        /\ \A i \in DOMAIN h :
             /\ h[i].scope = heads[r].scope
             /\ h[i].digest = EventDigest(r, h[i])
             /\ h[i].previous = IF i = 1 THEN NoDigest ELSE h[i - 1].digest
        /\ heads[r].digest = IF N = 0 THEN NoDigest ELSE h[N].digest
    BY <1>1, <1>5 DEF Chained
  <2>2. /\ DOMAIN g = DOMAIN h \union {N + 1} /\ g[N + 1] = e
        /\ \A i \in DOMAIN h : i # N + 1 => g[i] = h[i]
    <3>1. e.revision \in 1..MaxAppends
      BY <1>1, <1>2
    <3>2. /\ DOMAIN g = DOMAIN h \union {e.revision} /\ g[e.revision] = e
          /\ \A i \in DOMAIN h : i # e.revision => g[i] = h[i]
      BY DEF Extended
    <3>3. QED
      BY <1>2, <3>2
  <2> HIDE DEF g, h, N
  <2>3. DOMAIN g = 1..(N + 1) /\ \A i \in DOMAIN h : g[i] = h[i]
    BY <1>1, <2>1, <2>2
  <2>4. ASSUME NEW i \in DOMAIN g
        PROVE  /\ g[i].scope = heads[r].scope
               /\ g[i].digest = EventDigest(r, g[i])
               /\ g[i].previous = IF i = 1 THEN NoDigest ELSE g[i - 1].digest
    <3>1. CASE i \in 1..N
      <4>1. i \in DOMAIN h /\ (i # 1 => i - 1 \in DOMAIN h)
        BY <1>1, <2>1, <3>1
      <4>2. g[i] = h[i] /\ (i # 1 => g[i - 1] = h[i - 1])
        BY <2>3, <4>1
      <4>3. QED
        BY <2>1, <4>1, <4>2
    <3>2. CASE i = N + 1
      <4>1. N # 0 => N \in DOMAIN h /\ g[N] = h[N]
        BY <1>1, <2>1, <2>3
      <4>2. i = 1 <=> N = 0
        BY <1>1, <3>2
      <4>3. i - 1 = N /\ g[i] = e
        BY <1>1, <2>2, <3>2
      <4>4. QED
        BY <1>2, <2>1, <4>1, <4>2, <4>3
    <3>3. QED
      BY <1>1, <2>3, <3>1, <3>2
  <2>5. QED
    BY <1>1, <1>4, <2>2, <2>3, <2>4 DEF Chained, g, h
<1>8. /\ DOMAIN rows' = Resource /\ DOMAIN trueRows' = Resource /\ DOMAIN trueHeads' = Resource
      /\ rows'[r] = Extended(rows[r], e) /\ trueRows'[r] = Extended(trueRows[r], e)
      /\ trueHeads'[r] = heads'[r]
      /\ \A s \in Resource : s # r =>
           rows'[s] = rows[s] /\ trueRows'[s] = trueRows[s] /\ trueHeads'[s] = trueHeads[s]
  BY <1>3 DEF ChainInv
<1>9. ASSUME NEW s \in Resource
      PROVE  /\ HistoryShaped(rows'[s]) /\ HistoryShaped(trueRows'[s])
             /\ HeadShaped(heads'[s]) /\ HeadShaped(trueHeads'[s])
             /\ Chained(s, trueRows'[s], trueHeads'[s])
  <2>1. CASE s = r
    BY <1>4, <1>6, <1>7, <1>8, <2>1
  <2>2. CASE s # r
    BY <1>4, <1>8, <2>2 DEF ChainInv
  <2>3. QED
    BY <2>1, <2>2
<1>10. QED
  BY <1>4, <1>8, <1>9 DEF ChainInv

\* An edit of the tables changes no more than the rows and the head it edits.
LEMMA EditsKeepChain ==
  ASSUME ChainInv, UNCHANGED <<trueRows, trueHeads>>, DOMAIN rows' = Resource, DOMAIN heads' = Resource,
         \A r \in Resource : HistoryShaped(rows'[r]) /\ HeadShaped(heads'[r])
  PROVE  ChainInv'
BY DEF ChainInv

\* Whoever appends or edits, the rows keep their columns, and what PyScoped
\* wrote is a chain.
LEMMA ChainStep == ChainInv /\ [ChainNext]_chainVars => ChainInv'
<1> SUFFICES ASSUME ChainInv, [ChainNext]_chainVars PROVE ChainInv'
  OBVIOUS
<1>0. /\ DOMAIN rows = Resource /\ DOMAIN heads = Resource
      /\ \A r \in Resource : HistoryShaped(rows[r]) /\ HeadShaped(heads[r])
  BY DEF ChainInv
<1>1. CASE UNCHANGED chainVars
  BY <1>1 DEF chainVars, ChainInv
<1>2. ASSUME NEW r \in Resource, EditHead(r) PROVE ChainInv'
  <2>1. PICK scope \in ChainScope, revision \in 0..MaxAppends, digest \in KnownDigests :
          heads' = [heads EXCEPT ![r] = [scope |-> scope, revision |-> revision, digest |-> digest]]
    BY <1>2 DEF EditHead
  <2>2. HeadShaped([scope |-> scope, revision |-> revision, digest |-> digest])
    BY DEF HeadShaped
  <2>3. /\ UNCHANGED <<rows, trueRows, trueHeads>>
        /\ DOMAIN heads' = Resource /\ \A s \in Resource : HeadShaped(heads'[s])
    BY <1>0, <1>2, <2>1, <2>2 DEF EditHead
  <2>4. QED
    BY <1>0, <2>3, EditsKeepChain
<1>3. ASSUME NEW r \in Resource, NEW i \in 1..MaxAppends, EditEvent(r, i) PROVE ChainInv'
  <2> DEFINE Forged(scope, payload, previous) ==
        Sealed(r, [revision |-> i, scope |-> scope, payload |-> payload, previous |-> previous])
  <2>1. PICK scope \in ChainScope, payload \in Payload, previous \in KnownDigests :
          \E digest \in {Forged(scope, payload, previous).digest}
                        \union {rows[r][k].digest : k \in {i} \intersect DOMAIN rows[r]} :
            rows' = [rows EXCEPT ![r] = Extended(rows[r], [Forged(scope, payload, previous) EXCEPT !.digest = digest])]
    BY <1>3 DEF EditEvent
  <2> DEFINE e == Forged(scope, payload, previous)
  <2>2. PICK digest : rows' = [rows EXCEPT ![r] = Extended(rows[r], [e EXCEPT !.digest = digest])]
    BY <2>1
  <2> DEFINE f == [e EXCEPT !.digest = digest]
  <2>3. EventShaped(f) /\ f.revision = i
    BY SealedShaped
  <2> HIDE DEF f
  <2>4. HistoryShaped(Extended(rows[r], f))
    BY <1>0, <2>3, ExtendedShaped
  <2>5. rows' = [rows EXCEPT ![r] = Extended(rows[r], f)] /\ UNCHANGED <<heads, trueRows, trueHeads>>
    BY <1>3, <2>2 DEF EditEvent, f
  <2>6. DOMAIN rows' = Resource /\ \A s \in Resource : HistoryShaped(rows'[s])
    BY <1>0, <2>4, <2>5
  <2>7. QED
    BY <1>0, <2>5, <2>6, EditsKeepChain
<1>4. ASSUME NEW r \in Resource, NEW i \in 1..MaxAppends, DropEvent(r, i) PROVE ChainInv'
  <2> DEFINE h == [k \in DOMAIN rows[r] \ {i} |-> rows[r][k]]
  <2>1. HistoryShaped(h)
    BY <1>0, WithoutShaped
  <2>2. rows' = [rows EXCEPT ![r] = h] /\ UNCHANGED <<heads, trueRows, trueHeads>>
    BY <1>4 DEF DropEvent
  <2> HIDE DEF h
  <2>3. DOMAIN rows' = Resource /\ \A s \in Resource : HistoryShaped(rows'[s])
    BY <1>0, <2>1, <2>2
  <2>4. QED
    BY <1>0, <2>2, <2>3, EditsKeepChain
<1>5. ASSUME NEW r \in Resource, NEW i \in 1..MaxAppends, NEW other \in Resource, MoveEvent(r, i, other)
      PROVE  ChainInv'
  <2> DEFINE h == [k \in DOMAIN rows[r] \ {i} |-> rows[r][k]]
             g == Extended(rows[other], rows[r][i])
  <2>1. i \in DOMAIN rows[r] /\ other # r /\ EventShaped(rows[r][i]) /\ rows[r][i].revision \in 1..MaxAppends
    BY <1>0, <1>5 DEF MoveEvent, HistoryShaped
  <2>2. HistoryShaped(h)
    BY <1>0, WithoutShaped
  <2>3. rows' = [rows EXCEPT ![r] = h, ![other] = g] /\ UNCHANGED <<heads, trueRows, trueHeads>>
    BY <1>5, <2>1 DEF MoveEvent
  <2>4. HistoryShaped(g)
    BY <1>0, <2>1, ExtendedShaped
  <2> HIDE DEF g, h
  <2>5. DOMAIN rows' = Resource /\ \A s \in Resource : HistoryShaped(rows'[s])
    BY <1>0, <2>1, <2>2, <2>3, <2>4
  <2>6. QED
    BY <1>0, <2>3, <2>5, EditsKeepChain
<1>6. QED
  BY <1>1, <1>2, <1>3, <1>4, <1>5, AppendKeepsChain DEF ChainNext

-----------------------------------------------------------------------------
(* What verification says of them.                                         *)

\* With the head in place, a history that verifies is the one PyScoped wrote:
\* from the head down, each digest fixes an event and the digest before it.
LEMMA OneChain ==
  ASSUME NEW r, NEW h, NEW g, NEW head, NEW N \in Nat, head.revision = N,
         HistoryShaped(h), HistoryShaped(g), Chained(r, h, head), Chained(r, g, head)
  PROVE  h = g
<1>1. DOMAIN h = 1..N /\ DOMAIN g = 1..N
  BY DEF Chained
<1> DEFINE Away == {k \in Nat : k < N /\ h[N - k] # g[N - k]}
<1>2. ASSUME Away # {} PROVE FALSE
  <2>1. PICK k \in Away : \A j \in Away : k <= j
    BY <1>2, LeastNatural
  <2>2. k \in Nat /\ k < N /\ h[N - k] # g[N - k]
    OBVIOUS
  <2> DEFINE i == N - k
  <2>3. i \in 1..N /\ h[i] # g[i]
    BY <2>2
  <2>4. CASE k = 0
    <3>1. i = N /\ N # 0
      BY <2>2, <2>4
    <3>2. h[N].digest = head.digest /\ g[N].digest = head.digest
      BY <3>1 DEF Chained
    <3>3. h[i].digest = g[i].digest
      BY <3>1, <3>2
    <3> HIDE DEF i
    <3>4. QED
      BY <1>1, <2>3, <3>3, SameDigests, SameEvents DEF Chained, HistoryShaped
  <2>5. CASE k # 0
    <3>1. k - 1 \in Nat /\ k - 1 < N /\ ~(k <= k - 1) /\ N - (k - 1) = i + 1
      BY <2>2, <2>5
    <3>2. h[N - (k - 1)] = g[N - (k - 1)]
      BY <2>1, <3>1
    <3>3. i + 1 \in 1..N /\ i + 1 # 1 /\ i + 1 - 1 = i
      BY <2>2, <2>5
    <3>4. h[i + 1] = g[i + 1]
      BY <3>1, <3>2
    <3> DEFINE u == i + 1
    <3>5. h[u].previous = h[u - 1].digest /\ g[u].previous = g[u - 1].digest
      <4>1. u \in DOMAIN h /\ u \in DOMAIN g /\ u # 1
        BY <1>1, <3>3
      <4> HIDE DEF u
      <4>2. QED
        BY <4>1 DEF Chained
    <3>6. h[i].digest = g[i].digest
      BY <3>3, <3>4, <3>5
    <3> HIDE DEF i
    <3>7. QED
      BY <1>1, <2>3, <3>6, SameDigests, SameEvents DEF Chained, HistoryShaped
  <2>6. QED
    BY <2>4, <2>5
<1>3. ASSUME NEW i \in 1..N PROVE h[i] = g[i]
  <2>1. N - i \in Nat /\ N - i < N /\ N - (N - i) = i
    OBVIOUS
  <2>2. N - i \notin Away
    BY <1>2
  <2>3. h[N - (N - i)] = g[N - (N - i)]
    BY <2>1, <2>2
  <2>4. QED
    BY <2>1, <2>3
<1>4. QED
  BY <1>1, <1>3 DEF HistoryShaped

\* verify_history() holds of the history that is a chain with its head.
LEMMA VerifiesChains ==
  ASSUME ChainInv, NEW r \in Resource
  PROVE  VerifyHistory(r) <=> Chained(r, rows[r], heads[r])
<1>1. heads[r].revision \in Nat /\ HistoryShaped(rows[r])
  BY DEF ChainInv, HeadShaped
<1> DEFINE n == Cardinality(DOMAIN rows[r])
<1>2. ASSUME NEW m \in Nat, DOMAIN rows[r] = 1..m PROVE n = m
  <2>1. Cardinality(1..m) = m
    BY FS_Interval
  <2>2. QED
    BY <1>2, <2>1
<1>3. n \in Nat
  <2>1. DOMAIN rows[r] \subseteq 1..MaxAppends /\ MaxAppends \in Nat
    BY <1>1, ChainAssumption DEF HistoryShaped
  <2>2. IsFiniteSet(1..MaxAppends)
    BY <2>1, FS_Interval
  <2>3. IsFiniteSet(DOMAIN rows[r])
    BY <2>1, <2>2, FS_Subset
  <2>4. QED
    BY <2>3, FS_CardinalityType
<1> HIDE DEF n
<1>4. ASSUME VerifyHistory(r) PROVE Chained(r, rows[r], heads[r])
  BY <1>3, <1>4 DEF VerifyHistory, LinkHolds, HeadHolds, Chained, n
<1>5. ASSUME Chained(r, rows[r], heads[r]) PROVE VerifyHistory(r)
  <2>1. n = heads[r].revision
    BY <1>1, <1>2, <1>5 DEF Chained
  <2>2. QED
    BY <1>5, <2>1 DEF VerifyHistory, LinkHolds, HeadHolds, Chained, n
<1>6. QED
  BY <1>4, <1>5

\* Tampering shows, in any state the invariant allows.
LEMMA ChainsTell == ChainInv => ChainTypeOK /\ TamperingShows
<1> SUFFICES ASSUME ChainInv PROVE ChainTypeOK /\ TamperingShows
  OBVIOUS
<1>1. ChainTypeOK
  BY DEF ChainInv, ChainTypeOK, HistoryShaped, HeadShaped
<1>2. ASSUME NEW r \in Resource, DOMAIN trueRows[r] # {}
      PROVE  /\ heads[r] = trueHeads[r] => (VerifyHistory(r) <=> rows[r] = trueRows[r])
             /\ rows[r] = trueRows[r] => (VerifyHistory(r) <=> heads[r] = trueHeads[r])
  <2>1. /\ HistoryShaped(rows[r]) /\ HistoryShaped(trueRows[r])
        /\ HeadShaped(heads[r]) /\ HeadShaped(trueHeads[r])
        /\ Chained(r, trueRows[r], trueHeads[r])
    BY DEF ChainInv
  <2>2. trueHeads[r].revision \in Nat /\ heads[r].revision \in Nat
    BY <2>1 DEF HeadShaped
  <2>3. ASSUME heads[r] = trueHeads[r], VerifyHistory(r) PROVE rows[r] = trueRows[r]
    BY <2>1, <2>2, <2>3, VerifiesChains, OneChain
  <2>4. ASSUME heads[r] = trueHeads[r], rows[r] = trueRows[r] PROVE VerifyHistory(r)
    BY <2>1, <2>4, VerifiesChains
  <2>5. ASSUME rows[r] = trueRows[r], VerifyHistory(r) PROVE heads[r] = trueHeads[r]
    <3> DEFINE h == trueRows[r]
               n == heads[r].revision
               m == trueHeads[r].revision
    <3>1. Chained(r, h, heads[r]) /\ Chained(r, h, trueHeads[r])
      BY <2>1, <2>5, VerifiesChains
    <3>2. 1..n = 1..m /\ 1..n # {}
      BY <1>2, <3>1 DEF Chained
    <3>3. n = m /\ n # 0 /\ 1 \in DOMAIN h
      <4>1. n \in Nat /\ m \in Nat
        BY <2>2
      <4>2. DOMAIN h = 1..n
        BY <3>1 DEF Chained
      <4> HIDE DEF n, m, h
      <4>3. n # 0
        BY <3>2, <4>1
      <4>4. m # 0
        BY <3>2, <4>1
      <4>5. n \in 1..n /\ m \in 1..m /\ 1 \in 1..n
        BY <4>1, <4>3, <4>4
      <4>6. n \in 1..m /\ m \in 1..n
        BY <3>2, <4>5
      <4>7. n = m
        BY <4>1, <4>6
      <4>8. QED
        BY <4>2, <4>3, <4>5, <4>7
    <3>4. heads[r].digest = trueHeads[r].digest /\ heads[r].scope = trueHeads[r].scope
      BY <3>1, <3>3 DEF Chained
    <3>5. QED
      BY <2>1, <3>3, <3>4, SameHeads
  <2>6. QED
    BY <2>3, <2>4, <2>5
<1>3. QED
  BY <1>1, <1>2 DEF TamperingShows

\* verify_history(): of a history that has events, no change of the events
\* alone, nor of the head alone, is reported valid, and an untouched one is.
THEOREM TamperingAlwaysShows == ChainSpec => []TamperingShows
BY ChainStart, ChainStep, ChainsTell, PTL DEF ChainSpec

-----------------------------------------------------------------------------
(* The parts in the composition.                                           *)

\* The parts of MCLive share no variable: every step of the composition is one
\* of each part, or changes nothing of it.
LEMMA LiveMoves ==
  ASSUME [LiveNext]_liveVars
  PROVE  /\ [Next]_vars /\ [ReadsNext]_<<managerVars, readVars>>
         /\ [RegistrationNext]_registrationVars /\ [ChainNext]_chainVars
<1>1. CASE UNCHANGED liveVars
  BY <1>1 DEF liveVars
<1>2. CASE LiveNext
  BY <1>2 DEF LiveNext
<1>3. QED
  BY <1>1, <1>2

\* Every behaviour of the composition is one of each of its parts.
THEOREM LivePartsRefined == LiveSpec => Spec /\ ReadsSpec /\ RegistrationSpec /\ ChainSpec
<1>1. LiveInit => Init /\ ReadsInit /\ RegistrationInit /\ ChainInit
  BY DEF LiveInit
<1>2. QED
  BY <1>1, LiveMoves, PTL DEF LiveSpec, Spec, ReadsSpec, RegistrationSpec, ChainSpec

\* The types of the state of each part: contexts and frames of requests, blocks
\* and querysets, registered classes and guards, and the rows of histories,
\* whoever edits them.
THEOREM LiveTypeCorrect == LiveSpec => []LiveTypeOK
<1>1. RequestInv => TypeOK
  BY DEF RequestInv
<1>2. ASSUME ReadsInv PROVE ReadsTypeOK
  <2>1. ManagerTyped /\ ReadsTyped
    BY <1>2 DEF ReadsInv, ManagerInv
  <2>2. ManagerTypeOK
    <3>1. \A m \in Manager : token[m] \in ManagerToken
      BY <2>1 DEF ManagerTyped
    <3>2. \A m \in Manager : token[m] # NoManager => token[m].task \in Task
      BY <3>1 DEF ManagerToken
    <3>3. QED
      BY <2>1, <3>2 DEF ManagerTyped, ManagerTypeOK, Nobody
  <2>3. \A q \in QuerySet : querysets[q].context \in Nobody /\ cursor[q] \subseteq Row
    BY <2>1 DEF ReadsTyped
  <2>4. QED
    BY <2>1, <2>2, <2>3 DEF ReadsTyped, ReadsTypeOK, Nobody
<1>3. RegistrationInv => RegistrationTypeOK
  BY DEF RegistrationInv
<1>4. ChainInv => ChainTypeOK
  BY ChainsTell
<1>5. TypeOK /\ ReadsTypeOK /\ RegistrationTypeOK /\ ChainTypeOK => LiveTypeOK
  BY DEF LiveTypeOK
<1>6. QED
  BY <1>1, <1>2, <1>3, <1>4, <1>5, LivePartsRefined, RequestStart, RequestStep, InitReadsInv, ReadsInvStep,
     RegistrationStart, RegistrationInvStep, ChainStart, ChainStep, PTL
     DEF Spec, ReadsSpec, RegistrationSpec, ChainSpec

=============================================================================

------------------------- MODULE RequestContext -------------------------
(***************************************************************************)
(* ScopedMiddleware (src/pyscoped/middleware.py) around the application's   *)
(* views: which context is current while a request is resolved, served,    *)
(* streamed chunk by chunk, and closed.                                    *)
(*                                                                         *)
(* A thread is a WSGI thread or an asyncio task: what has a value of the    *)
(* ContextVar _current.  The code of __call__ and __acall__, and the two    *)
(* chunks() generators, do the same to _current and are modelled once.     *)
(***************************************************************************)
EXTENDS Naturals, Sequences, SequencesExt

CONSTANTS
  Thread,
  Request,
  Home,           \* the context each thread's server code runs in: none, or Server
  NoContext,      \* None
  Server,
  Invalid,        \* a resolver result that is not a ScopeContext
  NoThread,
  MaxChunks       \* bound on the chunks of a response

\* The context the resolver authorizes for a request, and the one its
\* application code enters by itself with scope(...) or @in_scope.
Auth(r) == [request |-> r, by |-> "resolver"]
Own(r) == [request |-> r, by |-> "scope"]
Context == {Auth(r) : r \in Request} \union {Own(r) : r \in Request} \union {NoContext}

Value == Context \union {Server}
Token == [thread : Thread, old : Value]

ASSUME HomeAssumption == Home \in [Thread -> {NoContext, Server}]
ASSUME NoContextAssumption == NoContext \notin Token
ASSUME NoThreadAssumption == NoThread \notin Thread
ASSUME ChunksAssumption == MaxChunks \in Nat

VARIABLES
  current,        \* _current, per thread
  at,             \* where each request is
  on,             \* the thread that runs it
  ctx,            \* what its resolver returned
  tokens,         \* the values its middleware frames will reset _current to
  own,            \* the token of the scope its application code is in
  chunks,         \* the chunks pulled
  abandoned       \* history: the thread on which something else than the middleware
                  \* ended a request's content generator inside its own scope

vars == <<current, at, on, ctx, tokens, own, chunks, abandoned>>

Idle == {"new", "paused", "done"}
Running == {"resolving", "view", "chunk", "closing"}

Free(t) == \A r \in Request : on[r] # t

Init ==
  /\ current = Home
  /\ at = [r \in Request |-> "new"]
  /\ on = [r \in Request |-> NoThread]
  /\ ctx = [r \in Request |-> NoContext]
  /\ tokens = [r \in Request |-> <<>>]
  /\ own = [r \in Request |-> NoContext]
  /\ chunks = [r \in Request |-> 0]
  /\ abandoned = [r \in Request |-> NoThread]

\* Set(r, t, value): token = _current.set(value) in a frame of the middleware.
Set(r, t, value) ==
  /\ tokens' = [tokens EXCEPT ![r] = Append(@, current[t])]
  /\ current' = [current EXCEPT ![t] = value]

\* Mutant: the content is handed out from inside the with _bind(ctx) block.
LeaveBound(r, point) ==
  /\ UNCHANGED current
  /\ tokens' = [tokens EXCEPT ![r] = <<>>]
  /\ on' = [on EXCEPT ![r] = NoThread]
  /\ at' = [at EXCEPT ![r] = point]

\* The middleware's frames are left, innermost first, each with its
\* _current.reset(token): what stays is what the outermost one replaced.
Leave(r, point) ==
  /\ current' = [current EXCEPT ![on[r]] = Head(tokens[r])]
  /\ tokens' = [tokens EXCEPT ![r] = <<>>]
  /\ on' = [on EXCEPT ![r] = NoThread]
  /\ at' = [at EXCEPT ![r] = point]

\* Mutant: the request starts in whatever context its thread has.
Inherited(t) == current[t]

\* What the resolver, and a view without a context, run in.
Cleared(t) == NoContext

\* __call__(request), up to the call of the resolver.
Handle(r, t) ==
  /\ at[r] = "new"
  /\ Free(t)
  /\ Set(r, t, Cleared(t))
  /\ at' = [at EXCEPT ![r] = "resolving"]
  /\ on' = [on EXCEPT ![r] = t]
  /\ UNCHANGED <<ctx, own, chunks, abandoned>>

\* Mutant: what the resolver returns is taken as it is.
AnyResult(result) == TRUE

\* validate_context(ctx).
Valid(result) == result # Invalid

\* The resolver returns None: the view runs without a context.
ResolveNone(r) ==
  /\ at[r] = "resolving"
  /\ at' = [at EXCEPT ![r] = "view"]
  /\ UNCHANGED <<current, on, ctx, tokens, own, chunks, abandoned>>

\* It returns a result that passes validate_context(): with _bind(ctx).
ResolveContext(r, result) ==
  /\ at[r] = "resolving"
  /\ Valid(result)
  /\ ctx' = [ctx EXCEPT ![r] = result]
  /\ Set(r, on[r], result)
  /\ at' = [at EXCEPT ![r] = "view"]
  /\ UNCHANGED <<on, own, chunks, abandoned>>

\* It raises, or its result does not pass.
ResolveRaises(r) ==
  /\ at[r] = "resolving"
  /\ Leave(r, "done")
  /\ UNCHANGED <<ctx, own, chunks, abandoned>>

\* The application enters a context of its own, in a view or in the generator
\* that produces the content: scope.__enter__(), or a call of a function
\* decorated with @in_scope once its resolver has answered.
EnterScope(r) ==
  /\ at[r] \in {"view", "chunk"}
  /\ own[r] = NoContext
  /\ own' = [own EXCEPT ![r] = [thread |-> on[r], old |-> current[on[r]]]]
  /\ current' = [current EXCEPT ![on[r]] = Own(r)]
  /\ UNCHANGED <<at, on, ctx, tokens, chunks, abandoned>>

\* scope.__exit__() where the block was entered.
LeaveScope(r) ==
  /\ at[r] \in {"view", "chunk"}
  /\ own[r] # NoContext
  /\ own[r].thread = on[r]
  /\ current' = [current EXCEPT ![on[r]] = own[r].old]
  /\ own' = [own EXCEPT ![r] = NoContext]
  /\ UNCHANGED <<at, on, ctx, tokens, chunks, abandoned>>

\* The view returns a response: a complete one, or one whose streaming_content
\* _stream() replaces by chunks().
ViewReturns(r, point) ==
  /\ at[r] = "view"
  /\ own[r] = NoContext
  /\ Leave(r, point)
  /\ UNCHANGED <<ctx, own, chunks, abandoned>>

\* Application code raises: in the view, in the generator, or in the
\* scope.__exit__() of a generator that is resumed on another thread (the
\* token is not of this one and stays unused).  Every block is left.
Raises(r) ==
  /\ at[r] \in {"view", "chunk"}
  /\ own' = [own EXCEPT ![r] = IF @ # NoContext /\ @.thread = on[r] THEN NoContext ELSE @]
  /\ Leave(r, "done")
  /\ UNCHANGED <<ctx, chunks, abandoned>>

\* next(chunks()), on any thread: with _bind(ctx): next(iterator).
Pull(r, t) ==
  /\ at[r] = "paused"
  /\ Free(t)
  /\ chunks[r] < MaxChunks
  /\ Set(r, t, ctx[r])
  /\ at' = [at EXCEPT ![r] = "chunk"]
  /\ on' = [on EXCEPT ![r] = t]
  /\ chunks' = [chunks EXCEPT ![r] = @ + 1]
  /\ UNCHANGED <<ctx, own, abandoned>>

\* yield chunk, after the with block.
Yield(r) ==
  /\ at[r] = "chunk"
  /\ Leave(r, "paused")
  /\ UNCHANGED <<ctx, own, chunks, abandoned>>

\* The iterator is exhausted; close() of a finished iterator runs no code.
Exhaust(r) ==
  /\ at[r] = "chunk"
  /\ own[r] = NoContext
  /\ Leave(r, "done")
  /\ UNCHANGED <<ctx, own, chunks, abandoned>>

\* chunks().close(), or aclose(), while it waits at its yield: the finally clause
\* closes the iterator, whose own finally clauses run, with _bind(ctx).  The
\* iterator has such a method where Django's wrapper is an async generator, or
\* the response class hands its content out as it is.
Close(r, t) ==
  /\ at[r] = "paused"
  /\ chunks[r] > 0
  /\ Free(t)
  /\ Set(r, t, ctx[r])
  /\ at' = [at EXCEPT ![r] = "closing"]
  /\ on' = [on EXCEPT ![r] = t]
  /\ UNCHANGED <<ctx, own, chunks, abandoned>>

\* iterator.close() ends, with the scope.__exit__() of a generator that is in a
\* scope (it raises on another thread than that scope's).  Where the iterator is
\* Django's wrapper, aclose() ends the wrapper alone: the event loop finalises
\* the generator below in a task of its own, in which that __exit__() raises.
CloseEnds(r) ==
  /\ at[r] = "closing"
  /\ \/ UNCHANGED own
     \/ own' = [own EXCEPT ![r] = IF @ # NoContext /\ @.thread = on[r] THEN NoContext ELSE @]
  /\ Leave(r, "done")
  /\ UNCHANGED <<ctx, chunks, abandoned>>

\* The stream ends in another way: chunks() is dropped before its first chunk, or
\* over an iterator without close(), as the map(make_bytes, ...) is that Django
\* makes of every synchronous content; or the server's response.close() calls
\* the close() of the content that the view gave before that of chunks().  A
\* generator that has started is ended by that call, or by the interpreter: its
\* scope.__exit__() runs in the server's context, and resets it to the request's.
Release(r, t) ==
  /\ at[r] = "paused"
  /\ Free(t)
  /\ IF own[r] # NoContext /\ own[r].thread = t
     THEN /\ current' = [current EXCEPT ![t] = own[r].old]
          /\ own' = [own EXCEPT ![r] = NoContext]
          /\ abandoned' = [abandoned EXCEPT ![r] = t]
     ELSE UNCHANGED <<current, own, abandoned>>
  /\ at' = [at EXCEPT ![r] = "done"]
  /\ UNCHANGED <<on, ctx, tokens, chunks>>

Done ==
  /\ \A r \in Request : at[r] = "done"
  /\ UNCHANGED vars

Next ==
  \/ \E r \in Request :
       \/ \E t \in Thread : Handle(r, t) \/ Pull(r, t) \/ Close(r, t) \/ Release(r, t)
       \/ ResolveNone(r) \/ ResolveRaises(r)
       \/ \E result \in {Auth(r), Invalid} : ResolveContext(r, result)
       \/ EnterScope(r) \/ LeaveScope(r)
       \/ \E point \in {"paused", "done"} : ViewReturns(r, point)
       \/ Raises(r) \/ Yield(r) \/ Exhaust(r) \/ CloseEnds(r)
  \/ Done

Spec == Init /\ [][Next]_vars

-----------------------------------------------------------------------------
(* Properties. *)

\* Types; and a request has a thread, and frames to leave, while its code runs.
TypeOK ==
  /\ current \in [Thread -> Value]
  /\ at \in [Request -> Idle \union Running]
  /\ on \in [Request -> Thread \union {NoThread}]
  /\ ctx \in [Request -> Context]
  /\ tokens \in [Request -> Seq(Value)]
  /\ own \in [Request -> Token \union {NoContext}]
  /\ chunks \in [Request -> 0..MaxChunks]
  /\ abandoned \in [Request -> Thread \union {NoThread}]
  /\ \A r \in Request : /\ at[r] \in Running <=> on[r] # NoThread
                        /\ at[r] \in Running <=> tokens[r] # <<>>

\* What a thread can be left in: its own context, or that of a request whose
\* generator was abandoned on it.
LeftIn(t) == {Home[t]} \union {ctx[r] : r \in {s \in Request : abandoned[s] = t}}

\* Whatever requests did on a thread, and wherever they stopped doing it
\* (between two chunks, on an exception, on close()), the thread's server code
\* finds its own context again: "clears it before yielding to the caller".  The
\* one way to leave another there is to abandon a stream whose generator, paused
\* inside a scope of its own, the middleware cannot close; and then it is that
\* request's context, nobody else's.
ServerUntouched == \A t \in Thread : Free(t) => current[t] \in LeftIn(t)

\* Without that exception.  It fails for every synchronous StreamingHttpResponse
\* that is abandoned so; no run checks it.
ServerClean == \A t \in Thread : Free(t) => current[t] = Home[t]

\* "A request must not inherit a prior request's actor": a resolver runs without
\* a context, and the code of a request, on whatever threads its chunks are
\* pulled, in the context resolved for it or in one it entered itself.
OwnContext ==
  \A r \in Request : at[r] \in Running =>
    LET now == current[on[r]] IN
    /\ at[r] = "resolving" => now = NoContext
    /\ own[r] = NoContext => now = ctx[r]
    /\ now \in {ctx[r], Own(r)}

\* Application code inside a scope(...) block runs in that block's context, in
\* generators too: "enter scope inside a generator".
ScopeHolds ==
  \A r \in Request :
    at[r] \in {"view", "chunk", "closing"} /\ own[r] # NoContext => current[on[r]] = Own(r)

=============================================================================

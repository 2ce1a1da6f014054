-------------------------- MODULE ProducerSessions --------------------------
(***************************************************************************)
(* Idempotent producers at work: clients that send their POSTs through the *)
(* HTTP facade to the stream actor and send one again, with the same       *)
(* headers, whenever they are left without an answer.                      *)
(* The facade resolves the actor and calls it, each under the limit        *)
(* actor_timeout.  When the limit passes it answers 504 and forgets the    *)
(* call; the actor does not learn of it and executes the request whenever  *)
(* it gets the mutex, before or after the retry.  A failed call is a 502.  *)
(* The actor's handlers are those of DurableStream.                        *)
(***************************************************************************)
EXTENDS DurableStream

CONSTANTS
    Sessions,       \* the pairs <<producer, epoch>> that have a client
    LAST,           \* the last sequence number of every session
    Plan,           \* what each session does with its last one
    MaxFaults       \* bound: timeouts, failed calls and restarts

ASSUME SessionsAreProducers ==
    /\ Sessions \subseteq Producers \X Epochs
    /\ LAST \in Nat /\ 0 .. LAST \subseteq Seqs
    /\ Plan \in [Sessions -> {"post", "post_close", "close"}]
    /\ ContentTypes # {}    \* the stream they write to has one
    /\ 1 \in Sizes          \* the size of what they write
    /\ MaxFaults \in Nat

VARIABLES
    client,     \* each client: the sequence number it is at, and its state
    calls,      \* requests on their way to the actor, or waiting for its mutex
    faults,     \* faults so far
    committed   \* headers of the requests the actor accepted (history)

session == <<client, calls, faults, committed>>
allvars == <<vars, session>>

headers(s, seq) == [id |-> s[1], epoch |-> s[2], seq |-> seq]

Open == [content_type |-> CHOOSE c \in ContentTypes : TRUE, ttl_seconds |-> None,
         expires_at |-> None, closed |-> FALSE]

InitSessions ==
    /\ db = [purge EXCEPT !.meta = create_meta(Open, 1, 0)]
    /\ clock = 0 /\ boot = 0 /\ gens = 1 /\ touches = {}
    /\ held = [e \in Edges |-> None]
    /\ client = [s \in Sessions |-> [seq |-> 0, pc |-> "ready"]]
    /\ calls = {} /\ faults = 0 /\ committed = {}

fault == faults < MaxFaults /\ faults' = faults + 1

-----------------------------------------------------------------------------
(* The facade *)

what(s) == IF client[s].seq = LAST THEN Plan[s] ELSE "post"

(* handle: the call of a client that is not waiting for another; a retry    *)
(* repeats the headers, and may find the call before it still on its way.   *)
send(s) ==
    /\ client[s].pc = "ready"
    /\ calls' = calls \union {[by |-> s, headers |-> headers(s, client[s].seq),
                               what |-> what(s), attempt |-> faults,
                               listening |-> TRUE]}
    /\ client' = [client EXCEPT ![s].pc = "waiting"]
    /\ UNCHANGED <<vars, faults, committed>>

deaf(cs, s) == {IF c.by = s THEN [c EXCEPT !.listening = FALSE] ELSE c : c \in cs}

(* 504: nobody waits for the answer of the call any more.                   *)
gateway_timeout(s) ==
    /\ client[s].pc = "waiting" /\ fault
    /\ calls' = deaf(calls, s)
    /\ client' = [client EXCEPT ![s].pc = "ready"]
    /\ UNCHANGED <<vars, committed>>

(* 502 or 504 before the actor was reached.                                 *)
bad_gateway(s) ==
    /\ client[s].pc = "waiting" /\ fault
    /\ calls' = {c \in calls : ~(c.by = s /\ c.listening)}
    /\ client' = [client EXCEPT ![s].pc = "ready"]
    /\ UNCHANGED <<vars, committed>>

-----------------------------------------------------------------------------
(* The client makes of an answer what the protocol says.                    *)

acknowledges(reply) == reply \in {"accepted", "duplicate", "close_success"}

heard(s, reply) ==
    LET last == client[s].seq = LAST
    IN client' = [client EXCEPT
           ![s].seq = IF acknowledges(reply) /\ ~last THEN @ + 1 ELSE @,
           ![s].pc = IF ~acknowledges(reply) THEN reply
                     ELSE IF last THEN "done" ELSE "ready"]

(* The actor executes a call; its answer reaches the client that waits for  *)
(* it.  An answer that comes too late is gateway_timeout before this step.  *)
execute(c, now) ==
    LET d == visible_meta_while_locked(db, now)
        post == [producer |-> c.headers, stream_seq |-> None, size |-> 1,
                 content_type |-> d.meta.content_type, close |-> c.what = "post_close"]
        reply == IF c.what = "close" THEN close_reply(d, c.headers, now)
                 ELSE post_reply(d, post, now)
    IN /\ IF c.what = "close" THEN handle_close_only(c.headers, now)
          ELSE handle_post(post, now)
       /\ calls' = calls \ {c}
       /\ committed' = IF reply = "accepted" THEN committed \union {c.headers} ELSE committed
       /\ IF c.listening THEN heard(c.by, reply) ELSE UNCHANGED client
       /\ UNCHANGED faults

(* Anyone may close the stream without producer headers, or close it again. *)
close_anonymously ==
    /\ handle_close_only(None, clock)
    /\ UNCHANGED session

(* The actor restarts: what it was asked is lost, whoever waited gets a 502. *)
restart ==
    /\ calls # {} /\ fault
    /\ calls' = {}
    /\ client' = [s \in Sessions |->
                     IF client[s].pc = "waiting" THEN [client[s] EXCEPT !.pc = "ready"]
                     ELSE client[s]]
    /\ UNCHANGED <<vars, committed>>

executes(s) == \E c \in calls : c.by = s /\ \E now \in Sampled : execute(c, now)

NextSessions ==
    \/ \E s \in Sessions :
          send(s) \/ gateway_timeout(s) \/ bad_gateway(s) \/ executes(s)
    \/ close_anonymously
    \/ restart

(* The system does not rest while a client is not settled or the actor has  *)
(* something to execute.  Each client makes finitely many steps, so that it *)
(* need not be fair to each of them.                                        *)
SpecSessions ==
    /\ InitSessions /\ [][NextSessions]_allvars
    /\ WF_allvars(\E s \in Sessions : send(s) \/ executes(s))

-----------------------------------------------------------------------------
(* Properties *)

Acked(s) ==
    {headers(s, n) : n \in {k \in 0 .. LAST :
        k < client[s].seq \/ (k = client[s].seq /\ client[s].pc = "done")}}

Copies(h) == {i \in DOMAIN db.messages : db.messages[i].by = h}

(* What a client was acknowledged is in the log exactly once, and what it   *)
(* was not is there at most once: through 504s, calls that outlive them,    *)
(* retries, restarts and rival epochs.  A close has no message, but the     *)
(* stream is closed and remembers by whom (handle of the facade,            *)
(* handle_post, handle_close_only).                                         *)
AckedOnce ==
    \A s \in Sessions : \A n \in 0 .. LAST :
        LET h == headers(s, n)
            closes == n = LAST /\ Plan[s] = "close"
        IN /\ Cardinality(Copies(h)) <= 1
           /\ h \in Acked(s) =>
                IF closes THEN db.meta.closed /\ db.meta.closed_by = h
                ELSE Copies(h) # {}

(* A client that follows the protocol is only ever stopped by a newer epoch *)
(* of its producer or by a close that is not its own: it never meets a gap  *)
(* in its sequence or a conflict of its own making, and the retry of its    *)
(* committed close succeeds.                                                *)
StoppedByOthers ==
    \A s \in Sessions :
        /\ client[s].pc \in {"ready", "waiting", "done", "stale_epoch", "closed"}
        /\ client[s].pc = "stale_epoch" =>
              \E h \in committed : h.id = s[1] /\ h.epoch > s[2]
        /\ client[s].pc = "closed" =>
              /\ db.meta.closed
              /\ client[s].seq = LAST /\ Plan[s] # "post" =>
                    headers(s, LAST) \notin committed

(* When faults stop, every client is settled: all of it delivered, or it    *)
(* knows why not.                                                           *)
SessionsSettle ==
    \A s \in Sessions : <>(client[s].pc \in {"done", "stale_epoch", "closed"})
=============================================================================

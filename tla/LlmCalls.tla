------------------------------- MODULE LlmCalls -------------------------------
(***************************************************************************)
(* The IPC client of the Go SDK (ipc.go): goroutines of one handler share  *)
(* a connection to the host and a mutex that is held from the write of a   *)
(* request to the read of one line.  The identifier of the line is never   *)
(* compared with the request's, and the context is not looked at.          *)
(*                                                                         *)
(* The host answers every request it has read with at most one line, in    *)
(* any order and at any time, or hangs up.                                 *)
(***************************************************************************)
EXTENDS Naturals, Sequences

CONSTANTS
    Callers,    \* goroutines, each of which makes one call
    NoCaller    \* the holder of a free mutex

ASSUME CallersAssumption == NoCaller \notin Callers

VARIABLES
    stage,      \* how far each caller is
    id,         \* the identifier of its request, 0 before it has one
    nextID,     \* the last identifier given out
    mutex,      \* who holds the mutex
    requests,   \* requests the host has not answered
    lines,      \* answers the client has not read
    conn,       \* "open", "hungup" by the host, or "closed" by the client
    reply       \* the identifier on the line a caller read, 0 for an error

llm == <<stage, id, nextID, mutex, requests, lines, conn, reply>>

LlmInit ==
    /\ stage = [c \in Callers |-> "idle"]
    /\ id = [c \in Callers |-> 0]
    /\ nextID = 0
    /\ mutex = NoCaller
    /\ requests = {}
    /\ lines = <<>>
    /\ conn \in {"open", "closed"}      \* newIPCClient may have failed
    /\ reply = [c \in Callers |-> 0]

Return(c, answer) ==
    /\ stage' = [stage EXCEPT ![c] = "returned"]
    /\ reply' = [reply EXCEPT ![c] = answer]

\* A call takes its identifier before it waits for the mutex.
StartCall(c) ==
    /\ stage[c] = "idle"
    /\ nextID' = nextID + 1
    /\ id' = [id EXCEPT ![c] = nextID + 1]
    /\ stage' = [stage EXCEPT ![c] = "waiting"]
    /\ UNCHANGED <<mutex, requests, lines, conn, reply>>

\* FAULTY VARIANT of Send: the mutex covers the write only.
SendUnlocked(c) ==
    /\ stage[c] = "waiting"
    /\ mutex = NoCaller
    /\ conn = "open"
    /\ requests' = requests \union {id[c]}
    /\ stage' = [stage EXCEPT ![c] = "sent"]
    /\ UNCHANGED <<id, nextID, mutex, lines, conn, reply>>

Send(c) ==
    /\ stage[c] = "waiting"
    /\ mutex = NoCaller
    /\ conn = "open"
    /\ mutex' = c
    /\ requests' = requests \union {id[c]}
    /\ stage' = [stage EXCEPT ![c] = "sent"]
    /\ UNCHANGED <<id, nextID, lines, conn, reply>>

\* The write fails; the deferred unlock lets the next caller try.
SendFails(c) ==
    /\ stage[c] = "waiting"
    /\ mutex = NoCaller
    /\ conn # "open"
    /\ Return(c, 0)
    /\ UNCHANGED <<id, nextID, mutex, requests, lines, conn>>

\* The next line, whoever it is for; it may hold an error or no JSON at all.
Receive(c) ==
    /\ stage[c] = "sent"
    /\ lines # <<>> /\ conn # "closed"
    /\ \E answer \in {0, Head(lines)} : Return(c, answer)
    /\ lines' = Tail(lines)
    /\ mutex' = NoCaller
    /\ UNCHANGED <<id, nextID, requests, conn>>

\* FAULTY VARIANT of ReceiveFails: the failed read returns with the mutex held.
ReceiveFailsLocked(c) ==
    /\ stage[c] = "sent"
    /\ conn = "closed" \/ (conn = "hungup" /\ lines = <<>>)
    /\ Return(c, 0)
    /\ UNCHANGED <<id, nextID, mutex, requests, lines, conn>>

ReceiveFails(c) ==
    /\ stage[c] = "sent"
    /\ conn = "closed" \/ (conn = "hungup" /\ lines = <<>>)
    /\ Return(c, 0)
    /\ mutex' = NoCaller
    /\ UNCHANGED <<id, nextID, requests, lines, conn>>

CallStep(c) == Send(c) \/ SendFails(c) \/ Receive(c) \/ ReceiveFails(c)

HostAnswers ==
    /\ conn = "open"
    /\ \E r \in requests :
          /\ requests' = requests \ {r}
          /\ lines' = Append(lines, r)
    /\ UNCHANGED <<stage, id, nextID, mutex, conn, reply>>

HostHangsUp ==
    /\ conn = "open"
    /\ conn' = "hungup"
    /\ UNCHANGED <<stage, id, nextID, mutex, requests, lines, reply>>

CloseClient ==
    /\ conn' = "closed"
    /\ UNCHANGED <<stage, id, nextID, mutex, requests, lines, reply>>

LlmNext ==
    \/ \E c \in Callers : StartCall(c) \/ CallStep(c)
    \/ HostAnswers \/ HostHangsUp \/ CloseClient

LlmSpec == LlmInit /\ [][LlmNext]_llm
-----------------------------------------------------------------------------
LlmTypeOK ==
    /\ stage \in [Callers -> {"idle", "waiting", "sent", "returned"}]
    /\ id \in [Callers -> Nat]
    /\ nextID \in Nat
    /\ mutex \in Callers \union {NoCaller}
    /\ requests \subseteq Nat
    /\ lines \in Seq(Nat)
    /\ conn \in {"open", "hungup", "closed"}
    /\ reply \in [Callers -> Nat]

\* A caller that is given an answer is given the answer to its own request,
\* although no identifier is compared (ipc.go:97): no other line can be there.
OwnAnswer == \A c \in Callers : reply[c] \in {0, id[c]}

\* A request the host has neither answered nor hung up on.
HostIsSilent == conn = "open" /\ lines = <<>> /\ \E c \in Callers : stage[c] = "sent"
=============================================================================

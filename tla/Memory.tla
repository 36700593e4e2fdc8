------------------------------- MODULE Memory -------------------------------
(***************************************************************************)
(* What the memory gates remember and recall (gates/memory/retriever.go,   *)
(* writer.go, store/memory_store.go) over the queue of MemorySink: a       *)
(* request is shown what its client has said before, and what it says is   *)
(* remembered after its exchange, off the response path. The sweep that    *)
(* writer.go has for expired rows is started by nobody.                    *)
(*                                                                         *)
(* A text is the set of its words, a namespace the client it is the hash   *)
(* of, a content hash the client and the text it is made from.             *)
(***************************************************************************)
EXTENDS MemorySink

CONSTANTS
    None,               \* no client; nothing recalled
    Conversations,      \* what the requests say: functions to [client, text]
    Secrets,            \* words the redactor removes
    TTL,                \* the retention of a memory
    RetrievalLimit,     \* the most hits of a search
    MaxTime             \* bound: the end of time

ASSUME MemoryAssumption ==
    /\ TTL \in Nat \ {0} /\ RetrievalLimit \in Nat \ {0} /\ MaxTime \in Nat
    /\ \A c \in Conversations : DOMAIN c = Handlers

VARIABLES
    now,            \* the clock
    ask,            \* given: the client and the text of each request
    recalled,       \* the memories each request goes upstream with, or None
    record,         \* what each handler submits to be inserted, or None
    memories        \* the table

memoryVars == <<now, ask, recalled, record, memories>>
allVars    == <<vars, memoryVars>>

MemoryInit ==
    /\ Init
    /\ now = 0
    /\ ask \in Conversations
    /\ recalled = [h \in Handlers |-> None]
    /\ record = [h \in Handlers |-> None]
    /\ memories = {}

RedactString(text) == text \ Secrets

(* No authenticated client or no user turn: both gates do nothing.         *)
Inert(a) == a.client = None \/ a.text = {}

-----------------------------------------------------------------------------
(* Search: the rows of one namespace, not expired, that have every word of *)
(* the query; the best of them, if they are more than the limit.           *)
Matching(a) == {m \in memories : m.namespace = a.client /\ m.expires > now
                                 /\ a.text \subseteq m.content}
Search(a) == LET rows == Matching(a) IN
    IF Cardinality(rows) <= RetrievalLimit THEN {rows}
    ELSE {best \in SUBSET rows : Cardinality(best) = RetrievalLimit}

(* Retriever.PreRequest: a search that fails or overruns its budget lets   *)
(* the request go on without memories.                                     *)
PreRequest(h) ==
    /\ Arrive(h)
    /\ \E found \in {None} \cup (IF Inert(ask[h]) \/ app = "exited" THEN {} ELSE Search(ask[h])) :
         recalled' = [recalled EXCEPT ![h] = found]
    /\ UNCHANGED <<now, ask, record, memories>>

(* MemoryWriter.PostResponse: nothing is kept of a request without client  *)
(* or text, or when the chain has not got so far. The record is made from  *)
(* the request as the client sent it, not from the one that goes upstream, *)
(* in which the memories are the last user turn.                           *)
Answered(h) == recalled' = [recalled EXCEPT ![h] = None]

NotRemembered(h) ==
    /\ NothingToKeep(h)
    /\ Answered(h)
    /\ UNCHANGED <<now, ask, record, memories>>

said_Upstream(h) ==       \* Mutant: the writer gets the body that went upstream.
    IF recalled[h] \in {None, {}} THEN ask[h].text
    ELSE UNION {m.content : m \in recalled[h]} \cup {"(retrieved memory)"}
said(h) == ask[h].text
Remember(h) ==
    /\ CheckClosed(h) /\ ~Inert(ask[h])
    /\ record' = [record EXCEPT ![h] =
         [namespace |-> ask[h].client, text |-> said(h), content |-> RedactString(said(h)),
          created |-> now, expires |-> now + TTL]]
    /\ Answered(h)
    /\ UNCHANGED <<now, ask, memories>>

Submit(h) == Send(h) /\ UNCHANGED memoryVars

(* Insert: a row that has the hash already stays as it is, expired or not. *)
Insert(rec) ==
    IF \E m \in memories : m.namespace = rec.namespace /\ m.text = rec.text
    THEN memories ELSE memories \cup {rec}

RunInsert ==
    /\ RunTask
    /\ memories' = IF turn'[running] = "stored" THEN Insert(record[running]) ELSE memories
    /\ UNCHANGED <<now, ask, recalled, record>>

Tick ==
    /\ now < MaxTime
    /\ now' = now + 1
    /\ UNCHANGED <<vars, ask, recalled, record, memories>>

Elsewhere == (Receive \/ FinishRange \/ Shutdown) /\ UNCHANGED memoryVars

MemoryNext ==
    \/ \E h \in Handlers : PreRequest(h) \/ NotRemembered(h) \/ Remember(h) \/ Submit(h)
    \/ RunInsert \/ Elsewhere \/ Tick

MemorySpec == MemoryInit /\ [][MemoryNext]_allVars

(* The fairness of MemorySink.                                             *)
FairMemorySpec == MemorySpec /\ \A h \in Handlers : WF_vars(Send(h))

-----------------------------------------------------------------------------
(* What a request is shown is what its own client has said, in a request   *)
(* of its own, less than the retention ago, once and without its secrets;  *)
(* and a search that is not cut short shows all that, unless the client    *)
(* has said the same words before, when their row still holds (Search and  *)
(* Insert, whatever order requests, the worker and the clock run in).      *)
Stored(h)   == turn[h] = "stored"
Held(h)     == Stored(h) /\ now < record[h].created + TTL
Says(h, c)  == ask[h].client = c
SameTurn(g, h) == ask[g].client = ask[h].client /\ ask[g].text = ask[h].text

OwnWords(c, hits) ==
    /\ \A m \in hits : \E h \in Handlers :
         Held(h) /\ Says(h, c) /\ m.content = ask[h].text \ Secrets
    /\ \A m, n \in hits : m.text = n.text => m = n
Everything(a, hits) ==
    \A h \in Handlers :
        /\ Says(h, a.client) /\ a.text \subseteq RedactString(ask[h].text)
        /\ Stored(h) /\ \A g \in Handlers : Stored(g) /\ SameTurn(g, h) => Held(g)
        => \E m \in hits : m.content = RedactString(ask[h].text)

Shown(h) == at[h] = "idle" /\ at'[h] = "serving" /\ recalled'[h] # None
RecallsTruly ==
    [][\A h \in Handlers : Shown(h) =>
         /\ OwnWords(ask[h].client, recalled'[h])
         /\ Cardinality(recalled'[h]) < RetrievalLimit => Everything(ask[h], recalled'[h])
      ]_allVars

-----------------------------------------------------------------------------
(* Why RecallsTruly holds: a record keeps what was asked until it is a     *)
(* row, a row is the record of a stored turn, and what was stored has a    *)
(* row and one only.                                                       *)
Recorded(h) ==
    [namespace |-> ask[h].client, text |-> ask[h].text,
     content |-> RedactString(ask[h].text),
     created |-> record[h].created, expires |-> record[h].created + TTL]

RecordsKept ==
    /\ DOMAIN record = Handlers /\ DOMAIN recalled = Handlers
    /\ \A h \in Handlers : at[h] = "sending" \/ turn[h] # "none" => record[h] = Recorded(h)
RowsTold  == \A m \in memories : \E h \in Handlers : Stored(h) /\ m = record[h]
RowsOnce  == \A m, n \in memories : m.namespace = n.namespace /\ m.text = n.text => m = n
RowsThere == \A h \in Handlers : Stored(h) =>
                \E m \in memories : m.namespace = ask[h].client /\ m.text = ask[h].text
Remembers == RecordsKept /\ RowsTold /\ RowsOnce /\ RowsThere
=============================================================================

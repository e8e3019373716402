----------------------- MODULE LineaFinalizationMatcher -----------------------
(***************************************************************************)
(* LineaWethBridge's two event queries over logs that grow as the hub     *)
(* chain sends messages (MessageSent) and Linea claims them                *)
(* (MessageClaimed).  A message hash is sent once and claimed at most      *)
(* once.  Both chains are read on one block clock: `now` is the block      *)
(* being built, and a query reads only blocks below it, so the logs of a   *)
(* queried window never change afterwards.  The translation of the L2      *)
(* window to L1 blocks (getBlockForTimestamp) is the identity on this      *)
(* clock.                                                                  *)
(***************************************************************************)
EXTENDS Naturals, FiniteSets, Sequences

CONSTANTS
    Hashes,              \* message hashes
    Values,              \* the _value a message can carry, 0 included
    Recipients,          \* MessageSent recipients
    Us,                  \* the toAddress the client queries for
    MaxBlock,            \* the last block either chain builds
    EmptyTopicIsWildcard \* the node reads an empty topic array as "any"

ASSUME /\ Us \in Recipients
       /\ 0 \in Values /\ Values \subseteq Nat
       /\ EmptyTopicIsWildcard \in BOOLEAN

VARIABLES
    now,          \* the block being built
    sent,         \* MessageSent logs: [hash, value, to, block]
    claimed,      \* MessageClaimed logs: [hash, block]
    initiations,  \* last queryL1BridgeInitiationEvents: << >> or <<[from, to, events]>>
    finalizations \* last queryL2BridgeFinalizationEvents: likewise

vars == <<now, sent, claimed, initiations, finalizations>>

Blocks == 0..MaxBlock
Event == [hash : Hashes, amount : Values, block : Blocks]

InWindow(log, from, to) == from <= log.block /\ log.block <= to

\* paginatedEventQuery of MessageSent(undefined, toAddress) over a window.
MessageSentTo(to, from, last) ==
    {m \in sent : m.to = to /\ InWindow(m, from, last)}

\* processEvent(event, "_value"): the hash, the amount and the block.
ProcessEvent(m) == [hash |-> m.hash, amount |-> m.value, block |-> m.block]

\* paginatedEventQuery of MessageClaimed(hashes) over a window.  An empty
\* topic array is a wildcard on nodes that read it so, else matches nothing.
MessageClaimedFor(hashes, from, to) ==
    {c \in claimed : InWindow(c, from, to)
                     /\ (c.hash \in hashes \/ (hashes = {} /\ EmptyTopicIsWildcard))}

\* Mutant: the window's first block left out of the initiation query.
QueryL1BridgeInitiationEventsFromExclusive(from, to) ==
    {e \in {ProcessEvent(m) : m \in MessageSentTo(Us, from + 1, to)} : e.amount > 0}

\* queryL1BridgeInitiationEvents: the events with a positive amount.
QueryL1BridgeInitiationEvents(from, to) ==
    {e \in {ProcessEvent(m) : m \in MessageSentTo(Us, from, to)} : e.amount > 0}

\* Mutant: the _value > 0 filter dropped from internalMessageHashes.
InternalMessageHashesUnfiltered(initiated) == {m.hash : m \in initiated}

\* internalMessageHashes: the hashes of the initiations with _value > 0.
InternalMessageHashes(initiated) == {m.hash : m \in {i \in initiated : i.value > 0}}

\* The find over initiatedQueryResult, then the isDefined filter: each
\* claim with a matching initiation is reported with the initiation's
\* value at the claim's block.
MatchedEvents(initiated, claims) ==
    {[hash |-> p[1].hash, amount |-> p[2].value, block |-> p[1].block] :
        p \in {q \in claims \X initiated : q[1].hash = q[2].hash}}

\* queryL2BridgeFinalizationEvents over the L2 window [from, to], whose L1
\* translation is the same window on this clock; the early return when no
\* message to us was sent in it.
QueryL2BridgeFinalizationEvents(from, to) ==
    LET initiated == MessageSentTo(Us, from, to)
    IN  IF initiated = {} THEN {}
        ELSE MatchedEvents(initiated,
                 MessageClaimedFor(InternalMessageHashes(initiated), from, to))

Init ==
    /\ now = 0
    /\ sent = {}
    /\ claimed = {}
    /\ initiations = << >>
    /\ finalizations = << >>

Used(h) == \E m \in sent : m.hash = h

\* The hub chain's MessageService emits MessageSent for any sender: other
\* bridged deposits, or a zero-value message such as a relayed root bundle.
Send(h, v, r) ==
    /\ ~Used(h)
    /\ sent' = sent \cup {[hash |-> h, value |-> v, to |-> r, block |-> now]}
    /\ UNCHANGED <<now, claimed, initiations, finalizations>>

\* The relayer's own deposit: the transaction constructL1ToL2Txn builds is
\* AtomicDepositor.bridgeWeth(l2chainId, amount, amount, 0, calldata), which
\* wraps `amount` and forwards it as the value of the encoded
\* sendMessage(toAddress, bridgeFee = 0, "0x"): a MessageSent to toAddress
\* whose _value is the amount.
BridgeWeth(h, amount) == Send(h, amount, Us)

\* Linea's MessageService claims a sent message once.
Claim(h) ==
    /\ Used(h)
    /\ \A c \in claimed : c.hash # h
    /\ claimed' = claimed \cup {[hash |-> h, block |-> now]}
    /\ UNCHANGED <<now, sent, initiations, finalizations>>

NextBlock ==
    /\ now < MaxBlock
    /\ now' = now + 1
    /\ UNCHANGED <<sent, claimed, initiations, finalizations>>

QueryInitiations(from, to) ==
    /\ from <= to /\ to < now
    /\ initiations' = <<[from |-> from, to |-> to,
                         events |-> QueryL1BridgeInitiationEvents(from, to)]>>
    /\ UNCHANGED <<now, sent, claimed, finalizations>>

QueryFinalizations(from, to) ==
    /\ from <= to /\ to < now
    /\ finalizations' = <<[from |-> from, to |-> to,
                           events |-> QueryL2BridgeFinalizationEvents(from, to)]>>
    /\ UNCHANGED <<now, sent, claimed, initiations>>

Next ==
    \/ \E h \in Hashes, v \in Values : BridgeWeth(h, v)
    \/ \E h \in Hashes, v \in Values, r \in Recipients : Send(h, v, r)
    \/ \E h \in Hashes : Claim(h)
    \/ NextBlock
    \/ \E from, to \in Blocks : QueryInitiations(from, to) \/ QueryFinalizations(from, to)

Spec == Init /\ [][Next]_vars

(***************************************************************************)
(* Properties.                                                             *)
(***************************************************************************)

QueryResult == [from : Blocks, to : Blocks, events : SUBSET Event]

TypeOK ==
    /\ now \in Blocks
    /\ sent \subseteq [hash : Hashes, value : Values, to : Recipients, block : Blocks]
    /\ claimed \subseteq [hash : Hashes, block : Blocks]
    /\ initiations \in Seq(QueryResult) /\ Len(initiations) <= 1
    /\ finalizations \in Seq(QueryResult) /\ Len(finalizations) <= 1

\* The matcher of spec section 4.8: the inner join, by hash, of the
\* MessageSent logs to us with a positive value in the window and the
\* MessageClaimed logs in the window, with the initiation's value and the
\* claim's block.
SpecMatch(from, to) ==
    {[hash |-> m.hash, amount |-> m.value, block |-> c.block] :
        <<m, c>> \in {p \in sent \X claimed :
                         /\ p[1].hash = p[2].hash
                         /\ p[1].to = Us /\ p[1].value > 0
                         /\ InWindow(p[1], from, to) /\ InWindow(p[2], from, to)}}

\* queryL2BridgeFinalizationEvents reports exactly the finalizations the
\* matcher of the spec pairs: no claim of a zero-value, foreign or
\* out-of-window message, and none of ours missing.
FinalizationsMatchSpec ==
    finalizations # << >> =>
        finalizations[1].events = SpecMatch(finalizations[1].from, finalizations[1].to)

\* Over the same window, every finalization queryL2BridgeFinalizationEvents
\* reports is an initiation queryL1BridgeInitiationEvents reports, with the
\* same amount: the two queries agree on which transfers exist, so none is
\* finalized without having been outstanding.
FinalizedWereInitiated ==
    (/\ initiations # << >> /\ finalizations # << >>
     /\ initiations[1].from = finalizations[1].from
     /\ initiations[1].to = finalizations[1].to)
        => \A f \in finalizations[1].events :
               \E i \in initiations[1].events : i.hash = f.hash /\ i.amount = f.amount

\* Spec 4.8 step 5: initiations with zero value (administrative messages
\* such as relayed root bundles) are never reported as finalized transfers.
NoZeroValueFinalizations ==
    finalizations # << >> => \A f \in finalizations[1].events : f.amount > 0

=============================================================================

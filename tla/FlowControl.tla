----------------------------- MODULE FlowControl -----------------------------
(***************************************************************************)
(* Two peers connected by one overlay connection, each owning the capacity *)
(* engine of FlowControlCapacity for its side, exchanging data messages    *)
(* and credit grants over a reliable FIFO stream in each direction.        *)
(*                                                                         *)
(* The peer session (Peer.cpp) is not part of src/: its use of the engine  *)
(* is taken from the integration contract of the spec (section 4.4):       *)
(*   - before sending a flood message it checks hasOutboundCapacity and    *)
(*     then calls lockOutboundCapacity;                                    *)
(*   - it reads only while canRead(); each read message is passed to       *)
(*     lockLocalCapacity, and a FALSE result drops the connection;         *)
(*   - after processing a message it calls releaseLocalCapacity and grants *)
(*     the released flood capacity back to the sender;                     *)
(*   - a received grant is processed by releaseOutboundCapacity.           *)
(* Grant messages are ordinary non-flood messages on the wire.             *)
(* A failed releaseAssert aborts the node (aborted); a FALSE lock drops    *)
(* the connection (dropped).  Either ends the behaviour.                   *)
(*                                                                         *)
(* Fault model: the peers in Hostile may also send any data message, of    *)
(* any size and without credit, and grants they do not owe (of the kind    *)
(* the policy expects: a grant of the other kind is a local invariant      *)
(* violation the session must filter, spec section 7).  The properties     *)
(* that concern the honest node are stated of the peers not in Hostile.    *)
(***************************************************************************)
EXTENDS Naturals, Sequences, SequencesExt, FlowControlCapacity

CONSTANTS
  Peers,               \* the two ends of the connection
  MsgSizes,            \* XDR sizes a data message may have
  MaxInFlight,         \* bound: data messages sent by a peer and not yet processed
  GrantOnlyOnRecovery, \* TRUE: grant only when the flood pool was empty (spec 4.4 literal)
  Hostile,             \* the peers that do not follow the protocol
  MaxCredit            \* bound: CreditOutstanding a hostile peer may raise either direction to

ASSUME Cardinality(Peers) = 2
ASSUME MsgSizes \subseteq Nat \ {0}
ASSUME GrantOnlyOnRecovery \in BOOLEAN
ASSUME Hostile \subseteq Peers

VARIABLES
  engine,    \* engine[p, q]: p's capacity engine for its connection with q
  channel,   \* channel[p, q]: messages sent by p, not yet read by q
  pending,   \* pending[q, p]: messages q read from p, locked, not yet processed
  dropped,   \* the connection was dropped (lockLocalCapacity returned FALSE)
  aborted    \* a releaseAssert failed

vars == <<engine, channel, pending, dropped, aborted>>

Conns == {<<p, q>> \in Peers \X Peers : p # q}

\* Flood messages of every size; non-flood messages of one size, since a
\* non-flood message's size is charged to no pool under either policy
\* except the total pool of the message policy, where every cost is 1.
DataMsgs ==
  {[kind |-> "DATA", flood |-> TRUE, size |-> s, amount |-> 0] : s \in MsgSizes}
  \cup {[kind |-> "DATA", flood |-> FALSE, size |-> Min(MsgSizes), amount |-> 0]}

\* The grant kind each policy's session sends (spec section 6).
GrantKind == IF Policy = "BYTE" THEN "SEND_MORE_EXTENDED" ELSE "SEND_MORE"

Grant(n) == [kind |-> GrantKind, flood |-> FALSE, size |-> 1, amount |-> n]

FloodWindow == CapacityLimits.floodCapacity

\* Data messages from p to q not yet processed by q.
DataInFlight(p, q) ==
  Len(SelectSeq(channel[p, q], LAMBDA m : m.kind = "DATA"))
  + Len(SelectSeq(pending[q, p], LAMBDA m : m.kind = "DATA"))

\* Resource units of the flood messages, resp. grant amounts, in a sequence.
FloodCost(s) ==
  FoldLeft(LAMBDA acc, m : acc + (IF IsFloodMessage(m) THEN MsgResourceCount(m) ELSE 0), 0, s)
GrantTotal(s) ==
  FoldLeft(LAMBDA acc, m : acc + (IF m.kind \in GrantKinds THEN m.amount ELSE 0), 0, s)

\* Credit granted by q to p that p has not yet added to its outbound credit:
\* grants on the wire and grants read but not yet processed.
GrantsOwed(p, q) == GrantTotal(channel[q, p]) + GrantTotal(pending[p, q])

Live == ~dropped /\ ~aborted

Abort == /\ aborted' = TRUE
         /\ UNCHANGED <<engine, channel, pending, dropped>>

-----------------------------------------------------------------------------
Init ==
  /\ engine  = [c \in Conns |-> InitEngine]
  \* after the handshake each side grants its whole flood capacity
  /\ channel = [c \in Conns |-> <<Grant(FloodWindow)>>]
  /\ pending = [c \in Conns |-> <<>>]
  /\ dropped = FALSE
  /\ aborted = FALSE

\* p sends data message m to q.  Send admission: a flood message goes out
\* only when hasOutboundCapacity holds; lockOutboundCapacity then charges it.
SendMessage(p, q, m) ==
  /\ Live
  /\ DataInFlight(p, q) < MaxInFlight
  /\ IsFloodMessage(m) => HasOutboundCapacity(engine[p, q], m)
  /\ IF LockOutboundAsserts(engine[p, q], m)
       THEN /\ engine'  = [engine EXCEPT ![p, q] = LockOutboundCapacity(@, m)]
            /\ channel' = [channel EXCEPT ![p, q] = Append(@, m)]
            /\ UNCHANGED <<pending, dropped, aborted>>
       ELSE Abort

\* q reads the next message from p while canRead() and locks local capacity.
ReadMessage(p, q) ==
  LET m == Head(channel[p, q])
      e == engine[q, p]
  IN
  /\ Live
  /\ channel[p, q] # <<>>
  /\ CanRead(e)
  /\ IF LockLocalAsserts(e, m)
       THEN /\ engine'  = [engine EXCEPT ![q, p] = LockLocalCapacity(e, m)]
            /\ channel' = [channel EXCEPT ![p, q] = Tail(@)]
            /\ IF LockLocalResult(e, m)
                 THEN /\ pending' = [pending EXCEPT ![q, p] = Append(@, m)]
                      /\ UNCHANGED dropped
                 ELSE /\ dropped' = TRUE
                      /\ UNCHANGED pending
            /\ UNCHANGED aborted
       ELSE Abort

\* q finishes processing the oldest message read from p: a grant adds to
\* q's outbound credit, then the message's local capacity is released and
\* any released flood capacity is granted back to p.
ProcessMessage(q, p) ==
  LET m        == Head(pending[q, p])
      isGrant  == m.kind \in GrantKinds
      e1       == IF isGrant THEN ReleaseOutboundCapacity(engine[q, p], m)
                  ELSE engine[q, p]
      released == ReleasedFloodCapacity(e1, m)
      grant    == released > 0 /\ (GrantOnlyOnRecovery => e1.floodCapacity = 0)
  IN
  /\ Live
  /\ pending[q, p] # <<>>
  /\ IF (isGrant => ReleaseOutboundAsserts(m)) /\ ReleaseLocalAsserts(e1, m)
       THEN /\ engine'  = [engine EXCEPT ![q, p] = ReleaseLocalCapacity(e1, m)]
            /\ pending' = [pending EXCEPT ![q, p] = Tail(@)]
            /\ channel' = IF grant
                            THEN [channel EXCEPT ![q, p] = Append(@, Grant(released))]
                            ELSE channel
            /\ UNCHANGED <<dropped, aborted>>
       ELSE Abort

\* The credit p holds from q or will get back from q: its outbound credit,
\* its flood traffic to q not yet processed, and the grants owed to it
\* (FloodWindow while both follow the protocol).
CreditOutstanding(p, q) ==
  engine[p, q].outboundCapacity + FloodCost(channel[p, q])
  + FloodCost(pending[q, p]) + GrantsOwed(p, q)

\* Hostile peer h sends q a data message, flood or not and of any size,
\* with no send admission: it spends what credit it holds and sends
\* anyway when that does not cover the message.
HostileSend(h, q, m) ==
  LET cost   == IF IsFloodMessage(m) THEN MsgResourceCount(m) ELSE 0
      credit == engine[h, q].outboundCapacity
  IN
  /\ Live
  /\ h \in Hostile
  /\ DataInFlight(h, q) < MaxInFlight
  /\ CreditOutstanding(h, q) + Max({0, cost - credit}) <= MaxCredit
  /\ engine'  = [engine EXCEPT ![h, q].outboundCapacity = Max({0, credit - cost})]
  /\ channel' = [channel EXCEPT ![h, q] = Append(@, m)]
  /\ UNCHANGED <<pending, dropped, aborted>>

\* Hostile peer h grants q n units of credit it never received traffic for.
HostileGrant(h, q, n) ==
  /\ Live
  /\ h \in Hostile
  /\ CreditOutstanding(q, h) + n <= MaxCredit
  /\ channel' = [channel EXCEPT ![h, q] = Append(@, Grant(n))]
  /\ UNCHANGED <<engine, pending, dropped, aborted>>

Next ==
  \/ \E <<p, q>> \in Conns, m \in DataMsgs : SendMessage(p, q, m)
  \/ \E <<p, q>> \in Conns : ReadMessage(p, q)
  \/ \E <<p, q>> \in Conns : ProcessMessage(q, p)
  \/ \E <<h, q>> \in Conns, m \in DataMsgs : HostileSend(h, q, m)
  \/ \E <<h, q>> \in Conns, n \in 1..FloodWindow : HostileGrant(h, q, n)

\* The session's read loop keeps reading while canRead(), and processing
\* posted to the main thread eventually runs; sending is the application's
\* choice and gets no fairness.
Fairness ==
  \A <<p, q>> \in Conns : WF_vars(ReadMessage(p, q)) /\ WF_vars(ProcessMessage(q, p))

Spec == Init /\ [][Next]_vars /\ Fairness

-----------------------------------------------------------------------------
TypeOK ==
  /\ \A c \in Conns :
       /\ engine[c].floodCapacity \in Nat
       /\ engine[c].totalCapacity \in Nat \cup {NoTotal}
       /\ engine[c].outboundCapacity \in Nat
       /\ channel[c] \in Seq(DataMsgs \cup {Grant(n) : n \in 1..FloodWindow})
       /\ pending[c] \in Seq(DataMsgs \cup {Grant(n) : n \in 1..FloodWindow})
  /\ dropped \in BOOLEAN
  /\ aborted \in BOOLEAN

\* A peer that follows the send-admission rule never trips a fatal assertion
\* of the engine: not the total-pool check of lockLocalCapacity (guarded
\* only by the session reading while canRead), not lockOutboundCapacity,
\* not checkCapacityInvariants on release, not the grant-kind check.
NoFatalAssertion == ~aborted

\* lockLocalCapacity never returns FALSE between two peers that both follow
\* the protocol: the receiver's flood pool always covers the next flood
\* message, so the connection is never dropped as a protocol violation.
HonestPeerNeverDropped == ~dropped

\* Flood credit of each direction is conserved: the sender's outbound
\* credit, the flood messages on the wire, the flood capacity the receiver
\* holds locked, and the grants on their way back or not yet processed
\* always add up to the receiver's flood limit (no leakage, no double counting).
FloodCreditConserved ==
  \A <<p, q>> \in Conns :
    engine[p, q].outboundCapacity + FloodCost(channel[p, q])
    + (FloodWindow - engine[q, p].floodCapacity) + GrantsOwed(p, q)
    = FloodWindow

\* The sender is never starved for good: in every direction, infinitely
\* often the sender holds enough credit to send a flood message of the
\* smallest size (the receiver's releases keep coming back as grants).
FloodCreditRecurs ==
  \A <<p, q>> \in Conns :
    []<>(engine[p, q].outboundCapacity >= MsgResourceCount(
            [kind |-> "DATA", flood |-> TRUE, size |-> Min(MsgSizes), amount |-> 0]))

\* Whatever a hostile peer sends, an honest receiver never holds more read
\* and unprocessed flood traffic from it than its flood capacity, nor, under
\* the count policy, more messages than its total capacity: lockLocalCapacity
\* refuses the flood message its flood pool does not cover (and the session
\* drops the connection), and the session reads only while canRead().
ReceiveBufferBounded ==
  \A <<p, q>> \in Conns :
    q \notin Hostile =>
      /\ FloodCost(pending[q, p]) <= FloodWindow
      /\ CapacityLimits.totalCapacity # NoTotal
           => Len(pending[q, p]) <= CapacityLimits.totalCapacity

\* Spec section 8, "Recovery signal": releaseLocalCapacity reports a nonzero
\* released flood capacity only on the call that raises an empty flood pool
\* (zero on releases that do not cross zero).  Stated of every processing
\* step, on the value the engine returns for the message it releases.
RecoverySignalOnlyFromEmpty ==
  [][\A <<q, p>> \in Conns :
       (pending[q, p] # <<>> /\ pending'[q, p] = Tail(pending[q, p]))
         => (ReleasedFloodCapacity(engine[q, p], Head(pending[q, p])) > 0
               => engine[q, p].floodCapacity = 0)]_vars

=============================================================================

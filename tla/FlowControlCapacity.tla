------------------------- MODULE FlowControlCapacity -------------------------
(***************************************************************************)
(* The per-connection capacity engine of src/overlay/FlowControlCapacity.  *)
(* One engine exists per peer connection and is mutated only by the peer   *)
(* session that owns it, one call at a time, so the engine is a record     *)
(* value and each C++ method is a pair of operators: the engine after the  *)
(* call, and the value it returns.  A releaseAssert is an operator that is *)
(* TRUE when the assertion holds; the session module turns a failed one    *)
(* into an abort of the node.                                              *)
(*                                                                         *)
(* Engine record (fields named after the C++ members):                     *)
(*   floodCapacity    mCapacity.mFloodCapacity                             *)
(*   totalCapacity    *mCapacity.mTotalCapacity, or NoTotal for nullopt    *)
(*   outboundCapacity mOutboundCapacity                                    *)
(*                                                                         *)
(* Messages are records [kind, flood, size, amount]: kind "DATA" is any    *)
(* ordinary overlay message, flood is the OverlayManager::isFloodMessage   *)
(* verdict, size its XDR size; kind "SEND_MORE" / "SEND_MORE_EXTENDED" is  *)
(* a credit grant carrying amount units (numMessages or numBytes).         *)
(***************************************************************************)
EXTENDS Naturals

CONSTANTS
  Policy,                          \* "MESSAGE" or "BYTE", fixed per connection
  PEER_FLOOD_READING_CAPACITY,     \* flood message-count ceiling
  PEER_READING_CAPACITY,           \* total message-count ceiling
  PEER_FLOOD_READING_CAPACITY_BYTES, \* flood byte ceiling
  NoTotal                          \* model value standing for std::nullopt

ASSUME Policy \in {"MESSAGE", "BYTE"}
ASSUME PEER_FLOOD_READING_CAPACITY \in Nat
ASSUME PEER_READING_CAPACITY \in Nat
ASSUME PEER_FLOOD_READING_CAPACITY_BYTES \in Nat

GrantKinds == {"SEND_MORE", "SEND_MORE_EXTENDED"}

IsFloodMessage(m) == m.kind = "DATA" /\ m.flood

-----------------------------------------------------------------------------
(* Policy-specific methods.                                                *)

\* FlowControlByteCapacity::getMsgResourceCount: the message's XDR size.
ByteResourceCount(m) == m.size

\* FlowControlMessageCapacity::getMsgResourceCount: every message costs 1.
MsgResourceCount(m) == IF Policy = "BYTE" THEN ByteResourceCount(m) ELSE 1

-----------------------------------------------------------------------------
(* Mutations: each is a plausible slip in one method, used to confirm that *)
(* a property of the model is sensitive to that method.                    *)

\* canRead compared with >= : reading goes on with an empty total pool.
CanReadAtZero(e) == IF Policy = "BYTE" THEN TRUE ELSE e.totalCapacity >= 0

\* hasOutboundCapacity off by one.
HasOutboundCapacityOffByOne(e, m) == e.outboundCapacity + 1 >= MsgResourceCount(m)

\* lockLocalCapacity forgets to charge the flood pool.
LockLocalCapacityNoFloodCharge(e, m) ==
  IF e.totalCapacity # NoTotal
    THEN [e EXCEPT !.totalCapacity = @ - MsgResourceCount(m)]
    ELSE e

\* lockLocalCapacity without its early return: a flood message is accepted
\* whatever the flood pool holds.
LockLocalResultNoFloodCheck(e, m) == TRUE

\* releaseLocalCapacity refunds the total pool only.
ReleaseLocalCapacityNoFloodRefund(e, m) ==
  IF e.totalCapacity # NoTotal
    THEN [e EXCEPT !.totalCapacity = @ + MsgResourceCount(m)]
    ELSE e

\* releaseLocalCapacity reports the cost of every message as flood capacity.
ReleasedFloodCapacityAnyMessage(e, m) == MsgResourceCount(m)

\* releaseLocalCapacity reports flood capacity only when the pool was empty
\* (the "recovery signal" reading of the spec).
ReleasedFloodCapacityOnlyFromEmpty(e, m) ==
  IF IsFloodMessage(m) /\ e.floodCapacity = 0 THEN MsgResourceCount(m) ELSE 0

-----------------------------------------------------------------------------
\* FlowControlByteCapacity::getCapacityLimits: flood bytes, no total.
ByteCapacityLimits ==
  [floodCapacity |-> PEER_FLOOD_READING_CAPACITY_BYTES, totalCapacity |-> NoTotal]

\* FlowControlMessageCapacity::getCapacityLimits.
CapacityLimits ==
  IF Policy = "BYTE" THEN ByteCapacityLimits
  ELSE [floodCapacity |-> PEER_FLOOD_READING_CAPACITY,
        totalCapacity |-> PEER_READING_CAPACITY]

\* FlowControlByteCapacity::canRead: asserts there is no total, then TRUE.
ByteCanRead(e) == TRUE

\* FlowControlMessageCapacity::canRead: reading stops once the total pool
\* is exhausted.
CanRead(e) == IF Policy = "BYTE" THEN ByteCanRead(e) ELSE e.totalCapacity > 0

\* FlowControlByteCapacity::releaseOutboundCapacity: only SEND_MORE_EXTENDED
\* is accepted (releaseAssert); its numBytes is added to the outbound credit.
ByteReleaseOutboundAsserts(g) == g.kind = "SEND_MORE_EXTENDED"

ByteReleaseOutboundCapacity(e, g) ==
  [e EXCEPT !.outboundCapacity = @ + g.amount]

\* FlowControlMessageCapacity::releaseOutboundCapacity: either grant kind,
\* numMessages added to the outbound credit.
ReleaseOutboundAsserts(g) ==
  IF Policy = "BYTE" THEN ByteReleaseOutboundAsserts(g) ELSE g.kind \in GrantKinds

ReleaseOutboundCapacity(e, g) ==
  IF Policy = "BYTE" THEN ByteReleaseOutboundCapacity(e, g)
  ELSE [e EXCEPT !.outboundCapacity = @ + g.amount]

-----------------------------------------------------------------------------
(* Shared methods of FlowControlCapacity.                                  *)

\* Constructors: mCapacity = getCapacityLimits(), mOutboundCapacity = 0.
InitEngine ==
  [floodCapacity    |-> CapacityLimits.floodCapacity,
   totalCapacity    |-> CapacityLimits.totalCapacity,
   outboundCapacity |-> 0]

\* checkCapacityInvariants: neither pool above its limit, and the total pool
\* present exactly when the limits have one.
CheckCapacityInvariants(e) ==
  /\ CapacityLimits.floodCapacity >= e.floodCapacity
  /\ IF CapacityLimits.totalCapacity # NoTotal
       THEN /\ e.totalCapacity # NoTotal
            /\ CapacityLimits.totalCapacity >= e.totalCapacity
       ELSE e.totalCapacity = NoTotal

\* hasOutboundCapacity.
HasOutboundCapacity(e, m) == e.outboundCapacity >= MsgResourceCount(m)

\* lockOutboundCapacity: a no-op for non-flood messages; for flood messages
\* asserts the credit suffices and takes the message's cost from it.
LockOutboundAsserts(e, m) == IsFloodMessage(m) => HasOutboundCapacity(e, m)

LockOutboundCapacity(e, m) ==
  IF IsFloodMessage(m)
    THEN [e EXCEPT !.outboundCapacity = @ - MsgResourceCount(m)]
    ELSE e

\* lockLocalCapacity, assertions: the invariants on entry, then a tracked
\* total pool must cover the cost before it is decremented.
LockLocalAsserts(e, m) ==
  /\ CheckCapacityInvariants(e)
  /\ e.totalCapacity # NoTotal => e.totalCapacity >= MsgResourceCount(m)

\* lockLocalCapacity, effect: the total pool is charged first and
\* unconditionally; the flood pool is charged only when it covers the cost.
\* On the early return (flood pool too small) the total charge stands.
LockLocalCapacity(e, m) ==
  LET cost     == MsgResourceCount(m)
      charged  == IF e.totalCapacity # NoTotal
                    THEN [e EXCEPT !.totalCapacity = @ - cost]
                    ELSE e
  IN  IF IsFloodMessage(m) /\ e.floodCapacity >= cost
        THEN [charged EXCEPT !.floodCapacity = @ - cost]
        ELSE charged

\* lockLocalCapacity, result: FALSE exactly on the early return.
LockLocalResult(e, m) ==
  ~(IsFloodMessage(m) /\ e.floodCapacity < MsgResourceCount(m))

\* releaseLocalCapacity, effect: the cost goes back to the total pool when
\* tracked, and to the flood pool when the message is a flood message.
ReleaseLocalCapacity(e, m) ==
  LET cost     == MsgResourceCount(m)
      refunded == IF e.totalCapacity # NoTotal
                    THEN [e EXCEPT !.totalCapacity = @ + cost]
                    ELSE e
  IN  IF IsFloodMessage(m)
        THEN [refunded EXCEPT !.floodCapacity = @ + cost]
        ELSE refunded

\* releaseLocalCapacity, result: the flood capacity released, i.e. the
\* cost for every flood message, whether or not the pool was empty.
ReleasedFloodCapacity(e, m) ==
  IF IsFloodMessage(m) THEN MsgResourceCount(m) ELSE 0

\* releaseLocalCapacity, assertion: checkCapacityInvariants on exit.
ReleaseLocalAsserts(e, m) == CheckCapacityInvariants(ReleaseLocalCapacity(e, m))

=============================================================================

-------------------------- MODULE PrimitivesProofs --------------------------
(***************************************************************************)
(* Proofs about the components that share no state with the rest: the      *)
(* limiter of a destination, the publisher's channel in confirm mode and   *)
(* the HTTP sender; for any finite set of callers, any positive limits,    *)
(* any number of messages and any hosts, addresses and bytes of an answer. *)
(***************************************************************************)
EXTENDS Limiter, PublisherChannel, HTTPSender, FiniteSetTheorems, SequenceTheorems,
        WellFoundedInduction, TLAPS

-----------------------------------------------------------------------------
(* The limiter leaks no slot and loses no wake-up.                         *)
(*                                                                         *)
(* NoLostWakeup is not inductive alone: the first call on a destination    *)
(* sets the limit from nothing, so nobody may be asleep before it, and the *)
(* limit it sets has to be positive for the next call to find a record.    *)

(* A caller in Acquire asked for a positive limit. *)
AskedPositive == \A c \in Caller : pc[c] # "idle" => wants[c] > 0

(* Nobody sleeps on a destination that has no record yet. *)
NobodyWaitsUnknown == limit = 0 => \A c \in Caller : pc[c] # "waiting"

LimiterInv ==
    /\ LimiterTypeOK
    /\ ActiveCountsHolders
    /\ AskedPositive
    /\ NobodyWaitsUnknown
    /\ NoLostWakeup

-----------------------------------------------------------------------------
(* Counting holders. *)

(* A caller that gets a slot is one holder more. *)
LEMMA HolderAdded ==
    ASSUME ActiveCountsHolders, NEW c \in Caller, c \notin Holders,
           Holders' = Holders \cup {c}, active' = active + 1
    PROVE  ActiveCountsHolders'
  <1>1. IsFiniteSet(Holders)
    BY CallerAssumption, FS_Subset DEF Holders
  <1> QED
    BY <1>1, FS_AddElement DEF ActiveCountsHolders

(* A caller that gives its slot back is one holder less; it had one. *)
LEMMA HolderRemoved ==
    ASSUME ActiveCountsHolders, NEW c \in Caller, c \in Holders,
           Holders' = Holders \ {c}, active' = active - 1
    PROVE  ActiveCountsHolders' /\ active' \in Nat
  <1>1. IsFiniteSet(Holders)
    BY CallerAssumption, FS_Subset DEF Holders
  <1>2. IsFiniteSet(Holders \ {c}) /\ Cardinality(Holders \ {c}) = Cardinality(Holders) - 1
    BY <1>1, FS_RemoveElement
  <1>3. Cardinality(Holders \ {c}) \in Nat
    BY <1>2, FS_CardinalityType
  <1> QED
    BY <1>2, <1>3 DEF ActiveCountsHolders

(* Steps that move nobody into or out of "holding" change no count. *)
LEMMA HoldersKept ==
    ASSUME ActiveCountsHolders, Holders' = Holders, active' = active
    PROVE  ActiveCountsHolders'
  BY DEF ActiveCountsHolders

-----------------------------------------------------------------------------
(* One lemma per step of Acquire and its release function. *)

(* Calls and steps outside the mutex put nobody to sleep. *)
LEMMA OutsideMutexStep ==
    ASSUME LimiterInv, NEW c \in Caller,
           CallAcquire(c) \/ ContextDone(c) \/ CheckContext(c) \/ GiveUp(c) \/ Wake(c)
    PROVE  LimiterInv'
  <1> USE DEF LimiterInv, LimiterTypeOK, CallAcquire, ContextDone, CheckContext, GiveUp, Wake
  <1>1. LimiterTypeOK'
    BY LimitsAssumption
  <1>2. Holders' = Holders
    BY DEF Holders
  <1>3. ActiveCountsHolders'
    BY <1>2, HoldersKept
  <1>4. AskedPositive'
    BY LimitsAssumption DEF AskedPositive
  <1>5. \A d \in Caller : pc'[d] = "waiting" => pc[d] = "waiting"
    OBVIOUS
  <1>6. NobodyWaitsUnknown'
    BY <1>5 DEF NobodyWaitsUnknown
  <1>7. NoLostWakeup'
    BY <1>5 DEF NoLostWakeup
  <1> QED
    BY <1>1, <1>3, <1>4, <1>6, <1>7

(* The section under the mutex: a slot is taken, or the caller sleeps and  *)
(* every slot of the limit it leaves behind is taken.                      *)
LEMMA TryAcquireStep ==
    ASSUME LimiterInv, NEW c \in Caller, TryAcquire(c)
    PROVE  LimiterInv'
  <1> USE DEF LimiterInv, LimiterTypeOK, TryAcquire, Notify
  <1>1. wants[c] \in Nat /\ wants[c] > 0 /\ pc[c] = "lock"
    BY DEF AskedPositive
  <1>2. NewLimit(c) \in Nat /\ NewLimit(c) > 0
    BY <1>1 DEF NewLimit
  <1>3. LimiterTypeOK'
    BY <1>2
  <1>4. ActiveCountsHolders'
    <2>1. c \notin Holders
      BY <1>1 DEF Holders
    <2>2. CASE HasSlot(c)
      <3>1. Holders' = Holders \cup {c}
        BY <2>2 DEF Holders
      <3> QED
        BY <2>1, <2>2, <3>1, HolderAdded
    <2>3. CASE ~HasSlot(c)
      <3>1. Holders' = Holders
        BY <2>1, <2>3 DEF Holders
      <3> QED
        BY <2>3, <3>1, HoldersKept
    <2> QED
      BY <2>2, <2>3
  <1>5. AskedPositive'
    BY <1>1 DEF AskedPositive
  <1>6. NobodyWaitsUnknown'
    BY <1>2 DEF NobodyWaitsUnknown
  <1>7. NoLostWakeup'
    <2>1. CASE limit = 0
      BY <1>2, <2>1 DEF NobodyWaitsUnknown, NoLostWakeup, HasSlot
    <2>2. CASE limit # 0 /\ wants[c] < limit
      BY <1>2, <2>2 DEF NoLostWakeup, HasSlot
    <2>3. CASE limit # 0 /\ ~(wants[c] < limit)
      BY <1>1, <2>3 DEF NoLostWakeup, HasSlot, NewLimit
    <2> QED
      BY <2>1, <2>2, <2>3
  <1> QED
    BY <1>3, <1>4, <1>5, <1>6, <1>7

(* A released slot wakes every sleeper. *)
LEMMA ReleaseStep ==
    ASSUME LimiterInv, NEW c \in Caller, Release(c)
    PROVE  LimiterInv'
  <1> USE DEF LimiterInv, LimiterTypeOK, Release, Notify
  <1>1. c \in Holders /\ Holders' = Holders \ {c}
    BY DEF Holders
  <1>2. ActiveCountsHolders' /\ active' \in Nat
    BY <1>1, HolderRemoved
  <1>3. LimiterTypeOK'
    BY <1>2
  <1>4. \A d \in Caller : pc'[d] # "waiting"
    OBVIOUS
  <1>5. AskedPositive'
    BY DEF AskedPositive
  <1>6. NobodyWaitsUnknown' /\ NoLostWakeup'
    BY <1>4 DEF NobodyWaitsUnknown, NoLostWakeup
  <1> QED
    BY <1>2, <1>3, <1>5, <1>6

(* Every step of the limiter keeps the invariant. *)
LEMMA LimiterNextInv == LimiterInv /\ [LimiterNext]_limiterVars => LimiterInv'
  <1> SUFFICES ASSUME LimiterInv, [LimiterNext]_limiterVars PROVE LimiterInv'
    OBVIOUS
  <1>1. CASE LimiterNext
    BY <1>1, OutsideMutexStep, TryAcquireStep, ReleaseStep DEF LimiterNext, Advance
  <1>2. CASE UNCHANGED limiterVars
    BY <1>2 DEF limiterVars, LimiterInv, LimiterTypeOK, ActiveCountsHolders, Holders,
                AskedPositive, NobodyWaitsUnknown, NoLostWakeup
  <1> QED
    BY <1>1, <1>2

(* The invariant holds before the first call. *)
LEMMA LimiterInitInv == LimiterInit => LimiterInv
  <1> SUFFICES ASSUME LimiterInit PROVE LimiterInv
    OBVIOUS
  <1>1. Holders = {}
    BY DEF LimiterInit, Holders
  <1>2. ActiveCountsHolders
    BY <1>1, FS_EmptySet DEF LimiterInit, ActiveCountsHolders
  <1> QED
    BY <1>2 DEF LimiterInit, LimiterInv, LimiterTypeOK, AskedPositive,
                NobodyWaitsUnknown, NoLostWakeup

(* Every reachable state of the limiter satisfies the invariant. *)
LEMMA LimiterSafety == LimiterSpec => []LimiterInv
  BY LimiterInitInv, LimiterNextInv, PTL DEF LimiterSpec

-----------------------------------------------------------------------------
(* active never becomes negative and callers stay where Acquire can be.    *)
THEOREM LimiterTypeCorrect == LimiterSpec => []LimiterTypeOK
  <1>1. LimiterInv => LimiterTypeOK
    BY DEF LimiterInv
  <1> QED
    BY <1>1, LimiterSafety, PTL

(* active is the number of callers between Acquire and release, whoever is *)
(* cancelled when: Acquire leaks no slot.                                  *)
THEOREM NoSlotLeaks == LimiterSpec => []ActiveCountsHolders
  <1>1. LimiterInv => ActiveCountsHolders
    BY DEF LimiterInv
  <1> QED
    BY <1>1, LimiterSafety, PTL

(* Nobody sleeps in Acquire while a slot is free, however release, lowered *)
(* limits and new waiters interleave.                                      *)
THEOREM SleepersHaveNoSlot == LimiterSpec => []NoLostWakeup
  <1>1. LimiterInv => NoLostWakeup
    BY DEF LimiterInv
  <1> QED
    BY <1>1, LimiterSafety, PTL

(* Acquire never exceeds the limit; only lowering the limit can leave more *)
(* holders than it allows.                                                 *)
THEOREM LimitRespected == LimiterSpec => StaysWithinLimit
  <1>1. ASSUME LimiterInv, [LimiterNext]_limiterVars
        PROVE  [active <= limit => active' <= limit' \/ limit' < limit]_limiterVars
    <2>1. CASE UNCHANGED limiterVars
      BY <2>1
    <2>2. ASSUME NEW c \in Caller,
                 CallAcquire(c) \/ ContextDone(c) \/ CheckContext(c) \/ GiveUp(c) \/ Wake(c)
          PROVE  active' = active /\ limit' = limit
      BY <2>2 DEF CallAcquire, ContextDone, CheckContext, GiveUp, Wake
    <2>3. ASSUME NEW c \in Caller, TryAcquire(c)
          PROVE  active <= limit => active' <= limit' \/ limit' < limit
      BY <1>1, <2>3 DEF LimiterInv, LimiterTypeOK, TryAcquire, NewLimit, HasSlot
    <2>4. ASSUME NEW c \in Caller, Release(c)
          PROVE  active <= limit => active' <= limit'
      BY <1>1, <2>4 DEF LimiterInv, LimiterTypeOK, Release
    <2> QED
      BY <1>1, <2>1, <2>2, <2>3, <2>4 DEF LimiterNext, Advance
  <1> QED
    BY <1>1, LimiterSafety, PTL DEF LimiterSpec, StaysWithinLimit

-----------------------------------------------------------------------------
(* The confirm channel: nil of Publish means that the queue stored the     *)
(* message.                                                                *)
(*                                                                         *)
(* ConfirmedMeansStored needs to know whose answer an ack is. Publish      *)
(* sends one message at a time and leaves the process on every error, so   *)
(* the answers on their way are those to the message sent last, and a      *)
(* basic.return is always ahead of its ack.                                *)

(* The two Go channels and the frames that will get into them. *)
OnTheWay(r, c, f) == returns = r /\ confirms = c /\ frames = f

NothingOnTheWay == OnTheWay(<<>>, <<>>, <<>>)

Stored == sent \in stored

(* The answer to the message sent last, at every place it can be. *)
AckOnTheWay ==
    Stored /\ (OnTheWay(<<>>, <<>>, <<"ack">>) \/ OnTheWay(<<>>, <<"ack">>, <<>>))

NackOnTheWay == OnTheWay(<<>>, <<>>, <<"nack">>) \/ OnTheWay(<<>>, <<"nack">>, <<>>)

ReturnOnTheWay ==
    \/ OnTheWay(<<>>, <<>>, <<"return", "ack">>)
    \/ OnTheWay(<<"return">>, <<>>, <<"ack">>)
    \/ OnTheWay(<<"return">>, <<"ack">>, <<>>)

(* A lost connection delivers no confirmation any more. *)
AnswerLost == ~open /\ confirms = <<>>

AwaitsItsAnswer ==
    \/ inbox = <<sent>> /\ NothingOnTheWay
    \/ inbox = <<>> /\ (AckOnTheWay \/ NackOnTheWay \/ ReturnOnTheWay)
    \/ AnswerLost

AckTaken ==
    /\ inbox = <<>> /\ confirms = <<>> /\ frames = <<>>
    /\ returns = <<"return">> \/ (returns = <<>> /\ Stored)

ChannelInv ==
    /\ sent \in Nat
    /\ calling \in {"ready", "select", "check", "exited"}
    /\ ConfirmedMeansStored
    /\ NoAnswerLeftOver
    /\ calling = "select" => AwaitsItsAnswer
    /\ calling = "check" => AckTaken

(* Publish sends into empty channels. *)
LEMMA SendStep ==
    ASSUME ChannelInv, Send
    PROVE  ChannelInv'
  <1>1. inbox' = <<sent'>> /\ NothingOnTheWay'
    BY DEF ChannelInv, Send, NoAnswerLeftOver, NothingOnTheWay, OnTheWay
  <1> QED
    BY <1>1 DEF ChannelInv, Send, AwaitsItsAnswer, ConfirmedMeansStored, NoAnswerLeftOver

(* An error ends the process; nothing is promised about its channels. *)
LEMMA ChannelErrorStep ==
    ASSUME ChannelInv, SendFails \/ TakeReturn \/ GiveUpOnConfirm
    PROVE  ChannelInv'
  BY DEF ChannelInv, SendFails, TakeReturn, GiveUpOnConfirm, AfterError,
         ConfirmedMeansStored, NoAnswerLeftOver

(* The confirmation that is taken is the last frame of its answer. *)
LEMMA TakeConfirmStep ==
    ASSUME ChannelInv, TakeConfirm
    PROVE  ChannelInv'
  <1>1. /\ inbox = <<>> /\ frames = <<>> /\ Tail(confirms) = <<>>
        /\ Head(confirms) = "ack" =>
              returns = <<"return">> \/ (returns = <<>> /\ Stored)
    BY DEF ChannelInv, TakeConfirm, AwaitsItsAnswer, NothingOnTheWay, AckOnTheWay,
           NackOnTheWay, ReturnOnTheWay, AnswerLost, OnTheWay
  <1> QED
    BY <1>1 DEF ChannelInv, TakeConfirm, AfterError, AckTaken, Stored,
                ConfirmedMeansStored, NoAnswerLeftOver

(* Publish returns nil only when no return was ahead of the ack. *)
LEMMA CheckReturnsStep ==
    ASSUME ChannelInv, CheckReturns
    PROVE  ChannelInv'
  BY DEF ChannelInv, CheckReturns, AfterError, AckTaken, Stored, ConfirmedMeansStored,
         NoAnswerLeftOver

(* The broker answers the one message it has not seen. *)
LEMMA BrokerStep ==
    ASSUME ChannelInv, BrokerRoutes \/ BrokerReturns
    PROVE  ChannelInv'
  <1>0. inbox # <<>> /\ calling \in {"select", "exited"}
    BY DEF ChannelInv, BrokerRoutes, BrokerReturns, NoAnswerLeftOver, AckTaken
  <1>1. ConfirmedMeansStored'
    BY DEF ChannelInv, BrokerRoutes, BrokerReturns, ConfirmedMeansStored
  <1>2. ASSUME calling = "select" PROVE AwaitsItsAnswer'
    <2>1. CASE AnswerLost
      BY <2>1 DEF AnswerLost, AwaitsItsAnswer, BrokerRoutes, BrokerReturns
    <2>2. CASE inbox = <<sent>> /\ NothingOnTheWay
      BY <2>2 DEF BrokerRoutes, BrokerReturns, AwaitsItsAnswer, NothingOnTheWay, AckOnTheWay,
                  NackOnTheWay, ReturnOnTheWay, OnTheWay, Stored
    <2> QED
      BY <1>0, <1>2, <2>1, <2>2 DEF ChannelInv, AwaitsItsAnswer
  <1> QED
    BY <1>0, <1>1, <1>2 DEF ChannelInv, NoAnswerLeftOver, BrokerRoutes, BrokerReturns

(* The frames get into the Go channels in their order. *)
LEMMA DispatchFrameStep ==
    ASSUME ChannelInv, DispatchFrame
    PROVE  ChannelInv'
  <1>0. frames # <<>> /\ open /\ calling \in {"select", "exited"}
    BY DEF ChannelInv, DispatchFrame, NoAnswerLeftOver, AckTaken
  <1>1. ASSUME calling = "select" PROVE AwaitsItsAnswer'
    <2> USE DEF OnTheWay
    <2>1. inbox = <<>> /\ (AckOnTheWay \/ NackOnTheWay \/ ReturnOnTheWay)
      BY <1>0, <1>1 DEF ChannelInv, AwaitsItsAnswer, NothingOnTheWay, AnswerLost
    <2>2. CASE AckOnTheWay
      <3>1. AckOnTheWay'
        BY <1>0, <2>2 DEF AckOnTheWay, DispatchFrame, Stored
      <3> QED
        BY <2>1, <3>1 DEF AwaitsItsAnswer, DispatchFrame
    <2>3. CASE NackOnTheWay
      <3>1. OnTheWay(<<>>, <<>>, <<"nack">>)
        BY <1>0, <2>3 DEF NackOnTheWay
      <3>2. OnTheWay(<<>>, <<"nack">>, <<>>)'
        BY <3>1 DEF DispatchFrame
      <3> QED
        BY <2>1, <3>2 DEF AwaitsItsAnswer, NackOnTheWay, DispatchFrame
    <2>4. CASE ReturnOnTheWay
      <3>1. CASE OnTheWay(<<>>, <<>>, <<"return", "ack">>)
        <4>1. Head(frames) = "return" /\ Tail(frames) = <<"ack">>
          BY <3>1
        <4>2. OnTheWay(<<"return">>, <<>>, <<"ack">>)'
          BY <3>1, <4>1 DEF DispatchFrame
        <4> QED
          BY <2>1, <4>2 DEF AwaitsItsAnswer, ReturnOnTheWay, DispatchFrame
      <3>2. CASE OnTheWay(<<"return">>, <<>>, <<"ack">>)
        <4>1. OnTheWay(<<"return">>, <<"ack">>, <<>>)'
          BY <3>2 DEF DispatchFrame
        <4> QED
          BY <2>1, <4>1 DEF AwaitsItsAnswer, ReturnOnTheWay, DispatchFrame
      <3> QED
        BY <1>0, <2>4, <3>1, <3>2 DEF ReturnOnTheWay
    <2> QED
      BY <2>1, <2>2, <2>3, <2>4
  <1> QED
    BY <1>0, <1>1 DEF ChannelInv, DispatchFrame, NoAnswerLeftOver, ConfirmedMeansStored

(* Frames on their way are lost; a confirmation already taken over is not. *)
LEMMA ConnectionLostStep ==
    ASSUME ChannelInv, ConnectionLost
    PROVE  ChannelInv'
  <1>1. ASSUME calling = "select" PROVE AwaitsItsAnswer'
    <2>1. CASE confirms = <<>>
      BY <2>1 DEF ConnectionLost, AwaitsItsAnswer, AnswerLost
    <2>2. CASE confirms # <<>>
      BY <1>1, <2>2 DEF ChannelInv, ConnectionLost, AwaitsItsAnswer, NothingOnTheWay,
             AckOnTheWay, NackOnTheWay, ReturnOnTheWay, OnTheWay, Stored, AnswerLost
    <2> QED
      BY <2>1, <2>2
  <1>2. ASSUME calling = "check" PROVE AckTaken'
    BY <1>2 DEF ChannelInv, ConnectionLost, AckTaken, Stored
  <1> QED
    BY <1>1, <1>2 DEF ChannelInv, ConnectionLost, NoAnswerLeftOver, ConfirmedMeansStored

(* Every step of publisher, library and broker keeps the invariant. *)
LEMMA ChannelNextInv == ChannelInv /\ [ChannelNext]_channelVars => ChannelInv'
  <1> SUFFICES ASSUME ChannelInv, [ChannelNext]_channelVars PROVE ChannelInv'
    OBVIOUS
  <1>1. CASE ChannelNext
    BY <1>1, SendStep, ChannelErrorStep, TakeConfirmStep, CheckReturnsStep, BrokerStep,
       DispatchFrameStep, ConnectionLostStep DEF ChannelNext
  <1>2. CASE UNCHANGED channelVars
    BY <1>2 DEF channelVars, ChannelInv, ConfirmedMeansStored, NoAnswerLeftOver,
                AwaitsItsAnswer, NothingOnTheWay, AckOnTheWay, NackOnTheWay, ReturnOnTheWay,
                OnTheWay, Stored, AnswerLost, AckTaken
  <1> QED
    BY <1>1, <1>2

(* Every reachable state of the channel satisfies the invariant. *)
LEMMA ChannelSafety == ChannelSpec => []ChannelInv
  <1>1. ChannelInit => ChannelInv
    BY DEF ChannelInit, ChannelInv, ConfirmedMeansStored, NoAnswerLeftOver
  <1> QED
    BY <1>1, ChannelNextInv, PTL DEF ChannelSpec

(* Client.Publish returns nil only for a message the queue has stored: an  *)
(* ack of an unroutable message or of an earlier call is never taken for   *)
(* it, however long the run.                                               *)
THEOREM ConfirmIsTrue == ChannelSpec => []ConfirmedMeansStored
  <1>1. ChannelInv => ConfirmedMeansStored
    BY DEF ChannelInv
  <1> QED
    BY <1>1, ChannelSafety, PTL

(* Publish leaves no answer behind for the next call.                      *)
THEOREM NoStaleAnswer == ChannelSpec => []NoAnswerLeftOver
  <1>1. ChannelInv => NoAnswerLeftOver
    BY DEF ChannelInv
  <1> QED
    BY <1>1, ChannelSafety, PTL

-----------------------------------------------------------------------------
(* The sender stays with its destination: for any hosts, addresses, status *)
(* codes, attempts and bodies.                                             *)
(*                                                                         *)
(* That a host is only contacted after the redirect to it was checked, and *)
(* how many requests a call has made, depends on where the call is: a      *)
(* request is prepared only after fewer than three.                        *)

SenderInv ==
    /\ StaysWithDestination
    /\ via \in Nat
    /\ stage \in {"prepare", "connect"} => via < 3

(* A task nobody has delivered yet has contacted nobody. *)
LEMMA SenderInitially == SenderInit => SenderInv
  BY DEF SenderInit, SenderInv, StaysWithDestination

(* What is dialled is the first of addresses none of which is disallowed. *)
LEMMA DialStep ==
    ASSUME SenderInv, Dial
    PROVE  SenderInv'
  <1>1. PICK addresses \in Resolved :
          IF ValidateResolvedIPs(addresses)
          THEN /\ contacted' = contacted \cup {<<target.host, addresses[1]>>}
               /\ connected' = TRUE
               /\ UNCHANGED <<stage, sendResult>>
          ELSE /\ Finish("permanent", "destination_not_allowed", <<>>)
               /\ UNCHANGED <<contacted, connected>>
    BY DEF Dial
  <1>2. UNCHANGED <<target, via>> /\ stage = "connect"
    BY DEF Dial
  <1>3. CASE ValidateResolvedIPs(addresses)
    <2>1. addresses[1] \in Public
      BY <1>3 DEF ValidateResolvedIPs, Resolved
    <2>2. <<target.host, addresses[1]>>[1] = Registered
      BY DEF SenderInv, StaysWithDestination, Configured
    <2> QED
      BY <1>1, <1>2, <1>3, <2>1, <2>2 DEF SenderInv, StaysWithDestination, Configured
  <1>4. CASE ~ValidateResolvedIPs(addresses)
    BY <1>1, <1>2, <1>4 DEF SenderInv, StaysWithDestination, Configured, Finish
  <1> QED
    BY <1>3, <1>4

(* A redirect is followed to the configured host or not at all. *)
LEMMA RedirectStep ==
    ASSUME SenderInv, Redirect
    PROVE  SenderInv'
  <1>1. PICK scheme \in {"https", "http"}, host \in Host :
          IF CheckRedirect(scheme, host)
          THEN /\ stage' = "connect"
               /\ target' = [scheme |-> scheme, host |-> host]
               /\ connected' \in {FALSE, connected /\ host = target.host}
               /\ UNCHANGED sendResult
          ELSE /\ Finish("permanent", "redirect_not_allowed", <<>>)
               /\ UNCHANGED <<target, connected>>
    BY DEF Redirect
  <1>2. UNCHANGED <<via, contacted>>
    BY DEF Redirect
  <1>3. CASE CheckRedirect(scheme, host)
    BY <1>1, <1>2, <1>3 DEF SenderInv, StaysWithDestination, CheckRedirect, Configured
  <1>4. CASE ~CheckRedirect(scheme, host)
    BY <1>1, <1>2, <1>4 DEF SenderInv, StaysWithDestination, Finish
  <1> QED
    BY <1>3, <1>4

(* No step of a call, of storing its result or of the scheduler breaks it. *)
LEMMA SenderStep == SenderInv /\ [SenderNext]_senderVars => SenderInv'
  <1> SUFFICES ASSUME SenderInv, [SenderNext]_senderVars PROVE SenderInv'
    OBVIOUS
  <1> USE DEF SenderInv, StaysWithDestination
  <1>1. CASE Claim
    BY <1>1 DEF Claim
  <1>2. CASE Prepare
    BY <1>2 DEF Prepare, Finish, callVars
  <1>3. CASE Dial
    BY <1>3, DialStep
  <1>4. CASE SendRequest
    BY <1>4 DEF SendRequest
  <1>5. CASE TransportError
    BY <1>5 DEF TransportError, Finish, callVars
  <1>6. CASE Respond
    BY <1>6 DEF Respond, Finish, callVars
  <1>7. CASE Redirect
    BY <1>7, RedirectStep
  <1>8. CASE ApplyDeliveryResult
    BY <1>8 DEF ApplyDeliveryResult, callVars
  <1>9. CASE ScheduleDue
    BY <1>9 DEF ScheduleDue, callVars
  <1>10. CASE UNCHANGED senderVars
    BY <1>10 DEF senderVars, callVars
  <1> QED
    BY <1>1, <1>2, <1>3, <1>4, <1>5, <1>6, <1>7, <1>8, <1>9, <1>10 DEF SenderNext

(* Whatever the resolver answers and wherever a supplier redirects, Send   *)
(* contacts the registered host alone, at an address outside the           *)
(* disallowed networks, with at most two redirects.                        *)
THEOREM OnlyDestinationContacted == SenderSpec => []StaysWithDestination
  <1>1. SenderInv => StaysWithDestination
    BY DEF SenderInv
  <1> QED
    BY <1>1, SenderInitially, SenderStep, PTL DEF SenderSpec

-----------------------------------------------------------------------------
(* Induction over the positions of a text, with sets for what holds at     *)
(* them: ValidUTF8 and Mapped are recursive functions.                     *)

(* A set of numbers has a least one. *)
LEMMA LeastNumber ==
    ASSUME NEW T \in SUBSET Nat, T # {}
    PROVE  \E x \in T : \A y \in T : x <= y
  <1>1. PICK x \in T : \A y \in T : ~(<<y, x>> \in OpToRel(<, Nat))
    BY NatLessThanWellFounded, WFMin, Zenon
  <1>2. \A y \in T : ~(y < x)
    BY <1>1 DEF OpToRel
  <1> QED
    BY <1>2

(* Induction: a set that holds 0 and with a number the next holds all. *)
LEMMA CountUp ==
    ASSUME NEW S \in SUBSET Nat, 0 \in S, \A n \in S : n + 1 \in S
    PROVE  S = Nat
  <1> SUFFICES ASSUME Nat \ S # {} PROVE FALSE
    OBVIOUS
  <1>1. PICK x \in Nat \ S : \A y \in Nat \ S : x <= y
    BY LeastNumber
  <1>2. x - 1 \in S
    BY <1>1
  <1> QED
    BY <1>1, <1>2

(* What holds behind the last position, and at a position if it holds      *)
(* everywhere behind it, holds everywhere.                                 *)
LEMMA CountDown ==
    ASSUME NEW n \in Nat, NEW P \in SUBSET (1 .. n + 1), n + 1 \in P,
           \A i \in 1 .. n : i + 1 .. n + 1 \subseteq P => i \in P
    PROVE  P = 1 .. n + 1
  <1> DEFINE S == {k \in Nat : \A i \in 1 .. n + 1 : i >= n + 1 - k => i \in P}
  <1>1. 0 \in S
    OBVIOUS
  <1>2. ASSUME NEW k \in S PROVE k + 1 \in S
    <2> SUFFICES ASSUME NEW i \in 1 .. n + 1, i >= n + 1 - (k + 1) PROVE i \in P
      OBVIOUS
    <2>1. CASE i >= n + 1 - k
      BY <2>1
    <2>2. CASE ~(i >= n + 1 - k)
      <3>1. i \in 1 .. n /\ \A j \in i + 1 .. n + 1 : j \in 1 .. n + 1 /\ j >= n + 1 - k
        BY <2>2
      <3> QED
        BY <3>1
    <2> QED
      BY <2>1, <2>2
  <1>3. S = Nat
    <2> HIDE DEF S
    <2>1. S \in SUBSET Nat
      BY DEF S
    <2> QED
      BY <1>1, <1>2, <2>1, CountUp
  <1>4. \A i \in 1 .. n + 1 : i >= n + 1 - (n + 1) => i \in P
    BY <1>3
  <1>5. \A i \in 1 .. n + 1 : i \in P
    BY <1>4
  <1> QED
    BY <1>5

(* f is defined at each position by its value at one behind. *)
Recursion(f, n, last, behind, step) ==
    \A i \in 1 .. n + 1 : f[i] = IF i > n THEN last ELSE step[i][f[behind[i]]]

(* A definition that looks up what is behind it defines something.         *)
LEMMA RecursionExists ==
    ASSUME NEW n \in Nat, NEW V, NEW last \in V,
           NEW behind \in [1 .. n -> 2 .. n + 1], \A i \in 1 .. n : behind[i] > i,
           NEW step \in [1 .. n -> [V -> V]]
    PROVE  \E f \in [1 .. n + 1 -> V] : Recursion(f, n, last, behind, step)
  <1> DEFINE Right(f, k) ==
                \A i \in k .. n + 1 : f[i] = IF i > n THEN last ELSE step[i][f[behind[i]]]
             P == {k \in 1 .. n + 1 : \E f \in [k .. n + 1 -> V] : Right(f, k)}
  <1>1. n + 1 \in P
    <2> DEFINE f == [i \in n + 1 .. n + 1 |-> last]
    <2>1. f \in [n + 1 .. n + 1 -> V]
      OBVIOUS
    <2>2. ASSUME NEW i \in n + 1 .. n + 1
          PROVE  f[i] = IF i > n THEN last ELSE step[i][f[behind[i]]]
      <3>1. i > n /\ f[i] = last
        OBVIOUS
      <3> QED
        BY <3>1
    <2>3. Right(f, n + 1)
      BY <2>2
    <2> HIDE DEF f, Right
    <2> QED
      BY <2>1, <2>3
  <1>2. ASSUME NEW k \in 1 .. n, k + 1 .. n + 1 \subseteq P PROVE k \in P
    <2>1. k + 1 \in P
      <3> HIDE DEF P
      <3> QED
        BY <1>2
    <2>2. PICK f \in [k + 1 .. n + 1 -> V] : Right(f, k + 1)
      BY <2>1
    <2> DEFINE g == [i \in k .. n + 1 |-> IF i = k THEN step[k][f[behind[k]]] ELSE f[i]]
    <2>3. behind[k] \in k + 1 .. n + 1 /\ f[behind[k]] \in V /\ step[k] \in [V -> V]
      OBVIOUS
    <2>4. g \in [k .. n + 1 -> V]
      BY <2>3
    <2>5. ASSUME NEW i \in k .. n + 1
          PROVE  g[i] = IF i > n THEN last ELSE step[i][g[behind[i]]]
      <3>1. CASE i = k
        <4>1. g[k] = step[k][f[behind[k]]] /\ g[behind[k]] = f[behind[k]] /\ ~(k > n)
          BY <2>3
        <4> QED
          BY <3>1, <4>1
      <3>2. CASE i # k
        <4>1. i \in k + 1 .. n + 1 /\ g[i] = f[i]
          BY <3>2
        <4>2. CASE i > n
          BY <2>2, <4>1, <4>2
        <4>3. CASE ~(i > n)
          <5>1. behind[i] \in k + 1 .. n + 1 /\ g[behind[i]] = f[behind[i]]
            BY <4>1, <4>3
          <5>2. f[i] = step[i][f[behind[i]]]
            BY <2>2, <4>1, <4>3
          <5> QED
            BY <4>1, <4>3, <5>1, <5>2
        <4> QED
          BY <4>2, <4>3
      <3> QED
        BY <3>1, <3>2
    <2>6. Right(g, k)
      BY <2>5
    <2>7. k \in 1 .. n + 1
      OBVIOUS
    <2> HIDE DEF g, Right
    <2> QED
      BY <2>4, <2>6, <2>7
  <1>3. P = 1 .. n + 1
    <2> HIDE DEF P
    <2>1. P \in SUBSET (1 .. n + 1)
      BY DEF P
    <2> QED
      BY <1>1, <1>2, <2>1, CountDown
  <1>4. \E f \in [1 .. n + 1 -> V] : Right(f, 1)
    <2>1. 1 \in P
      <3> HIDE DEF P
      <3> QED
        BY <1>3
    <2> HIDE DEF Right
    <2> QED
      BY <2>1
  <1> QED
    BY <1>4 DEF Recursion

(* A character ends within the text. *)
LEMMA WidthFits ==
    ASSUME NEW s \in Seq(Byte), NEW i \in 1 .. Len(s)
    PROVE  /\ WidthAt(s, i) \in 0 .. 3 /\ i + WidthAt(s, i) <= Len(s) + 1
           /\ Behind(s, i) \in 2 .. Len(s) + 1 /\ Behind(s, i) > i
           /\ WidthAt(s, i) > 0 => Behind(s, i) = i + WidthAt(s, i)
  <1>1. WidthAt(s, i) \in 0 .. 3 /\ i + WidthAt(s, i) <= Len(s) + 1
    BY DEF WidthAt
  <1> QED
    BY <1>1 DEF Behind

(* ValidUTF8 looks at one character after the other. *)
LEMMA ValidUnfolds ==
    ASSUME NEW s \in Seq(Byte)
    PROVE  \E v \in [1 .. Len(s) + 1 -> BOOLEAN] :
              /\ ValidUTF8(s) = v[1]
              /\ v[Len(s) + 1]
              /\ \A i \in 1 .. Len(s) : v[i] <=> WidthAt(s, i) > 0 /\ v[Behind(s, i)]
  <1> DEFINE n == Len(s)
             behind == [i \in 1 .. n |-> Behind(s, i)]
             step == [i \in 1 .. n |-> [b \in BOOLEAN |-> WidthAt(s, i) > 0 /\ b]]
             V == BOOLEAN
             last == TRUE
             IsValid(v) == v = [i \in 1 .. n + 1 |->
                              i > n \/ (WidthAt(s, i) > 0 /\ v[Behind(s, i)])]
  <1>1. n \in Nat /\ behind \in [1 .. n -> 2 .. n + 1] /\ \A i \in 1 .. n : behind[i] > i
    BY WidthFits
  <1>2. step \in [1 .. n -> [V -> V]] /\ last \in V
    BY Zenon
  <1>3. PICK f \in [1 .. n + 1 -> V] : Recursion(f, n, last, behind, step)
    <2> HIDE DEF n, behind, step, V, last
    <2> QED
      BY <1>1, <1>2, RecursionExists
  <1>4. IsValid(f)
    <2>1. ASSUME NEW i \in 1 .. n + 1
          PROVE  f[i] = (i > n \/ (WidthAt(s, i) > 0 /\ f[Behind(s, i)]))
      <3>1. CASE i > n
        BY <1>3, <3>1 DEF Recursion
      <3>2. CASE ~(i > n)
        <4>1. i \in 1 .. n
          BY <1>1, <3>2
        <4>2. behind[i] = Behind(s, i) /\ f[Behind(s, i)] \in BOOLEAN
          BY <1>1, <4>1, WidthFits
        <4>3. step[i][f[Behind(s, i)]] = (WidthAt(s, i) > 0 /\ f[Behind(s, i)])
          BY <4>1, <4>2, Zenon
        <4>4. f[i] = step[i][f[Behind(s, i)]]
          BY <1>3, <3>2, <4>2, Zenon DEF Recursion
        <4> QED
          BY <3>2, <4>3, <4>4, Zenon
      <3> QED
        BY <3>1, <3>2
    <2> QED
      BY <2>1, Zenon
  <1>5. PICK v : IsValid(v) /\ ValidUTF8(s) = v[1]
    BY <1>4, Zenon DEF ValidUTF8
  <1>6. v \in [1 .. n + 1 -> BOOLEAN]
    BY <1>5, Zenon
  <1>7. v[n + 1]
    <2>1. n + 1 > n /\ n + 1 \in 1 .. n + 1
      BY <1>1
    <2> QED
      BY <1>5, <2>1, Zenon
  <1>8. ASSUME NEW i \in 1 .. n PROVE v[i] <=> WidthAt(s, i) > 0 /\ v[Behind(s, i)]
    <2>1. ~(i > n) /\ i \in 1 .. n + 1
      BY <1>1
    <2> QED
      BY <1>5, <2>1, Zenon
  <1> QED
    BY <1>5, <1>6, <1>7, <1>8, Zenon

-----------------------------------------------------------------------------
(* What sanitize makes of the bytes of a supplier's answer. *)

(* What a rune becomes: a printable character of one to three bytes. *)
Character == {Ascii, <<"lead2", "rest">>, Replacement}

(* It has one to three bytes, none of them a control character. *)
LEMMA CharacterBytes ==
    ASSUME NEW c \in Character
    PROVE  c \in Seq(Byte \ {"control"}) /\ Len(c) \in 1 .. 3
  <1>1. {"ascii", "lead2", "lead3", "rest"} \subseteq Byte \ {"control"}
    BY DEF Byte
  <1> DEFINE B == Byte \ {"control"}
  <1> HIDE DEF B
  <1>2. <<"ascii">> \in Seq(B) /\ <<"lead2", "rest">> \in Seq(B)
    BY <1>1 DEF B
  <1>3. <<"lead3", "rest", "rest">> \in Seq(B)
    BY <1>1 DEF B
  <1>4. Len(<<"ascii">>) = 1 /\ Len(<<"lead2", "rest">>) = 2
    OBVIOUS
  <1>5. Len(<<"lead3", "rest", "rest">>) = 3
    OBVIOUS
  <1>6. c = <<"ascii">> \/ c = <<"lead2", "rest">> \/ c = <<"lead3", "rest", "rest">>
    BY Zenon DEF Character, Ascii, Replacement
  <1>7. 1 \in 1 .. 3 /\ 2 \in 1 .. 3 /\ 3 \in 1 .. 3
    OBVIOUS
  <1> QED
    BY <1>2, <1>3, <1>4, <1>5, <1>6, <1>7, Zenon DEF B

(* A text with a character before it. *)
LEMMA CharacterBefore ==
    ASSUME NEW c \in Character, NEW t \in Seq(Byte)
    PROVE  /\ c \o t \in Seq(Byte) /\ Len(c \o t) = Len(c) + Len(t) /\ Len(c) \in 1 .. 3
           /\ \A i \in 1 .. Len(c) : (c \o t)[i] = c[i]
           /\ \A i \in 1 .. Len(t) : (c \o t)[i + Len(c)] = t[i]
  <1>1. c \in Seq(Byte \ {"control"}) /\ Len(c) \in 1 .. 3
    BY CharacterBytes
  <1>2. c \in Seq(Byte)
    BY <1>1
  <1>3. c \o t \in Seq(Byte) /\ Len(c \o t) = Len(c) + Len(t)
    BY <1>2
  <1>4. \A i \in 1 .. Len(c) : (c \o t)[i] = c[i]
    BY <1>2
  <1>5. ASSUME NEW i \in 1 .. Len(t) PROVE (c \o t)[i + Len(c)] = t[i]
    BY <1>1, <1>2
  <1> QED
    BY <1>1, <1>3, <1>4, <1>5

(* The character before a text is decoded first, *)
LEMMA DecodedFirst ==
    ASSUME NEW c \in Character, NEW t \in Seq(Byte)
    PROVE  WidthAt(c \o t, 1) = Len(c) /\ Behind(c \o t, 1) = 1 + Len(c)
  <1> DEFINE s == c \o t
  <1>1. Len(s) = Len(c) + Len(t) /\ Len(t) \in Nat /\ \A i \in 1 .. Len(c) : s[i] = c[i]
    BY CharacterBefore
  <1> HIDE DEF s
  <1>2. CASE c = Ascii
    <2>1. Len(c) = 1 /\ s[1] = "ascii"
      BY <1>1, <1>2 DEF Ascii
    <2> QED
      BY <2>1 DEF WidthAt, Behind, s
  <1>3. CASE c = <<"lead2", "rest">>
    <2>1. Len(c) = 2 /\ s[1] = "lead2" /\ s[2] = "rest"
      BY <1>1, <1>3
    <2>2. WidthAt(s, 1) = 2
      BY <1>1, <2>1 DEF WidthAt
    <2> QED
      BY <2>1, <2>2 DEF Behind, s
  <1>4. CASE c = Replacement
    <2>1. Len(c) = 3 /\ s[1] = "lead3" /\ s[2] = "rest" /\ s[3] = "rest"
      BY <1>1, <1>4 DEF Replacement
    <2>2. WidthAt(s, 1) = 3
      BY <1>1, <2>1 DEF WidthAt
    <2> QED
      BY <2>1, <2>2 DEF Behind, s
  <1> QED
    BY <1>2, <1>3, <1>4 DEF Character

(* and the text behind it as it is without. *)
LEMMA DecodedAlike ==
    ASSUME NEW c \in Character, NEW t \in Seq(Byte), NEW i \in 1 .. Len(t)
    PROVE  /\ WidthAt(c \o t, i + Len(c)) = WidthAt(t, i)
           /\ Behind(c \o t, i + Len(c)) = Behind(t, i) + Len(c)
  <1> DEFINE s == c \o t
             m == Len(c)
  <1>1. Len(s) = m + Len(t) /\ Len(t) \in Nat /\ m \in Nat
    BY CharacterBefore
  <1>2. \A j \in 1 .. Len(t) : s[j + m] = t[j]
    BY CharacterBefore
  <1> HIDE DEF s, m
  <1>3. s[i + m] = t[i]
    BY <1>2
  <1>4. i + 1 <= Len(t) => s[i + m + 1] = t[i + 1]
    <2> SUFFICES ASSUME i + 1 <= Len(t) PROVE s[i + m + 1] = t[i + 1]
      OBVIOUS
    <2>1. s[(i + 1) + m] = t[i + 1] /\ (i + 1) + m = i + m + 1
      BY <1>1, <1>2
    <2> QED
      BY <2>1
  <1>5. i + 2 <= Len(t) => s[i + m + 2] = t[i + 2]
    <2> SUFFICES ASSUME i + 2 <= Len(t) PROVE s[i + m + 2] = t[i + 2]
      OBVIOUS
    <2>1. s[(i + 2) + m] = t[i + 2] /\ (i + 2) + m = i + m + 2
      BY <1>1, <1>2
    <2> QED
      BY <2>1
  <1>6. /\ i + m + 1 <= Len(s) <=> i + 1 <= Len(t)
        /\ i + m + 2 <= Len(s) <=> i + 2 <= Len(t)
        /\ i + 2 <= Len(t) => i + 1 <= Len(t)
    BY <1>1
  <1>7. WidthAt(s, i + m) = WidthAt(t, i)
    BY <1>3, <1>4, <1>5, <1>6, Zenon DEF WidthAt
  <1>8. WidthAt(t, i) \in 0 .. 3
    BY WidthFits
  <1> QED
    BY <1>1, <1>7, <1>8 DEF Behind, s, m

(* A character before valid text makes valid text. *)
LEMMA CharacterKeepsValid ==
    ASSUME NEW c \in Character, NEW t \in Seq(Byte), ValidUTF8(t)
    PROVE  ValidUTF8(c \o t)
  <1> DEFINE s == c \o t
             m == Len(c)
             n == Len(t)
  <1>1. s \in Seq(Byte) /\ Len(s) = m + n /\ m \in 1 .. 3 /\ n \in Nat
    BY CharacterBefore
  <1>2. PICK u \in [1 .. n + 1 -> BOOLEAN] :
              /\ ValidUTF8(t) = u[1]
              /\ u[n + 1]
              /\ \A i \in 1 .. n : u[i] <=> WidthAt(t, i) > 0 /\ u[Behind(t, i)]
    BY ValidUnfolds
  <1>3. PICK v \in [1 .. Len(s) + 1 -> BOOLEAN] :
              /\ ValidUTF8(s) = v[1]
              /\ v[Len(s) + 1]
              /\ \A i \in 1 .. Len(s) : v[i] <=> WidthAt(s, i) > 0 /\ v[Behind(s, i)]
    <2> HIDE DEF s
    <2> QED
      BY <1>1, ValidUnfolds
  <1> DEFINE P == {i \in 1 .. n + 1 : u[i] => v[i + m]}
  <1>4. n + 1 \in P
    <2>1. n + 1 \in 1 .. n + 1 /\ (n + 1) + m = Len(s) + 1
      BY <1>1
    <2> QED
      BY <1>3, <2>1, Zenon
  <1>5. ASSUME NEW i \in 1 .. n, i + 1 .. n + 1 \subseteq P PROVE i \in P
    <2>1. i \in 1 .. n + 1 /\ i + m \in 1 .. Len(s)
      BY <1>1
    <2>2. Behind(t, i) \in i + 1 .. n + 1
      BY <1>1, WidthFits
    <2>3. WidthAt(s, i + m) = WidthAt(t, i) /\ Behind(s, i + m) = Behind(t, i) + m
      BY DecodedAlike
    <2>4. u[Behind(t, i)] => v[Behind(t, i) + m]
      BY <1>5, <2>2, Zenon
    <2>5. u[i] => WidthAt(t, i) > 0 /\ u[Behind(t, i)]
      BY <1>2, Zenon
    <2>6. WidthAt(s, i + m) > 0 /\ v[Behind(s, i + m)] => v[i + m]
      BY <1>3, <2>1, Zenon
    <2> QED
      BY <2>1, <2>3, <2>4, <2>5, <2>6, Zenon
  <1>6. P = 1 .. n + 1
    <2> HIDE DEF P, n
    <2>1. P \in SUBSET (1 .. n + 1)
      BY DEF P
    <2> QED
      BY <1>1, <1>4, <1>5, <2>1, CountDown
  <1>7. 1 \in P
    <2> HIDE DEF P
    <2> QED
      BY <1>1, <1>6
  <1>8. v[1 + m]
    BY <1>2, <1>7, Zenon
  <1>9. WidthAt(s, 1) > 0 /\ Behind(s, 1) = 1 + m /\ 1 \in 1 .. Len(s)
    <2>1. WidthAt(s, 1) = m /\ Behind(s, 1) = 1 + m
      BY DecodedFirst, Zenon
    <2> HIDE DEF s, m, n
    <2> QED
      BY <1>1, <2>1
  <1>10. v[1]
    BY <1>3, <1>8, <1>9, Zenon
  <1> QED
    BY <1>3, <1>10, Zenon

(* The empty text is valid. *)
LEMMA NothingIsValid == <<>> \in Seq(Byte) /\ ValidUTF8(<<>>)
  <1>1. <<>> \in Seq(Byte) /\ Len(<<>>) + 1 = 1
    OBVIOUS
  <1>2. PICK v \in [1 .. Len(<<>>) + 1 -> BOOLEAN] :
              ValidUTF8(<<>>) = v[1] /\ v[Len(<<>>) + 1]
    BY <1>1, ValidUnfolds, Zenon
  <1> QED
    BY <1>1, <1>2, Zenon

(* Bytes that are those of a character are that character. *)
LEMMA BytesOfCharacter ==
    ASSUME NEW s \in Seq(Byte), NEW i \in 1 .. Len(s), NEW c \in Character,
           i + Len(c) - 1 <= Len(s), \A j \in 1 .. Len(c) : s[i + j - 1] = c[j]
    PROVE  SubSeq(s, i, i + Len(c) - 1) = c
  <1> DEFINE k == i + Len(c) - 1
             t == SubSeq(s, i, k)
  <1>1. c \in Seq(Byte) /\ Len(c) \in 1 .. 3
    BY CharacterBytes
  <1>2. i \in Int /\ k \in Int /\ i <= k /\ k - i + 1 = Len(c)
    <2>1. i \in Int
      OBVIOUS
    <2>2. \A m \in 1 .. 3 : i + m - 1 \in Int /\ i <= i + m - 1 /\ (i + m - 1) - i + 1 = m
      OBVIOUS
    <2> QED
      BY <1>1, <2>1, <2>2, Zenon
  <1>3. ASSUME NEW j \in i .. k PROVE s[j] \in Byte
    <2>1. j \in 1 .. Len(s)
      BY <1>1
    <2> QED
      BY <2>1, ElementOfSeq
  <1>4. t \in Seq(Byte) /\ Len(t) = Len(c) /\ \A j \in 1 .. Len(c) : t[j] = s[i + j - 1]
    <2> HIDE DEF k
    <2> QED
      BY <1>2, <1>3, SubSeqProperties
  <1> HIDE DEF t
  <1>5. t = c
    BY <1>1, <1>4, SeqEqual
  <1> QED
    BY <1>5 DEF t

(* Every rune becomes a printable character. *)
LEMMA RuneBecomesCharacter ==
    ASSUME NEW s \in Seq(Byte), NEW i \in 1 .. Len(s)
    PROVE  MapRune(s, i) \in Character
  <1>1. s[i] \in Byte
    OBVIOUS
  <1>2. CASE WidthAt(s, i) = 0
    BY <1>2, Zenon DEF MapRune, Character
  <1>3. CASE s[i] = "control"
    <2>1. WidthAt(s, i) = 1
      BY <1>3 DEF WidthAt
    <2> QED
      BY <1>3, <2>1 DEF MapRune, Character
  <1>4. CASE WidthAt(s, i) # 0 /\ s[i] # "control"
    <2>1. MapRune(s, i) = SubSeq(s, i, i + WidthAt(s, i) - 1)
      BY <1>4 DEF MapRune
    <2>2. CASE s[i] = "ascii"
      <3>1. WidthAt(s, i) = 1
        BY <2>2 DEF WidthAt
      <3> DEFINE c == Ascii
      <3>2. c \in Character /\ Len(c) = 1 /\ \A j \in 1 .. Len(c) : s[i + j - 1] = c[j]
        BY <2>2 DEF Character, Ascii
      <3> HIDE DEF c
      <3>3. i + Len(c) - 1 <= Len(s) /\ WidthAt(s, i) = Len(c)
        BY <3>1, <3>2
      <3>4. SubSeq(s, i, i + Len(c) - 1) = c
        BY <3>2, <3>3, BytesOfCharacter
      <3> QED
        BY <2>1, <3>2, <3>3, <3>4, Zenon
    <2>3. CASE s[i] = "lead2"
      <3>1. WidthAt(s, i) = 2 /\ i + 1 <= Len(s) /\ s[i + 1] = "rest"
        BY <1>4, <2>3 DEF WidthAt
      <3> DEFINE c == <<"lead2", "rest">>
      <3>2. c \in Character /\ Len(c) = 2 /\ \A j \in 1 .. Len(c) : s[i + j - 1] = c[j]
        BY <2>3, <3>1 DEF Character
      <3> HIDE DEF c
      <3>3. i + Len(c) - 1 <= Len(s) /\ WidthAt(s, i) = Len(c)
        BY <3>1, <3>2
      <3>4. SubSeq(s, i, i + Len(c) - 1) = c
        BY <3>2, <3>3, BytesOfCharacter
      <3> QED
        BY <2>1, <3>2, <3>3, <3>4, Zenon
    <2>4. CASE s[i] = "lead3"
      <3>1. WidthAt(s, i) = 3 /\ i + 2 <= Len(s) /\ s[i + 1] = "rest" /\ s[i + 2] = "rest"
        BY <1>4, <2>4 DEF WidthAt
      <3> DEFINE c == Replacement
      <3>2. c \in Character /\ Len(c) = 3 /\ \A j \in 1 .. Len(c) : s[i + j - 1] = c[j]
        BY <2>4, <3>1 DEF Character, Replacement
      <3> HIDE DEF c
      <3>3. i + Len(c) - 1 <= Len(s) /\ WidthAt(s, i) = Len(c)
        BY <3>1, <3>2
      <3>4. SubSeq(s, i, i + Len(c) - 1) = c
        BY <3>2, <3>3, BytesOfCharacter
      <3> QED
        BY <2>1, <3>2, <3>3, <3>4, Zenon
    <2>5. CASE s[i] = "rest"
      BY <1>4, <2>5 DEF WidthAt
    <2> QED
      BY <1>1, <1>4, <2>2, <2>3, <2>4, <2>5 DEF Byte
  <1> QED
    BY <1>2, <1>3, <1>4

Printable == {t \in Seq(Byte \ {"control"}) : ValidUTF8(t)}

(* A character before printable text makes printable text. *)
LEMMA CharacterKeepsPrintable ==
    ASSUME NEW c \in Character, NEW t \in Printable
    PROVE  c \o t \in Printable
  <1>1. t \in Seq(Byte \ {"control"}) /\ ValidUTF8(t) /\ c \in Seq(Byte \ {"control"})
    BY CharacterBytes, Zenon DEF Printable
  <1>2. t \in Seq(Byte)
    BY <1>1
  <1>3. ValidUTF8(c \o t)
    BY <1>1, <1>2, CharacterKeepsValid, Zenon
  <1>4. c \o t \in Seq(Byte \ {"control"})
    BY <1>1
  <1> QED
    BY <1>3, <1>4, Zenon DEF Printable

(* Whatever the bytes, what strings.Map returns is printable. *)
LEMMA MappedIsPrintable ==
    ASSUME NEW s \in Seq(Byte)
    PROVE  Mapped(s) \in Printable
  <1> DEFINE n == Len(s)
             behind == [i \in 1 .. n |-> Behind(s, i)]
             step == [i \in 1 .. n |-> [t \in Printable |-> MapRune(s, i) \o t]]
             last == <<>>
             IsMapped(f) == f = [i \in 1 .. n + 1 |->
                               IF i > n THEN <<>> ELSE MapRune(s, i) \o f[Behind(s, i)]]
  <1>1. n \in Nat /\ behind \in [1 .. n -> 2 .. n + 1] /\ \A i \in 1 .. n : behind[i] > i
    BY WidthFits
  <1>2. last \in Printable
    <2>1. last \in Seq(Byte \ {"control"})
      OBVIOUS
    <2> QED
      BY <2>1, NothingIsValid, Zenon DEF Printable
  <1>3. \A i \in 1 .. n : \A t \in Printable : MapRune(s, i) \o t \in Printable
    BY RuneBecomesCharacter, CharacterKeepsPrintable, Zenon
  <1>4. step \in [1 .. n -> [Printable -> Printable]]
    BY <1>3, Zenon
  <1>5. PICK g \in [1 .. n + 1 -> Printable] : Recursion(g, n, last, behind, step)
    <2> HIDE DEF n, behind, step, last
    <2> QED
      BY <1>1, <1>2, <1>4, RecursionExists
  <1>6. IsMapped(g)
    <2>1. ASSUME NEW i \in 1 .. n + 1
          PROVE  g[i] = IF i > n THEN <<>> ELSE MapRune(s, i) \o g[Behind(s, i)]
      <3>1. CASE i > n
        BY <1>5, <3>1, Zenon DEF Recursion
      <3>2. CASE ~(i > n)
        <4>1. i \in 1 .. n
          BY <1>1, <3>2
        <4>2. behind[i] = Behind(s, i) /\ g[Behind(s, i)] \in Printable
          BY <1>1, <4>1, WidthFits
        <4>3. step[i][g[Behind(s, i)]] = MapRune(s, i) \o g[Behind(s, i)]
          BY <4>1, <4>2, Zenon
        <4>4. g[i] = step[i][g[Behind(s, i)]]
          BY <1>5, <3>2, <4>2, Zenon DEF Recursion
        <4> QED
          BY <3>2, <4>3, <4>4, Zenon
      <3> QED
        BY <3>1, <3>2, Zenon
    <2> QED
      BY <2>1, Zenon
  <1>7. PICK f : IsMapped(f) /\ Mapped(s) = f[1]
    BY <1>6, Zenon DEF Mapped
  <1> DEFINE P == {i \in 1 .. n + 1 : f[i] \in Printable}
  <1>8. n + 1 \in P
    <2>1. n + 1 > n /\ n + 1 \in 1 .. n + 1
      BY <1>1
    <2> QED
      BY <1>2, <1>7, <2>1, Zenon
  <1>9. ASSUME NEW i \in 1 .. n, i + 1 .. n + 1 \subseteq P PROVE i \in P
    <2>1. i \in 1 .. n + 1 /\ ~(i > n)
      BY <1>1
    <2>2. Behind(s, i) \in i + 1 .. n + 1
      BY <1>1, WidthFits
    <2>3. f[Behind(s, i)] \in Printable
      BY <1>9, <2>2, Zenon
    <2>4. f[i] = MapRune(s, i) \o f[Behind(s, i)]
      BY <1>7, <2>1, Zenon
    <2> QED
      BY <1>3, <2>1, <2>3, <2>4, Zenon
  <1>10. P = 1 .. n + 1
    <2> HIDE DEF P, n
    <2>1. P \in SUBSET (1 .. n + 1)
      BY DEF P
    <2> QED
      BY <1>1, <1>8, <1>9, <2>1, CountDown
  <1>11. 1 \in P
    <2> HIDE DEF P
    <2> QED
      BY <1>1, <1>10
  <1> QED
    BY <1>7, <1>11, Zenon

(* A text that is stored or refused: bounded, without control characters,  *)
(* and valid unless it fills the limit.                                    *)
Clean(t) ==
    /\ t \in Seq(Byte \ {"control"})
    /\ Len(t) <= Limit
    /\ Len(t) < Limit => ValidUTF8(t)

(* What is cut off a text leaves a text. *)
LEMMA CutText ==
    ASSUME NEW B, NEW t \in Seq(B)
    PROVE  Cut(t) \in Seq(B) /\ Len(Cut(t)) <= Limit /\ (Len(Cut(t)) < Limit => Cut(t) = t)
  <1>1. Limit \in Nat /\ Len(t) \in Nat
    BY LimitAssumption
  <1>2. CASE Len(t) > Limit
    <2>1. Cut(t) = SubSeq(t, 1, Limit)
      BY <1>2 DEF Cut
    <2>2. \A i \in 1 .. Limit : t[i] \in B
      BY <1>1, <1>2
    <2>3. SubSeq(t, 1, Limit) \in Seq(B) /\ Len(SubSeq(t, 1, Limit)) = Limit
      BY <1>1, <2>2, SubSeqProperties, LimitAssumption
    <2> QED
      BY <1>1, <2>1, <2>3
  <1>3. CASE ~(Len(t) > Limit)
    BY <1>1, <1>3 DEF Cut
  <1> QED
    BY <1>2, <1>3

(* Whatever the bytes, what sanitize returns is clean. *)
LEMMA SanitizeCleans ==
    ASSUME NEW s \in Seq(Byte)
    PROVE  Clean(Sanitize(s))
  <1>1. Mapped(s) \in Seq(Byte \ {"control"}) /\ ValidUTF8(Mapped(s))
    BY MappedIsPrintable, Zenon DEF Printable
  <1> QED
    BY <1>1, CutText, Zenon DEF Clean, Sanitize

-----------------------------------------------------------------------------
(* HTTPSender: the diagnostic text. *)

(* Both the text on its way to the row and the text of the row come from   *)
(* sanitize, or are empty.                                                 *)
TextInv ==
    /\ message \in Seq(Byte \ {"control"})
    /\ Len(message) <= Limit
    /\ Clean(sendResult.message)

(* A result without a text can be stored. *)
LEMMA NoTextIsClean == Clean(<<>>)
  <1>1. <<>> \in Seq(Byte \ {"control"}) /\ Len(<<>>) = 0 /\ 0 <= Limit
    BY LimitAssumption
  <1> QED
    BY <1>1, NothingIsValid, Zenon DEF Clean

(* The text of a new result becomes that of the call. *)
LEMMA FinishText ==
    ASSUME TextInv, NEW outcome, NEW code, NEW text, Clean(text),
           Finish(outcome, code, text), UNCHANGED message
    PROVE  TextInv'
  <1>1. sendResult'.message = text
    BY DEF Finish, Result
  <1>2. Clean(sendResult'.message)
    BY <1>1
  <1> QED
    BY <1>2, Zenon DEF TextInv, Clean

(* A task nobody has delivered yet has no text. *)
LEMMA TextInitially == SenderInit => TextInv
  <1> SUFFICES ASSUME SenderInit PROVE TextInv
    OBVIOUS
  <1>1. message = <<>> /\ sendResult.message = <<>>
    BY DEF SenderInit, NoResult, Result
  <1> QED
    BY <1>1, NoTextIsClean, Zenon DEF TextInv, Clean

(* No step of a call, of storing its result or of the scheduler breaks it. *)
LEMMA TextStep == TextInv /\ [SenderNext]_senderVars => TextInv'
  <1> SUFFICES ASSUME TextInv, [SenderNext]_senderVars PROVE TextInv'
    OBVIOUS
  <1>1. ASSUME UNCHANGED <<message, sendResult>> PROVE TextInv'
    BY <1>1, Zenon DEF TextInv, Clean
  <1>2. CASE Claim
    BY <1>1, <1>2 DEF Claim
  <1>3. CASE Prepare
    BY <1>1, <1>3, FinishText, NoTextIsClean DEF Prepare, rowVars
  <1>4. CASE Dial
    BY <1>1, <1>4, FinishText, NoTextIsClean DEF Dial, rowVars
  <1>5. CASE SendRequest
    BY <1>1, <1>5 DEF SendRequest, rowVars
  <1>6. CASE TransportError
    <2>1. PICK text \in Body : Finish("retryable", "transport_error", Sanitize(text))
      BY <1>6 DEF TransportError
    <2>2. Clean(Sanitize(text))
      BY BodyAssumption, SanitizeCleans
    <2> QED
      BY <1>6, <2>1, <2>2, FinishText DEF TransportError, rowVars
  <1>7. CASE Respond
    <2>1. PICK code \in StatusCodes, body \in Body :
            Finish(ClassifyResult(code), ErrorCode(code), Sanitize(Cut(body)))
      BY <1>7 DEF Respond
    <2>2. Clean(Sanitize(Cut(body)))
      <3>1. body \in Seq(Byte)
        BY BodyAssumption
      <3>2. Cut(body) \in Seq(Byte)
        BY <3>1, CutText
      <3> QED
        BY <3>2, SanitizeCleans
    <2>3. UNCHANGED message
      BY <1>7 DEF Respond, rowVars
    <2> QED
      BY <2>1, <2>2, <2>3, FinishText
  <1>8. CASE Redirect
    BY <1>1, <1>8, FinishText, NoTextIsClean DEF Redirect, rowVars
  <1>9. CASE ApplyDeliveryResult
    <2>1. sendResult'.message = <<>> /\ message' \in {message, sendResult.message}
      BY <1>9 DEF ApplyDeliveryResult, NoResult, Result
    <2>2. Clean(sendResult'.message)
      BY <2>1, NoTextIsClean
    <2>3. message' \in Seq(Byte \ {"control"}) /\ Len(message') <= Limit
      BY <2>1, Zenon DEF TextInv, Clean
    <2> QED
      BY <2>2, <2>3, Zenon DEF TextInv, Clean
  <1>10. CASE ScheduleDue
    BY <1>1, <1>10 DEF ScheduleDue
  <1>11. CASE UNCHANGED senderVars
    BY <1>1, <1>11 DEF senderVars, rowVars
  <1> QED
    BY <1>2, <1>3, <1>4, <1>5, <1>6, <1>7, <1>8, <1>9, <1>10, <1>11 DEF SenderNext

(* Whatever bytes a supplier answers with, last_error_message is bounded   *)
(* and without control characters, and a result can be stored unless its   *)
(* text fills the limit: only there can the second cut of sanitize have    *)
(* split a character.                                                      *)
THEOREM MessagesAreClean == SenderSpec => []MessageIsClean
  <1>1. TextInv => MessageIsClean
    <2> SUFFICES ASSUME TextInv PROVE MessageIsClean
      OBVIOUS
    <2>1. \A i \in DOMAIN message : message[i] # "control"
      BY DEF TextInv
    <2> QED
      BY <2>1, Zenon DEF TextInv, MessageIsClean, Clean
  <1> QED
    BY <1>1, TextInitially, TextStep, PTL DEF SenderSpec

-----------------------------------------------------------------------------
(* HTTPSender: an accepted task is lost to the second cut alone. *)

(* No answer's text was spoilt: what is left of it can be stored. *)
NoTextSpoilt == \A body \in Body : ValidUTF8(Sanitize(Cut(body)))

(* A text that does not fill the limit never is. *)
LEMMA ShortTextsUnspoilt ==
    (\A body \in Body : Len(Sanitize(Cut(body))) < Limit) => NoTextSpoilt
  <1> SUFFICES ASSUME NEW body \in Body, Len(Sanitize(Cut(body))) < Limit
               PROVE  ValidUTF8(Sanitize(Cut(body)))
    BY DEF NoTextSpoilt
  <1>1. Cut(body) \in Seq(Byte)
    BY CutText, BodyAssumption
  <1> QED
    BY <1>1, SanitizeCleans, Zenon DEF Clean

(* After a 2xx the row is delivered, or is about to be: the call is over   *)
(* and its result can be stored.                                           *)
AcceptedInv ==
    /\ stage # "idle" => status = "delivering"
    /\ accepted =>
          \/ stage = "idle" /\ status = "delivered"
          \/ /\ stage = "apply"
             /\ sendResult.outcome = "delivered"
             /\ ValidUTF8(sendResult.message)

(* A call that is not over was not accepted, and a row that may still be   *)
(* claimed or scheduled was not either.                                    *)
LEMMA NotYetAccepted ==
    ASSUME AcceptedInv,
           \/ stage \in {"prepare", "connect", "sent"}
           \/ stage = "idle" /\ status \in {"pending", "delivering", "retry_wait"}
    PROVE  ~accepted
  BY DEF AcceptedInv

(* No step loses what was accepted, if no text is spoilt. *)
LEMMA AcceptedStep ==
    ASSUME NoTextSpoilt, AcceptedInv, [SenderNext]_senderVars
    PROVE  AcceptedInv'
  <1>1. CASE Claim
    BY <1>1, NotYetAccepted DEF Claim, AcceptedInv
  <1>2. CASE Prepare \/ Dial \/ SendRequest \/ TransportError \/ Redirect
    <2>1. stage \in {"prepare", "connect", "sent"} /\ accepted' = accepted /\ status' = status
      BY <1>2 DEF Prepare, Dial, SendRequest, TransportError, Redirect, rowVars
    <2> QED
      BY <2>1, NotYetAccepted DEF AcceptedInv
  <1>3. CASE Respond
    <2>1. PICK code \in StatusCodes, body \in Body :
            /\ Finish(ClassifyResult(code), ErrorCode(code), Sanitize(Cut(body)))
            /\ accepted' = (accepted \/ ClassifyResult(code) = "delivered")
      BY <1>3 DEF Respond
    <2>2. stage = "sent" /\ ~accepted /\ status' = status
      BY <1>3, NotYetAccepted DEF Respond, rowVars
    <2>3. accepted' => ClassifyResult(code) = "delivered"
      BY <2>1, <2>2, Zenon
    <2>4. /\ stage' = "apply" /\ sendResult'.outcome = ClassifyResult(code)
          /\ sendResult'.message = Sanitize(Cut(body))
      BY <2>1 DEF Finish, Result
    <2>5. ValidUTF8(sendResult'.message)
      BY <2>4 DEF NoTextSpoilt
    <2>6. status' = "delivering"
      BY <2>2 DEF AcceptedInv
    <2> QED
      BY <2>3, <2>4, <2>5, <2>6, Zenon DEF AcceptedInv
  <1>4. CASE ApplyDeliveryResult
    <2>1. stage = "apply" /\ stage' = "idle" /\ accepted' = accepted
      BY <1>4 DEF ApplyDeliveryResult
    <2>2. ASSUME accepted PROVE status' = "delivered"
      <3>1. sendResult.outcome = "delivered" /\ ValidUTF8(sendResult.message)
        BY <2>1, <2>2 DEF AcceptedInv
      <3>2. status' = StatusAfter("delivered")
        BY <1>4, <3>1 DEF ApplyDeliveryResult
      <3> QED
        BY <3>2 DEF StatusAfter
    <2> QED
      BY <2>1, <2>2 DEF AcceptedInv
  <1>5. CASE ScheduleDue
    <2>1. stage = "idle" /\ stage' = stage /\ accepted' = accepted /\ ~accepted
      BY <1>5, NotYetAccepted DEF ScheduleDue
    <2> QED
      BY <2>1 DEF AcceptedInv
  <1>6. CASE UNCHANGED senderVars
    BY <1>6 DEF senderVars, rowVars, AcceptedInv
  <1> QED
    BY <1>1, <1>2, <1>3, <1>4, <1>5, <1>6 DEF SenderNext

(* A task whose delivery was answered 2xx does not end dead, unless the    *)
(* cut at the limit has spoilt the text of that answer: nothing else in    *)
(* Send, ApplyDeliveryResult or the scheduler loses an accepted delivery.  *)
THEOREM OnlySpoiltTextsLoseDeliveries ==
    ASSUME NoTextSpoilt
    PROVE  SenderSpec => []AcceptedIsNotDead
  <1>1. SenderInit => AcceptedInv
    BY DEF SenderInit, AcceptedInv
  <1>2. AcceptedInv /\ [SenderNext]_senderVars => AcceptedInv'
    BY AcceptedStep
  <1>3. AcceptedInv => AcceptedIsNotDead
    BY DEF AcceptedInv, AcceptedIsNotDead
  <1> QED
    BY <1>1, <1>2, <1>3, PTL DEF SenderSpec
=============================================================================

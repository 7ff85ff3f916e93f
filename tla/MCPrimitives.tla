---------------------------- MODULE MCPrimitives ----------------------------
(* The limiter, the confirm channel of the publisher and the supervisor of *)
(* roles for TLC. They share no state, so that the steps of one need not   *)
(* be interleaved with those of another: one of them runs while the other  *)
(* two have not started.                                                   *)
EXTENDS Limiter, PublisherChannel, AppRun

PrimitivesInit == LimiterInit /\ ChannelInit /\ AppInit

PrimitivesNext ==
    \/ LimiterNext /\ ChannelInit /\ AppInit /\ UNCHANGED <<channelVars, appVars>>
    \/ ChannelNext /\ LimiterInit /\ AppInit /\ UNCHANGED <<limiterVars, appVars>>
    \/ AppNext /\ LimiterInit /\ ChannelInit /\ UNCHANGED <<limiterVars, channelVars>>

PrimitivesSpec ==
    /\ PrimitivesInit /\ [][PrimitivesNext]_<<limiterVars, channelVars, appVars>>
    /\ LimiterFairness
    /\ AppFairness
=============================================================================

------------------------------- MODULE MCBots -------------------------------
(***************************************************************************)
(* The bots and the offices behind them for TLC: the purchase screens, the *)
(* support desk, the campaigns, the channel's posts, the rollups and the   *)
(* repairs.  A behaviour is about one of them, the others rest in one      *)
(* initial state.                                                          *)
(*                                                                         *)
(* One about purchases keeps to the products of one tariff or to the other *)
(* two.  One about rollups is about the daily rows with runs that overlap  *)
(* and two facts, about a third fact and runs that do not overlap - the    *)
(* day the window begins in takes three - or about the hourly rows; the    *)
(* operator's run overlaps no other, the last tick is for runs that do not *)
(* overlap.  Of the repairs, a user with two devices has fewer faults and  *)
(* repairs than one with one.                                              *)
(***************************************************************************)
EXTENDS Checkout, SupportDesk, Broadcasts, ChannelPosts, AnalyticsRollups, AccessRepair

CONSTANTS one, two,          \* handlers of a bot; administrators who repair
          hello, again,      \* messages of a user; alarms
          desk1,             \* the composer of campaigns
          ann, bob,          \* their audience
          f1, f2, f3, s1     \* facts of the ledger; a spawned run

VARIABLE part

MCMethods == "sbp" :> "platega_sbp" @@ "sbp_manual" :> "sbp_manual" @@ "crypto" :> "platega_crypto"
MCPrice == "renew" :> 3 @@ "gift" :> 1 @@ "topup" :> 2 @@ "slot" :> 1
MCForms == {[kind |-> "user", audience |-> {ann, bob}, later |-> FALSE],
            [kind |-> "user", audience |-> {}, later |-> TRUE],
            [kind |-> "test", audience |-> {bob}, later |-> TRUE]}
MCTables == <<"stages", "revenue">>
MCHome == 1 :> "dk" @@ 2 :> "de"
MCSymmetry == Permutations({one, two}) \union Permutations({hello, again})

bots == <<checkoutVars, supportVars, broadcastVars, channelVars>>
offices == <<rollupVars, repairVars>>
Purchases == {"month", "other"}
Rollups == {"days", "window", "hours"}

Line == IF part = "month" THEN {"renew", "gift"} ELSE {"topup", "slot"}
InLine == \A t \in Taps : tap'[t].pc # "idle" /\ tap[t].pc = "idle" => tap'[t].product \in Line

InRollup ==
    /\ part \in {"days", "window"} => raised' = raised
    /\ part = "days" => at'[f3] = 0
    /\ part # "window" => now' < LastTick
    /\ part = "window" => /\ Cardinality(Active') <= 1 /\ spent'.deaths = 0
                          /\ at' # at => Active = {}
    /\ part = "hours" => at' = at /\ run'[Operator].step = "idle"
    /\ run'[Operator].step # "idle" => Cardinality(Active') = 1

InRepair ==
    budget'.repairs + budget'.faults + budget'.deaths <= IF Cardinality(owned) = 2 THEN 3 ELSE 4

Init ==
    /\ CheckoutInit /\ SupportInit /\ BroadcastInit /\ ChannelInit
    /\ RollupInit /\ RepairInit
    /\ part \in Purchases \union Rollups \union {"support", "broadcasts", "channel", "repairs"}
    /\ part # "repairs" => owned = {} /\ ~access /\ ~bound /\ api = "clients"
Next ==
    /\ \/ /\ part \in Purchases /\ CheckoutNext /\ InLine
          /\ UNCHANGED <<supportVars, broadcastVars, channelVars, offices>>
       \/ /\ part = "support" /\ SupportNext
          /\ UNCHANGED <<checkoutVars, broadcastVars, channelVars, offices>>
       \/ /\ part = "broadcasts" /\ BroadcastNext
          /\ UNCHANGED <<checkoutVars, supportVars, channelVars, offices>>
       \/ /\ part = "channel" /\ ChannelNext
          /\ UNCHANGED <<checkoutVars, supportVars, broadcastVars, offices>>
       \/ /\ part \in Rollups /\ RollupNext /\ InRollup
          /\ UNCHANGED <<bots, repairVars>>
       \/ /\ part = "repairs" /\ RepairNext /\ InRepair
          /\ UNCHANGED <<bots, rollupVars>>
    /\ UNCHANGED part
Spec == Init /\ [][Next]_<<part, bots, offices>>
=============================================================================

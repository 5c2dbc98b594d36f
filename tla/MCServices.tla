----------------------------- MODULE MCServices -----------------------------
(***************************************************************************)
(* Five smaller components for TLC.  A behaviour is about one of them, the *)
(* others rest in their initial states.                                    *)
(***************************************************************************)
EXTENDS ReferralRewards, PromoCodes, NodeWatch, UserDeletion, XrayNode, TLC

CONSTANTS ann, bob, first, second, third,   \* users, payments
          days, sale, gift,                 \* promo codes
          one, two, page,                   \* handlers
          phone, tablet, home, office \* devices and their addresses

VARIABLE part

MCPayer == first :> ann @@ second :> bob @@ third :> bob
MCRoute == first :> "bot" @@ second :> "platega" @@ third :> "bot"
MCLegacy == ann :> 1 @@ bob :> 0
MCUses == days :> 2 @@ sale :> 1 @@ gift :> 1
MCThreshold == "down" :> 2 @@ "overloaded" :> 1 @@ "degraded" :> 2
MCWhitelist == {<<phone, office>>}
MCSymmetry == Permutations({one, two})

rest == <<rewardVars, promoVars, watchVars, deletionVars, nodeVars>>

Init ==
    /\ RewardInit /\ PromoInit /\ WatchInit /\ DeletionInit /\ NodeInit
    /\ part \in {"rewards", "promo", "watch", "deletion", "node"}
    /\ part = "watch" \/ (night = FALSE /\ health[1] = "ok")
Next ==
    /\ \/ /\ part = "rewards" /\ RewardNext
          /\ UNCHANGED <<promoVars, watchVars, deletionVars, nodeVars>>
       \/ /\ part = "promo" /\ PromoNext
          /\ UNCHANGED <<rewardVars, watchVars, deletionVars, nodeVars>>
       \/ /\ part = "watch" /\ WatchNext
          /\ UNCHANGED <<rewardVars, promoVars, deletionVars, nodeVars>>
       \/ /\ part = "deletion" /\ DeletionNext
          /\ UNCHANGED <<rewardVars, promoVars, watchVars, nodeVars>>
       \/ /\ part = "node" /\ NodeNext
          /\ UNCHANGED <<rewardVars, promoVars, watchVars, deletionVars>>
    /\ UNCHANGED part
Spec == Init /\ [][Next]_<<part, rest>>
=============================================================================

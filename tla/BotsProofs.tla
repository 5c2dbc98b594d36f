----------------------------- MODULE BotsProofs -----------------------------
(***************************************************************************)
(* Theorems about the channel's posts, the support desk and the broadcast  *)
(* campaigns, for every set of items, handlers, administrators, messages   *)
(* and subscribers and every number of faults.                             *)
(*                                                                         *)
(* In each the invariant says what a handler carries between its           *)
(* transactions: the item its status marks as its own, the judgement made  *)
(* of the ticket it has read, the deliveries it has still to send.         *)
(***************************************************************************)
EXTENDS ChannelPosts, SupportDesk, Broadcasts, FiniteSetTheorems, WellFoundedInduction, TLAPS

(* A set of naturals has a least element. *)
LEMMA LeastExists ==
    ASSUME NEW S, S \subseteq Nat, S # {}
    PROVE  \E x \in S : \A y \in S : x <= y
<1>1. \E x \in S : \A y \in S : ~(<<y, x>> \in OpToRel(<, Nat))
  BY NatLessThanWellFounded, WFMin
<1>2. PICK x \in S : \A y \in S : ~(y < x)
  BY <1>1 DEF OpToRel
<1>3. \A y \in S : x <= y
  BY <1>2
<1> QED BY <1>3

LEMMA MinIsLeast == ASSUME NEW S, S \subseteq Nat, S # {} PROVE Min(S) \in S
  BY LeastExists DEF Min

-----------------------------------------------------------------------------
(* The channel's posts.  A runner that asks the model or talks to Telegram  *)
(* has its item by the item's status, and no other has.                     *)
AsksFor(r, i) == runner[r].pc = "ask" /\ runner[r].item = i
Posts(r, i) == runner[r].pc \in {"send", "posted", "refused"} /\ runner[r].item = i
Ways == {"button", "retry", "due"}
Statuses == {"none", "queued", "generating", "draft", "approved", "publishing",
             "published", "rejected", "failed"}

Taken(t) ==
    t = [pc |-> t.pc, item |-> t.item, rest |-> t.rest, how |-> t.how, body |-> t.body]

ChannelTypeOK ==
    /\ item \in [Items -> [status : Statuses, body : Nat]]
    /\ runner = [r \in Runners |-> runner[r]]
    /\ \A r \in Runners : runner[r] # Off => runner[r].pc # "idle" /\ runner[r].how \in Ways
    /\ \A r \in Runners, i \in Items : Posts(r, i) => runner[r].body \in Nat
    /\ \A r \in Runners : runner[r].pc \in {"send", "posted", "refused"} => Taken(runner[r])
    /\ posts \in [Items -> Seq(Nat \X Ways)]
    /\ unanswered \in [Items -> Nat] /\ texts \in Nat

HeldByOne ==
    \A r \in Runners, i \in Items :
        /\ AsksFor(r, i) => /\ item[i].status = "generating"
                            /\ \A s \in Runners : AsksFor(s, i) => r = s
        /\ Posts(r, i) => /\ item[i].status = "publishing"
                          /\ \A s \in Runners : Posts(s, i) => r = s

(* What is counted ahead of a post still to be made. *)
Counted ==
    \A i \in Items :
        /\ Len(posts[i]) <= 1 + unanswered[i]
        /\ item[i].status \notin {"publishing", "published"} => Len(posts[i]) <= unanswered[i]
        /\ \A r \in Runners :
              Posts(r, i) /\ runner[r].pc # "posted" => Len(posts[i]) <= unanswered[i]

(* The text a runner carries and the way it came by it. *)
Carried ==
    \A i \in Items :
        /\ item[i].status = "approved" => <<i, item[i].body>> \in approved
        /\ \A r \in Runners : Posts(r, i) => <<i, runner[r].body>> \in approved \/ runner[r].how = "retry"

ChannelInv == ChannelTypeOK /\ HeldByOne /\ Counted /\ Carried /\ PostedAsApproved

LEMMA ChannelInvInit == ChannelInit => ChannelInv
<1> SUFFICES ASSUME ChannelInit PROVE ChannelInv
  OBVIOUS
<1> USE DEF ChannelInit, Off
<1>1. ChannelTypeOK
  BY DEF ChannelTypeOK, Statuses, Posts
<1>2. HeldByOne
  BY DEF HeldByOne, AsksFor, Posts
<1>3. Counted
  BY DEF Counted, Posts
<1>4. Carried /\ PostedAsApproved
  BY DEF Carried, Posts, PostedAsApproved
<1> QED BY <1>1, <1>2, <1>3, <1>4 DEF ChannelInv

(* The next item of a list is not yet taken. *)
LEMMA NextIsUntaken ==
    ASSUME NEW pc \in {"generate", "publish"}, NEW rest, NEW how \in Ways
    PROVE  LET t == NextOf(pc, rest, how) IN
           /\ t.pc \in {"idle", "generate", "publish"}
           /\ t # Off => t.pc # "idle" /\ t.how \in Ways
  BY DEF NextOf, Working, Off

(* A step that leaves the runners alone and takes no item from one. *)
LEMMA ButtonStep ==
    ASSUME ChannelInv, NEW i \in Items,
           CreateItem(i) \/ UpdateBody(i) \/ Approve(i) \/ Reject(i)
    PROVE  ChannelInv'
<1> USE DEF ChannelInv
<1>1. UNCHANGED <<runner, posts, unanswered>> /\ approved \subseteq approved'
  BY DEF CreateItem, UpdateBody, Approve, Reject
<1>2. /\ item' \in [Items -> [status : Statuses, body : Nat]]
      /\ texts' \in Nat
      /\ \A j \in Items : j # i => item'[j] = item[j]
      /\ item[i].status \notin {"generating", "publishing", "published"}
      /\ item'[i].status \notin {"generating", "publishing", "published"}
      /\ item'[i].status = "approved" => <<i, item'[i].body>> \in approved'
  <2>1. item[i] \in [status : Statuses, body : Nat] /\ texts \in Nat
    BY DEF ChannelTypeOK
  <2>2. ASSUME NEW x \in [status : Statuses, body : Nat], item' = [item EXCEPT ![i] = x]
        PROVE  /\ item' \in [Items -> [status : Statuses, body : Nat]]
               /\ item'[i] = x /\ \A j \in Items : j # i => item'[j] = item[j]
    BY <2>2 DEF ChannelTypeOK
  <2>3. CASE CreateItem(i)
    BY <2>1, <2>2, <2>3 DEF CreateItem, Set, Statuses
  <2>4. CASE UpdateBody(i)
    <3>1. /\ Edited(i, texts + 1) \in [status : Statuses, body : Nat]
          /\ Edited(i, texts + 1).status = "draft"
      BY <2>1 DEF Edited, Statuses
    <3>2. /\ item' = [item EXCEPT ![i] = Edited(i, texts + 1)] /\ texts' = texts + 1
          /\ item[i].status \notin {"generating", "publishing", "published"}
      BY <2>4 DEF UpdateBody
    <3>3. /\ item' \in [Items -> [status : Statuses, body : Nat]]
          /\ item'[i] = Edited(i, texts + 1) /\ \A j \in Items : j # i => item'[j] = item[j]
      BY <2>2, <3>1, <3>2
    <3> QED BY <2>1, <3>1, <3>2, <3>3
  <2>5. CASE Approve(i)
    <3>1. [item[i] EXCEPT !.status = "approved"] \in [status : Statuses, body : Nat]
      BY <2>1 DEF Statuses
    <3> QED BY <2>1, <2>2, <2>5, <3>1 DEF Approve, Set
  <2>6. CASE Reject(i)
    <3>1. [item[i] EXCEPT !.status = "rejected"] \in [status : Statuses, body : Nat]
      BY <2>1 DEF Statuses
    <3>2. item[i].status # "generating"
      BY <2>6 DEF Reject, MayBecome, AllowedTransitions
    <3> QED BY <2>1, <2>2, <2>6, <3>1, <3>2 DEF Reject, Set
  <2> QED BY <2>3, <2>4, <2>5, <2>6
<1>3. \A r \in Runners, j \in Items : ~Posts(r, i) /\ ~AsksFor(r, i)
  BY <1>2 DEF HeldByOne
<1>4. ChannelTypeOK' BY <1>1, <1>2 DEF ChannelTypeOK, Posts
<1>5. HeldByOne'
  BY <1>1, <1>2, <1>3 DEF HeldByOne, AsksFor, Posts
<1>6. Counted' BY <1>1, <1>2, <1>3 DEF Counted, Posts
<1>7. Carried' BY <1>1, <1>2 DEF Carried, Posts
<1>8. PostedAsApproved' BY <1>1 DEF PostedAsApproved
<1> QED BY <1>4, <1>5, <1>6, <1>7, <1>8

(* What a runner does next concerns the others only through its item. *)
LEMMA RunnerSet ==
    ASSUME ChannelTypeOK, NEW r \in Runners, NEW t, runner' = [runner EXCEPT ![r] = t]
    PROVE  /\ runner' = [s \in Runners |-> runner'[s]]
           /\ runner'[r] = t
           /\ \A s \in Runners : s # r => runner'[s] = runner[s]
  BY DEF ChannelTypeOK

(* One status changes, and nothing else of any item. *)
LEMMA StatusSet ==
    ASSUME ChannelTypeOK, NEW x, NEW status \in Statuses, Set(x, status)
    PROVE  /\ item' \in [Items -> [status : Statuses, body : Nat]]
           /\ \A i \in Items : item'[i].body = item[i].body
           /\ \A i \in Items : i # x => item'[i] = item[i]
           /\ x \in Items => item'[x].status = status
<1>1. item' = [item EXCEPT ![x].status = status] /\ item \in [Items -> [status : Statuses, body : Nat]]
  BY DEF Set, ChannelTypeOK
<1> QED BY <1>1

(* A runner lets go of its work, or takes up work it has not begun. *)
LEMMA FreeStep ==
    ASSUME ChannelInv, NEW r \in Runners, NEW t,
           runner' = [runner EXCEPT ![r] = t], t.pc \in {"idle", "generate", "publish"},
           t # Off => t.pc # "idle" /\ t.how \in Ways,
           UNCHANGED <<item, posts, approved, unanswered, texts>>
    PROVE  ChannelInv'
<1> USE DEF ChannelInv
<1>1. /\ runner' = [s \in Runners |-> runner'[s]] /\ runner'[r] = t
      /\ \A s \in Runners : s # r => runner'[s] = runner[s]
  BY RunnerSet
<1>2. \A s \in Runners, i \in Items :
        /\ AsksFor(s, i)' => AsksFor(s, i) /\ runner'[s] = runner[s]
        /\ Posts(s, i)' => Posts(s, i) /\ runner'[s] = runner[s]
  BY <1>1 DEF AsksFor, Posts
<1>3. ChannelTypeOK' BY <1>1, <1>2 DEF ChannelTypeOK
<1>4. HeldByOne' BY <1>2 DEF HeldByOne
<1>5. Counted' BY <1>2 DEF Counted
<1>6. Carried' BY <1>2 DEF Carried
<1>7. PostedAsApproved' BY DEF PostedAsApproved
<1> QED BY <1>3, <1>4, <1>5, <1>6, <1>7

LEMMA BeginsStep ==
    ASSUME ChannelInv, NEW r \in Runners,
           NEW pc \in {"generate", "publish"}, NEW rest, NEW how \in Ways,
           \/ Begins(r, NextOf(pc, rest, how))
           \/ \E i \in Items : Begins(r, Working(pc, i, << >>, how))
    PROVE  ChannelInv'
<1>1. CASE Begins(r, NextOf(pc, rest, how))
  BY <1>1, NextIsUntaken, FreeStep DEF Begins
<1>2. CASE \E i \in Items : Begins(r, Working(pc, i, << >>, how))
  <2>1. PICK i \in Items : Begins(r, Working(pc, i, << >>, how)) BY <1>2
  <2>2. /\ Working(pc, i, << >>, how).pc \in {"generate", "publish"}
        /\ Working(pc, i, << >>, how).how \in Ways
    BY DEF Working
  <2> QED BY <2>1, <2>2, FreeStep DEF Begins
<1> QED BY <1>1, <1>2

(* An item is taken from a status nobody holds it by. *)
LEMMA TakeStep ==
    ASSUME ChannelInv, NEW r \in Runners, TakeToGenerate(r) \/ TakeToPublish(r)
    PROVE  ChannelInv'
<1> USE DEF ChannelInv
<1> DEFINE x == runner[r].item
<1>1. CASE runner' = [runner EXCEPT ![r] = Off] /\ UNCHANGED item
  <2>1. Off.pc \in {"idle", "generate", "publish"} BY DEF Off
  <2> QED BY <1>1, <2>1, FreeStep DEF TakeToGenerate, TakeToPublish, Take
<1>2. ASSUME NEW status \in {"generating", "publishing"}, NEW call,
             call = (IF status = "generating" THEN "ask" ELSE "send"),
             item[x].status \in IF status = "generating"
                                THEN {"queued", "draft", "rejected", "failed"}
                                ELSE {"approved", "failed"},
             item[x].status = "failed" /\ status = "publishing" => runner[r].how = "retry",
             runner[r] # Off,
             item' = [item EXCEPT ![x].status = status],
             runner' = [runner EXCEPT ![r] =
                 [pc |-> call, item |-> @.item, rest |-> @.rest, how |-> @.how,
                  body |-> item[@.item].body]],
             UNCHANGED <<posts, approved, unanswered, texts>>
      PROVE  ChannelInv'
  <2> DEFINE t == [pc |-> call, item |-> x, rest |-> runner[r].rest,
                   how |-> runner[r].how, body |-> item[x].body]
  <2>1. runner' = [runner EXCEPT ![r] = t]
    BY <1>2 DEF ChannelTypeOK
  <2>2. /\ runner' = [s \in Runners |-> runner'[s]] /\ runner'[r] = t
        /\ \A s \in Runners : s # r => runner'[s] = runner[s]
    BY <2>1, RunnerSet
  <2>3. /\ item' \in [Items -> [status : Statuses, body : Nat]]
        /\ \A j \in Items : item'[j].body = item[j].body
        /\ \A j \in Items : j # x => item'[j] = item[j]
        /\ x \in Items => item'[x].status = status
    BY <1>2, StatusSet DEF Set, Statuses
  <2>4. \A s \in Runners : x \in Items => ~Posts(s, x) /\ ~AsksFor(s, x)
    BY <1>2 DEF HeldByOne
  <2>5. runner[r].how \in Ways BY <1>2 DEF ChannelTypeOK
  <2>6. \A s \in Runners, i \in Items :
          s # r => (Posts(s, i)' <=> Posts(s, i)) /\ (AsksFor(s, i)' <=> AsksFor(s, i))
    BY <2>2 DEF Posts, AsksFor
  <2>7. \A i \in Items : /\ Posts(r, i)' => i = x /\ status = "publishing"
                         /\ AsksFor(r, i)' => i = x /\ status = "generating"
    BY <1>2, <2>2 DEF Posts, AsksFor
  <2>8. ChannelTypeOK'
    <3>1. \A s \in Runners : runner'[s] # Off => runner'[s].pc # "idle" /\ runner'[s].how \in Ways
      BY <1>2, <2>2, <2>5 DEF ChannelTypeOK
    <3>2. \A s \in Runners, i \in Items : Posts(s, i)' => runner'[s].body \in Nat
      <4> SUFFICES ASSUME NEW s \in Runners, NEW i \in Items, Posts(s, i)'
                   PROVE  runner'[s].body \in Nat
        OBVIOUS
      <4>1. CASE s = r
        <5>1. i = x /\ item[x].body \in Nat BY <2>7, <4>1 DEF ChannelTypeOK
        <5> QED BY <2>2, <4>1, <5>1
      <4>2. CASE s # r BY <2>2, <2>6, <4>2 DEF ChannelTypeOK
      <4> QED BY <4>1, <4>2
    <3>3. Taken(t) BY DEF Taken
    <3> QED BY <1>2, <2>2, <2>3, <3>1, <3>2, <3>3 DEF ChannelTypeOK
  <2>9. HeldByOne'
    BY <2>3, <2>4, <2>6, <2>7 DEF HeldByOne
  <2>10. Counted'
    <3>1. \A i \in Items : Posts(r, i)' => Len(posts[i]) <= unanswered[i]
      BY <1>2, <2>7 DEF Counted
    <3>2. ASSUME NEW i \in Items, item'[i].status \notin {"publishing", "published"}
          PROVE  Len(posts[i]) <= unanswered[i]
      <4>1. CASE i = x BY <1>2, <4>1 DEF Counted
      <4>2. CASE i # x BY <2>3, <3>2, <4>2 DEF Counted
      <4> QED BY <4>1, <4>2
    <3> QED BY <1>2, <2>2, <2>6, <3>1, <3>2 DEF Counted
  <2>11. Carried'
    <3>1. \A i \in Items : item'[i].status = "approved" => <<i, item'[i].body>> \in approved
      BY <1>2, <2>3 DEF Carried
    <3>2. \A i \in Items : Posts(r, i)' => <<i, runner'[r].body>> \in approved \/ runner'[r].how = "retry"
      BY <1>2, <2>2, <2>7 DEF Carried
    <3> QED BY <1>2, <2>2, <2>6, <3>1, <3>2 DEF Carried
  <2>12. PostedAsApproved' BY <1>2 DEF PostedAsApproved
  <2> QED BY <2>8, <2>9, <2>10, <2>11, <2>12
<1>3. runner[r].pc \in {"generate", "publish"} /\ runner[r] # Off
  BY DEF TakeToGenerate, TakeToPublish, Take, Off
<1>4. CASE TakeToGenerate(r) /\ ~(runner' = [runner EXCEPT ![r] = Off] /\ UNCHANGED item)
  BY <1>2, <1>3, <1>4 DEF TakeToGenerate, Take, Set
<1>5. CASE TakeToPublish(r) /\ ~(runner' = [runner EXCEPT ![r] = Off] /\ UNCHANGED item)
  BY <1>2, <1>3, <1>5 DEF TakeToPublish, Take, Set, Publishable
<1> QED BY <1>1, <1>4, <1>5

(* What the runner has is settled, and the item leaves the status that      *)
(* kept others away.                                                        *)
LEMMA ReleaseStep ==
    ASSUME ChannelInv, NEW r \in Runners, Generated(r) \/ SealPublication(r)
    PROVE  ChannelInv'
<1> USE DEF ChannelInv
<1> DEFINE x == runner[r].item
<1>1. PICK t : /\ runner' = [runner EXCEPT ![r] = t]
               /\ t.pc \in {"idle", "generate", "publish"}
               /\ t # Off => t.pc # "idle" /\ t.how \in Ways
  <2>1. runner[r].pc # "idle" /\ runner[r] # Off
    BY DEF Generated, SealPublication, Off
  <2>2. runner[r].how \in Ways BY <2>1 DEF ChannelTypeOK
  <2>3. PICK pc \in {"generate", "publish"} :
          runner' = [runner EXCEPT ![r] = NextOf(pc, runner[r].rest, runner[r].how)]
    BY DEF Generated, SealPublication, Continue, ChannelTypeOK
  <2> QED BY <2>2, <2>3, NextIsUntaken
<1>2. /\ runner' = [s \in Runners |-> runner'[s]] /\ runner'[r] = t
      /\ \A s \in Runners : s # r => runner'[s] = runner[s]
  BY <1>1, RunnerSet
<1>3. \A s \in Runners, i \in Items :
        /\ AsksFor(s, i)' => s # r /\ AsksFor(s, i) /\ runner'[s] = runner[s]
        /\ Posts(s, i)' => s # r /\ Posts(s, i) /\ runner'[s] = runner[s]
  BY <1>1, <1>2 DEF AsksFor, Posts
<1>4. UNCHANGED <<posts, approved, unanswered>>
  BY DEF Generated, SealPublication
<1>5. \/ Generated(r) /\ (x \in Items => AsksFor(r, x))
      \/ SealPublication(r) /\ (x \in Items => Posts(r, x))
  BY DEF Generated, SealPublication, AsksFor, Posts
<1>6. /\ item' \in [Items -> [status : Statuses, body : Nat]] /\ texts' \in Nat
      /\ \A i \in Items : i # x => item'[i] = item[i]
      /\ x \in Items => /\ item'[x].status \in {"draft", "failed", "published"}
                        /\ item'[x].status = "published"
                              <=> SealPublication(r) /\ runner[r].pc = "posted"
  <2>1. CASE Generated(r)
    <3>1. ~SealPublication(r) BY <2>1 DEF Generated, SealPublication
    <3>2. CASE /\ texts' = texts + 1
               /\ item' = [item EXCEPT ![x] = [status |-> "draft", body |-> texts + 1]]
      <4>1. [status |-> "draft", body |-> texts + 1] \in [status : Statuses, body : Nat]
        BY DEF ChannelTypeOK, Statuses
      <4> QED BY <3>1, <3>2, <4>1 DEF ChannelTypeOK
    <3>3. CASE Set(x, "failed") /\ UNCHANGED texts
      BY <3>1, <3>3, StatusSet DEF ChannelTypeOK, Statuses
    <3> QED BY <2>1, <3>2, <3>3 DEF Generated
  <2>2. CASE SealPublication(r)
    <3>1. ~Generated(r) /\ UNCHANGED texts BY <2>2 DEF Generated, SealPublication
    <3>2. PICK status \in {"published", "failed"} :
            /\ Set(x, status)
            /\ status = "published" <=> runner[r].pc = "posted"
      BY <2>2 DEF SealPublication
    <3>3. /\ item' \in [Items -> [status : Statuses, body : Nat]]
          /\ \A i \in Items : i # x => item'[i] = item[i]
          /\ x \in Items => item'[x].status = status
      BY <3>2, StatusSet DEF Statuses
    <3> QED BY <2>2, <3>1, <3>2, <3>3 DEF ChannelTypeOK
  <2> QED BY <2>1, <2>2
<1>7. \A s \in Runners, i \in Items :
        /\ AsksFor(s, i)' => item'[i] = item[i]
        /\ Posts(s, i)' => item'[i] = item[i]
  <2> SUFFICES ASSUME NEW s \in Runners, NEW i \in Items, AsksFor(s, i)' \/ Posts(s, i)', i = x
               PROVE  FALSE
    BY <1>6
  <2>1. s # r /\ (AsksFor(s, x) \/ Posts(s, x)) BY <1>3
  <2>2. AsksFor(r, x) \/ Posts(r, x) BY <1>5
  <2> QED BY <2>1, <2>2 DEF HeldByOne
<1>8. ChannelTypeOK' BY <1>1, <1>2, <1>3, <1>4, <1>6 DEF ChannelTypeOK
<1>9. HeldByOne' BY <1>3, <1>7 DEF HeldByOne
<1>10. Counted'
  <2>1. ASSUME NEW i \in Items, item'[i].status \notin {"publishing", "published"}
        PROVE  Len(posts[i]) <= unanswered[i]
    <3>1. CASE i # x BY <1>6, <2>1, <3>1 DEF Counted
    <3>2. CASE i = x /\ Generated(r)
      BY <3>2, <1>5 DEF HeldByOne, Counted, Generated, SealPublication
    <3>3. CASE i = x /\ SealPublication(r)
      <4>1. Posts(r, i) /\ runner[r].pc # "posted"
        BY <1>5, <1>6, <2>1, <3>3 DEF Generated, SealPublication
      <4> QED BY <4>1 DEF Counted
    <3> QED BY <1>5, <3>1, <3>2, <3>3
  <2> QED BY <1>3, <1>4, <2>1 DEF Counted
<1>11. Carried' BY <1>3, <1>4, <1>6 DEF Carried
<1>12. PostedAsApproved' BY <1>4 DEF PostedAsApproved
<1> QED BY <1>8, <1>9, <1>10, <1>11, <1>12

(* Telegram's answer: a post more is a post unconfirmed, or the last. *)
LEMMA PublishStep ==
    ASSUME ChannelInv, NEW r \in Runners, PublishChannelMessage(r)
    PROVE  ChannelInv'
<1> USE DEF ChannelInv
<1> DEFINE x == runner[r].item
<1>1. PICK pc \in {"posted", "refused"} :
        /\ runner' = [runner EXCEPT ![r].pc = pc]
        /\ \/ Post(r) /\ pc = "posted" /\ UNCHANGED unanswered
           \/ Post(r) /\ pc = "refused" /\ unanswered' = [unanswered EXCEPT ![x] = @ + 1]
           \/ pc = "refused" /\ UNCHANGED <<posts, unanswered>>
  BY DEF PublishChannelMessage
<1>2. UNCHANGED <<item, approved, texts>> /\ runner[r].pc = "send" /\ runner[r] # Off
  BY DEF PublishChannelMessage, Off
<1>3. runner' = [runner EXCEPT ![r] = [runner[r] EXCEPT !.pc = pc]]
  BY <1>1 DEF ChannelTypeOK
<1>4. /\ runner' = [s \in Runners |-> runner'[s]]
      /\ runner'[r] = [runner[r] EXCEPT !.pc = pc]
      /\ \A s \in Runners : s # r => runner'[s] = runner[s]
  BY <1>3, RunnerSet
<1>5. Taken(runner[r]) BY <1>2 DEF ChannelTypeOK
<1>6. /\ runner'[r].pc = pc /\ runner'[r].item = x /\ runner'[r].body = runner[r].body
      /\ runner'[r].how = runner[r].how /\ Taken(runner'[r])
  <2>1. runner'[r] = [pc |-> pc, item |-> x, rest |-> runner[r].rest,
                      how |-> runner[r].how, body |-> runner[r].body]
    BY <1>4, <1>5 DEF Taken
  <2> QED BY <2>1 DEF Taken
<1>7. \A s \in Runners, i \in Items :
        /\ AsksFor(s, i)' => AsksFor(s, i)
        /\ Posts(s, i)' => /\ Posts(s, i) /\ runner'[s].body = runner[s].body
                          /\ runner'[s].how = runner[s].how
  BY <1>2, <1>4, <1>6 DEF AsksFor, Posts
<1>8. x \in Items => Posts(r, x) BY <1>2 DEF Posts
<1>9. /\ runner[r].how \in Ways /\ (x \in Items => runner[r].body \in Nat)
  BY <1>2, <1>8 DEF ChannelTypeOK
<1>10. /\ posts' \in [Items -> Seq(Nat \X Ways)] /\ unanswered' \in [Items -> Nat]
       /\ \A i \in Items : i # x => posts'[i] = posts[i] /\ unanswered'[i] = unanswered[i]
       /\ x \in Items =>
            /\ posts'[x] = posts[x] \/ posts'[x] = Append(posts[x], <<runner[r].body, runner[r].how>>)
            /\ Len(posts'[x]) <= 1 + unanswered'[x]
            /\ pc = "refused" => Len(posts'[x]) <= unanswered'[x]
  <2>1. CASE x \in Items
    <3>1. /\ posts[x] \in Seq(Nat \X Ways) /\ unanswered[x] \in Nat
          /\ <<runner[r].body, runner[r].how>> \in Nat \X Ways
          /\ Len(posts[x]) <= unanswered[x]
      BY <1>2, <1>8, <1>9, <2>1 DEF ChannelTypeOK, Counted
    <3>2. /\ Append(posts[x], <<runner[r].body, runner[r].how>>) \in Seq(Nat \X Ways)
          /\ Len(Append(posts[x], <<runner[r].body, runner[r].how>>)) = Len(posts[x]) + 1
          /\ Len(posts[x]) \in Nat
      BY <3>1
    <3>3. ASSUME NEW p, NEW n, p \in Seq(Nat \X Ways), n \in Nat,
                 posts' = [posts EXCEPT ![x] = p], unanswered' = [unanswered EXCEPT ![x] = n]
          PROVE  /\ posts' \in [Items -> Seq(Nat \X Ways)] /\ unanswered' \in [Items -> Nat]
                 /\ \A i \in Items : i # x => posts'[i] = posts[i] /\ unanswered'[i] = unanswered[i]
                 /\ posts'[x] = p /\ unanswered'[x] = n
      BY <2>1, <3>3 DEF ChannelTypeOK
    <3>4. unanswered = [unanswered EXCEPT ![x] = unanswered[x]] /\ posts = [posts EXCEPT ![x] = posts[x]]
      BY DEF ChannelTypeOK
    <3> DEFINE more == Append(posts[x], <<runner[r].body, runner[r].how>>)
    <3>5. CASE Post(r) /\ pc = "posted" /\ UNCHANGED unanswered
      <4>1. posts' = [posts EXCEPT ![x] = more] /\ unanswered' = [unanswered EXCEPT ![x] = unanswered[x]]
        BY <3>4, <3>5 DEF Post
      <4> HIDE DEF more
      <4>2. more \in Seq(Nat \X Ways) /\ Len(more) = Len(posts[x]) + 1 BY <3>2 DEF more
      <4>3. posts'[x] = more /\ unanswered'[x] = unanswered[x] BY <3>1, <3>3, <4>1, <4>2
      <4>4. Len(posts'[x]) <= 1 + unanswered'[x]
        <5>1. Len(more) <= 1 + unanswered[x] BY <3>1, <3>2, <4>2
        <5> QED BY <4>3, <5>1
      <4>5. /\ posts' \in [Items -> Seq(Nat \X Ways)] /\ unanswered' \in [Items -> Nat]
            /\ \A i \in Items : i # x => posts'[i] = posts[i] /\ unanswered'[i] = unanswered[i]
        BY <3>1, <3>3, <4>1, <4>2
      <4> QED BY <3>5, <4>3, <4>4, <4>5 DEF more
    <3>6. CASE Post(r) /\ pc = "refused" /\ unanswered' = [unanswered EXCEPT ![x] = @ + 1]
      <4>1. /\ posts' = [posts EXCEPT ![x] = more]
            /\ unanswered' = [unanswered EXCEPT ![x] = unanswered[x] + 1]
        BY <3>1, <3>6 DEF Post
      <4> HIDE DEF more
      <4>2. /\ more \in Seq(Nat \X Ways) /\ Len(more) = Len(posts[x]) + 1
            /\ unanswered[x] + 1 \in Nat
        BY <3>1, <3>2 DEF more
      <4>3. posts'[x] = more /\ unanswered'[x] = unanswered[x] + 1 BY <3>3, <4>1, <4>2
      <4>4. Len(posts'[x]) <= unanswered'[x] /\ Len(posts'[x]) <= 1 + unanswered'[x]
        <5>1. Len(more) <= unanswered[x] + 1 /\ Len(more) \in Nat BY <3>1, <3>2, <4>2
        <5>2. Len(more) <= 1 + (unanswered[x] + 1) BY <3>1, <5>1
        <5> QED BY <4>3, <5>1, <5>2
      <4>5. /\ posts' \in [Items -> Seq(Nat \X Ways)] /\ unanswered' \in [Items -> Nat]
            /\ \A i \in Items : i # x => posts'[i] = posts[i] /\ unanswered'[i] = unanswered[i]
        BY <3>3, <4>1, <4>2
      <4> QED BY <3>6, <4>3, <4>4, <4>5 DEF more
    <3>7. CASE pc = "refused" /\ UNCHANGED <<posts, unanswered>>
      BY <3>1, <3>2, <3>7 DEF ChannelTypeOK
    <3> QED BY <1>1, <3>5, <3>6, <3>7
  <2>2. CASE x \notin Items
    <3>1. posts' = posts /\ unanswered' = unanswered
      BY <1>1, <2>2 DEF ChannelTypeOK, Post
    <3> QED BY <2>2, <3>1 DEF ChannelTypeOK
  <2> QED BY <2>1, <2>2
<1>11. ChannelTypeOK'
  <2>1. \A s \in Runners : runner'[s] # Off => runner'[s].pc # "idle" /\ runner'[s].how \in Ways
    BY <1>4, <1>6, <1>9 DEF ChannelTypeOK
  <2>2. \A s \in Runners : runner'[s].pc \in {"send", "posted", "refused"} => Taken(runner'[s])
    BY <1>4, <1>6 DEF ChannelTypeOK
  <2> QED BY <1>2, <1>4, <1>7, <1>10, <2>1, <2>2 DEF ChannelTypeOK
<1>12. HeldByOne' BY <1>2, <1>7 DEF HeldByOne
<1>13. Counted'
  <2>1. ASSUME NEW i \in Items PROVE Len(posts'[i]) <= 1 + unanswered'[i]
    BY <1>10, <2>1 DEF Counted
  <2>2. ASSUME NEW i \in Items, item'[i].status \notin {"publishing", "published"}
        PROVE  Len(posts'[i]) <= unanswered'[i]
    <3>1. i # x BY <1>2, <1>8, <2>2 DEF HeldByOne
    <3> QED BY <1>2, <1>10, <2>2, <3>1 DEF Counted
  <2>3. ASSUME NEW s \in Runners, NEW i \in Items, Posts(s, i)', runner'[s].pc # "posted"
        PROVE  Len(posts'[i]) <= unanswered'[i]
    <3>1. CASE s = r BY <1>4, <1>6, <1>10, <2>3, <3>1 DEF Posts
    <3>2. CASE s # r
      <4>1. i # x BY <1>7, <1>8, <2>3, <3>2 DEF HeldByOne
      <4>2. Posts(s, i) /\ runner[s].pc # "posted" BY <1>4, <1>7, <2>3, <3>2
      <4> QED BY <1>10, <4>1, <4>2 DEF Counted
    <3> QED BY <3>1, <3>2
  <2> QED BY <2>1, <2>2, <2>3 DEF Counted
<1>14. Carried' BY <1>2, <1>7 DEF Carried
<1>15. PostedAsApproved'
  <2> SUFFICES ASSUME NEW i \in Items, NEW k \in DOMAIN posts'[i]
               PROVE  <<i, posts'[i][k][1]>> \in approved \/ posts'[i][k][2] = "retry"
    BY <1>2 DEF PostedAsApproved
  <2>1. CASE posts'[i] = posts[i] BY <2>1 DEF PostedAsApproved
  <2>2. CASE i = x /\ posts'[i] = Append(posts[i], <<runner[r].body, runner[r].how>>)
    <3>1. posts[i] \in Seq(Nat \X Ways) BY DEF ChannelTypeOK
    <3>2. CASE k \in DOMAIN posts[i]
      <4>1. posts'[i][k] = posts[i][k] BY <2>2, <3>1, <3>2
      <4> QED BY <3>2, <4>1 DEF PostedAsApproved
    <3>3. CASE k = Len(posts[i]) + 1
      <4>1. posts'[i][k] = <<runner[r].body, runner[r].how>> BY <2>2, <3>1, <3>3
      <4>2. Posts(r, i) BY <1>8, <2>2
      <4>3. <<i, runner[r].body>> \in approved \/ runner[r].how = "retry" BY <4>2 DEF Carried
      <4> QED BY <4>1, <4>3
    <3>4. k \in DOMAIN posts[i] \/ k = Len(posts[i]) + 1
      <4>1. Len(posts'[i]) = Len(posts[i]) + 1 /\ Len(posts[i]) \in Nat BY <2>2, <3>1
      <4>2. posts'[i] \in Seq(Nat \X Ways) BY <1>10
      <4> QED BY <3>1, <4>1, <4>2
    <3> QED BY <3>2, <3>3, <3>4
  <2> QED BY <1>10, <2>1, <2>2
<1> QED BY <1>11, <1>12, <1>13, <1>14, <1>15

LEMMA ChannelInvNext == ChannelInv /\ [ChannelNext]_channelVars => ChannelInv'
<1> SUFFICES ASSUME ChannelInv, [ChannelNext]_channelVars PROVE ChannelInv'
  OBVIOUS
<1>1. CASE \E i \in Items : CreateItem(i) \/ UpdateBody(i) \/ Approve(i) \/ Reject(i)
  BY <1>1, ButtonStep
<1>2. ASSUME NEW r \in Runners, NEW i \in Items,
             GenerateItem(r, i) \/ \E how \in {"button", "retry"} : PublishItem(r, i, how)
      PROVE  ChannelInv'
  <2>1. PICK pc \in {"generate", "publish"}, how \in Ways : Begins(r, Working(pc, i, << >>, how))
    BY <1>2 DEF GenerateItem, PublishItem, Ways
  <2> QED BY <2>1, BeginsStep
<1>3. ASSUME NEW r \in Runners, NEW due, GenerateDueItems(r, due) \/ PublishDueItems(r, due)
      PROVE  ChannelInv'
  <2>1. CASE GenerateDueItems(r, due)
    BY <2>1, BeginsStep DEF GenerateDueItems, Ways
  <2>2. CASE PublishDueItems(r, due)
    BY <2>2, BeginsStep DEF PublishDueItems, Ways
  <2> QED BY <1>3, <2>1, <2>2
<1>4. ASSUME NEW r \in Runners, TakeToGenerate(r) \/ TakeToPublish(r) PROVE ChannelInv'
  BY <1>4, TakeStep
<1>5. ASSUME NEW r \in Runners, Generated(r) \/ SealPublication(r) PROVE ChannelInv'
  BY <1>5, ReleaseStep
<1>6. ASSUME NEW r \in Runners, PublishChannelMessage(r) PROVE ChannelInv'
  BY <1>6, PublishStep
<1>7. ASSUME NEW r \in Runners, RunnerDies(r) PROVE ChannelInv'
  <2>1. Off.pc \in {"idle", "generate", "publish"} BY DEF Off
  <2> QED BY <1>7, <2>1, FreeStep DEF RunnerDies
<1>8. CASE UNCHANGED channelVars
  BY <1>8 DEF channelVars, ChannelInv, ChannelTypeOK, HeldByOne, Counted, Carried,
              PostedAsApproved, AsksFor, Posts
<1> QED BY <1>1, <1>2, <1>3, <1>4, <1>5, <1>6, <1>7, <1>8 DEF ChannelNext

LEMMA ChannelIsInvariant == ChannelSpec => []ChannelInv
  BY ChannelInvInit, ChannelInvNext, PTL DEF ChannelSpec

(* For any items, handlers and faults, a second post of an item means that  *)
(* Telegram left an earlier one unconfirmed: the statuses publish_item_     *)
(* from_automation and its button take under the row's lock are enough.     *)
THEOREM AnItemIsPostedOnce == ChannelSpec => []PostedOnce
<1>1. ChannelInv => PostedOnce
  BY DEF ChannelInv, Counted, PostedOnce
<1> QED BY <1>1, ChannelIsInvariant, PTL

(* For any items, handlers and faults, what the channel gets was approved   *)
(* as it stands, or was sent by the retry of a failed item.                 *)
THEOREM PostsAreApproved == ChannelSpec => []PostedAsApproved
<1>1. ChannelInv => PostedAsApproved
  BY DEF ChannelInv
<1> QED BY <1>1, ChannelIsInvariant, PTL

-----------------------------------------------------------------------------
(* The support desk.  What a handler carries from one of its transactions  *)
(* to the next: the judgement it made of the ticket it read.               *)
DeskActs == {"take", "reply", "close", "transfer", "answer", "input"}
ToWrite(t) == t = [pc |-> "write", act |-> t.act, to |-> t.to, saw |-> t.saw]
ToSend(t) == t = [pc |-> "send", act |-> t.act, saw |-> t.saw]

SupportTypeOK ==
    /\ ticket = [status |-> ticket.status, owner |-> ticket.owner, cards |-> ticket.cards]
    /\ ticket.cards \subseteq Admins
    /\ faults \in Nat
    /\ message = [m \in Messages |-> message[m]]
    /\ \A m \in Messages :
          /\ message[m].pc = "push" => /\ message[m] = [pc |-> "push", todo |-> message[m].todo]
                                       /\ message[m].todo \subseteq Admins
          /\ message[m].pc = "refresh" => message[m].cards \subseteq Admins
    /\ desk = [a \in Admins |-> desk[a]]

WellJudged(a, t) ==
    /\ t.pc = "write" =>
          /\ ToWrite(t) /\ t.act \in DeskActs /\ t.to \in Admins
          /\ t.act # "transfer" => t.saw.owner \in {NoOwner, a}
          /\ t.act \in {"take", "reply", "answer"} => t.saw.status # "closed"
    /\ t.pc = "send" => ToSend(t) /\ t.saw = Owned(a)
    /\ t.pc = "register" => /\ t.saw.owner \in {NoOwner, a}
                            /\ t.saw.status # "closed" \/ t.act = "input"
    /\ t.pc = "cards" => t.cards \subseteq Admins /\ t.to \in Admins
    /\ t.pc = "tell" => t.to \in Admins
Judged == \A a \in Admins : WellJudged(a, desk[a])

(* Of a message nobody has heard, the cards still to be sent and those on   *)
(* file make up all administrators.                                         *)
Undisturbed == faults = 0 /\ torn = FALSE
OnItsWay ==
    Undisturbed => \A m \in Messages :
        /\ message[m].pc = "push" => m \in heard \/ Admins \subseteq ticket.cards \union message[m].todo
        /\ message[m].pc \in {"refresh", "notify"} => m \in heard \/ Admins \subseteq ticket.cards
        /\ message[m].pc = "accepted" => m \in heard

SupportInv == SupportTypeOK /\ torn \in BOOLEAN /\ Judged /\ OnItsWay

LEMMA AdminsAreFinite == IsFiniteSet(Admins) /\ Admins # {}
<1>1. LastAdmin \in Nat \ {0} BY SupportAssumption
<1>2. IsFiniteSet(1..LastAdmin) BY <1>1, FS_Interval
<1>3. 1 \in 1..LastAdmin BY <1>1
<1> QED BY <1>2, <1>3 DEF Admins

(* Refusals count: none was counted when there was none. *)
LEMMA FaultsCount ==
    ASSUME faults \in Nat, NEW S, IsFiniteSet(S), Fault(Cardinality(S))
    PROVE  faults' \in Nat /\ (faults' = 0 => faults = 0 /\ S = {})
<1>1. Cardinality(S) \in Nat BY FS_CardinalityType
<1>2. Cardinality(S) = 0 <=> S = {} BY FS_EmptySet
<1> QED BY <1>1, <1>2 DEF Fault

LEMMA SupportInvInit == SupportInit => SupportInv
<1> SUFFICES ASSUME SupportInit PROVE SupportInv
  OBVIOUS
<1> USE DEF SupportInit, Unread, NoTask
<1>1. SupportTypeOK BY DEF SupportTypeOK
<1>2. torn \in BOOLEAN /\ Judged BY DEF Judged, WellJudged
<1>3. OnItsWay BY DEF OnItsWay
<1> QED BY <1>1, <1>2, <1>3 DEF SupportInv

(* The cards of a snapshot are stored over those on file. *)
LEMMA CardsReplaced ==
    ASSUME SupportInv, NEW snapshot \in SUBSET Admins, ReplaceAdminCards(snapshot)
    PROVE  /\ ticket' = [status |-> ticket.status, owner |-> ticket.owner, cards |-> ticket'.cards]
           /\ ticket'.cards \subseteq Admins /\ faults' \in Nat /\ torn' \in BOOLEAN
           /\ Undisturbed' => Undisturbed /\ ticket.cards \subseteq ticket'.cards
<1>1. PICK gone \in SUBSET snapshot :
        /\ Fault(Cardinality(gone))
        /\ ticket' = [ticket EXCEPT !.cards = snapshot \ gone]
        /\ torn' = (torn \/ ~(ticket.cards \subseteq snapshot))
  BY DEF ReplaceAdminCards
<1>2. IsFiniteSet(gone) BY AdminsAreFinite, FS_Subset
<1>3. faults' \in Nat /\ (faults' = 0 => faults = 0 /\ gone = {})
  BY <1>1, <1>2, FaultsCount DEF SupportInv, SupportTypeOK
<1>4. ticket' = [status |-> ticket.status, owner |-> ticket.owner, cards |-> snapshot \ gone]
  BY <1>1 DEF SupportInv, SupportTypeOK
<1>5. torn' \in BOOLEAN /\ (torn' = FALSE => torn = FALSE /\ ticket.cards \subseteq snapshot)
  BY <1>1, Zenon DEF SupportInv
<1> QED BY <1>3, <1>4, <1>5 DEF Undisturbed

(* A step of the user's message: RegisterUserMessage, PushTicketToAdmin,    *)
(* ReadTicket, RefreshForMessage, NotifyAdmins.                             *)
LEMMA MessageStep ==
    ASSUME SupportInv, NEW m \in Messages,
           \/ RegisterUserMessage(m) \/ PushTicketToAdmin(m) \/ ReadTicket(m)
           \/ RefreshForMessage(m) \/ NotifyAdmins(m)
    PROVE  SupportInv'
<1>1. /\ UNCHANGED desk
      /\ \E t : message' = [message EXCEPT ![m] = t]
  <2>1. CASE PushTicketToAdmin(m)
    <3>1. PICK a : message' = [message EXCEPT ![m].todo = @ \ {a}]
      BY <2>1 DEF PushTicketToAdmin
    <3> QED BY <2>1, <3>1 DEF PushTicketToAdmin, SupportInv, SupportTypeOK
  <2> QED BY <2>1 DEF RegisterUserMessage, ReadTicket, RefreshForMessage, NotifyAdmins
<1>2. /\ message' = [n \in Messages |-> message'[n]]
      /\ \A n \in Messages \ {m} : message'[n] = message[n]
  BY <1>1 DEF SupportInv, SupportTypeOK
<1>3. Judged'
  BY <1>1 DEF SupportInv, Judged, WellJudged, ToWrite, ToSend, Owned
<1>4. SUFFICES
        /\ ticket' = [status |-> ticket'.status, owner |-> ticket'.owner, cards |-> ticket'.cards]
        /\ ticket'.cards \subseteq Admins /\ faults' \in Nat /\ torn' \in BOOLEAN
        /\ message'[m].pc = "push" => /\ message'[m] = [pc |-> "push", todo |-> message'[m].todo]
                                      /\ message'[m].todo \subseteq Admins
        /\ message'[m].pc = "refresh" => message'[m].cards \subseteq Admins
        /\ Undisturbed' =>
              /\ Undisturbed /\ ticket.cards \subseteq ticket'.cards /\ heard \subseteq heard'
              /\ message'[m].pc = "push" =>
                    m \in heard' \/ Admins \subseteq ticket'.cards \union message'[m].todo
              /\ message'[m].pc \in {"refresh", "notify"} => m \in heard' \/ Admins \subseteq ticket'.cards
              /\ message'[m].pc = "accepted" => m \in heard'
  <2>1. SupportTypeOK'
    BY <1>1, <1>2, <1>4 DEF SupportInv, SupportTypeOK
  <2>2. OnItsWay'
    <3> SUFFICES ASSUME Undisturbed', NEW n \in Messages
                 PROVE  /\ message'[n].pc = "push" =>
                              n \in heard' \/ Admins \subseteq ticket'.cards \union message'[n].todo
                        /\ message'[n].pc \in {"refresh", "notify"} =>
                              n \in heard' \/ Admins \subseteq ticket'.cards
                        /\ message'[n].pc = "accepted" => n \in heard'
      BY DEF OnItsWay
    <3>1. CASE n = m BY <1>4, <3>1
    <3>2. CASE n # m
      BY <1>2, <1>4, <3>2 DEF SupportInv, OnItsWay
    <3> QED BY <3>1, <3>2
  <2> QED BY <1>3, <1>4, <2>1, <2>2 DEF SupportInv
<1>5. CASE RegisterUserMessage(m)
  <2>1. /\ ticket' = [status |-> ticket'.status, owner |-> ticket'.owner, cards |-> ticket.cards]
        /\ message'[m] = [pc |-> "push", todo |-> Admins \ ticket.cards]
        /\ UNCHANGED <<heard, torn, faults>>
    BY <1>5 DEF RegisterUserMessage, SupportInv, SupportTypeOK
  <2> QED BY <2>1 DEF SupportInv, SupportTypeOK, Undisturbed
<1>6. CASE PushTicketToAdmin(m)
  <2> DEFINE todo == message[m].todo
             a == CHOOSE x \in todo : \A y \in todo : x <= y
  <2> HIDE DEF a
  <2>1. /\ message[m] = [pc |-> "push", todo |-> todo] /\ todo \subseteq Admins
        /\ message' = [message EXCEPT ![m].todo = @ \ {a}] /\ UNCHANGED torn
        /\ \/ ticket' = [ticket EXCEPT !.cards = @ \union {a}] /\ heard' = heard \union {m} /\ UNCHANGED faults
           \/ Fault(1) /\ UNCHANGED <<ticket, heard>>
    BY <1>6 DEF PushTicketToAdmin, SupportInv, SupportTypeOK, a
  <2>2. a \in Admins
    <3>1. todo # {} /\ todo \subseteq Nat
      BY <1>6, <2>1, SupportAssumption DEF PushTicketToAdmin, Admins
    <3>2. \E x \in todo : \A y \in todo : x <= y
      BY <3>1, LeastExists
    <3> QED BY <2>1, <3>2 DEF a
  <2>3. message'[m] = [pc |-> "push", todo |-> todo \ {a}]
    <3>1. ASSUME NEW t, t = message[m] PROVE [t EXCEPT !.todo = @ \ {a}] = [pc |-> "push", todo |-> t.todo \ {a}]
      BY <2>1, <3>1
    <3>2. message'[m] = [message[m] EXCEPT !.todo = @ \ {a}]
      BY <2>1 DEF SupportInv, SupportTypeOK
    <3> QED BY <3>1, <3>2
  <2>4. CASE ticket' = [ticket EXCEPT !.cards = @ \union {a}] /\ heard' = heard \union {m} /\ UNCHANGED faults
    <3>1. ticket' = [status |-> ticket.status, owner |-> ticket.owner, cards |-> ticket.cards \union {a}]
      BY <2>4 DEF SupportInv, SupportTypeOK
    <3>2. ticket'.cards \subseteq Admins /\ ticket'.cards = ticket.cards \union {a}
      BY <2>2, <3>1 DEF SupportInv, SupportTypeOK
    <3> QED BY <2>1, <2>2, <2>3, <2>4, <3>1, <3>2 DEF SupportInv, SupportTypeOK, Undisturbed
  <2>5. CASE Fault(1) /\ UNCHANGED <<ticket, heard>>
    <3>1. faults' \in Nat /\ faults' # 0
      BY <2>5 DEF Fault, SupportInv, SupportTypeOK
    <3> QED BY <2>1, <2>3, <2>5, <3>1 DEF SupportInv, SupportTypeOK, Undisturbed
  <2> QED BY <2>1, <2>4, <2>5
<1>7. CASE ReadTicket(m)
  <2>1. message'[m] = [pc |-> "refresh", cards |-> ticket.cards] /\ UNCHANGED <<ticket, heard, torn, faults>>
    BY <1>7 DEF ReadTicket, SupportInv, SupportTypeOK
  <2>2. Undisturbed => m \in heard \/ Admins \subseteq ticket.cards
    BY <1>7 DEF ReadTicket, SupportInv, OnItsWay
  <2> QED BY <2>1, <2>2 DEF SupportInv, SupportTypeOK, Undisturbed
<1>8. CASE RefreshForMessage(m)
  <2>1. message'[m] = [pc |-> "notify"] /\ heard' = heard /\ message[m].cards \in SUBSET Admins
    BY <1>8 DEF RefreshForMessage, SupportInv, SupportTypeOK
  <2>2. /\ ticket' = [status |-> ticket.status, owner |-> ticket.owner, cards |-> ticket'.cards]
        /\ ticket'.cards \subseteq Admins /\ faults' \in Nat /\ torn' \in BOOLEAN
        /\ Undisturbed' => Undisturbed /\ ticket.cards \subseteq ticket'.cards
    BY <1>8, <2>1, CardsReplaced DEF RefreshForMessage
  <2>3. Undisturbed => m \in heard \/ Admins \subseteq ticket.cards
    BY <1>8 DEF RefreshForMessage, SupportInv, OnItsWay
  <2> QED BY <2>1, <2>2, <2>3
<1>9. CASE NotifyAdmins(m)
  <2>1. message'[m] = [pc |-> "accepted"] /\ UNCHANGED <<ticket, torn>>
    BY <1>9 DEF NotifyAdmins, SupportInv, SupportTypeOK
  <2>2. PICK refused \in SUBSET Targets :
          Fault(Cardinality(refused)) /\ heard' = (IF Targets = refused THEN heard ELSE heard \union {m})
    BY <1>9 DEF NotifyAdmins
  <2>3. IsFiniteSet(Targets)
    BY AdminsAreFinite, FS_EmptySet, FS_Singleton DEF Targets
  <2>4. IsFiniteSet(refused) BY <2>3, FS_Subset
  <2>5. faults' \in Nat /\ (faults' = 0 => faults = 0 /\ refused = {})
    BY <2>2, <2>4, FaultsCount DEF SupportInv, SupportTypeOK
  <2>6. Undisturbed => m \in heard \/ Admins \subseteq ticket.cards
    BY <1>9 DEF NotifyAdmins, SupportInv, OnItsWay
  <2>7. Admins \subseteq ticket.cards => Targets # {}
    BY AdminsAreFinite DEF Targets
  <2> QED BY <2>1, <2>2, <2>5, <2>6, <2>7 DEF SupportInv, SupportTypeOK, Undisturbed
<1> QED BY <1>5, <1>6, <1>7, <1>8, <1>9

(* A step of an administrator's handler leaves the others and the messages  *)
(* alone.                                                                   *)
LEMMA DeskFrame ==
    ASSUME SupportInv, NEW a \in Admins, NEW t,
           desk' = [desk EXCEPT ![a] = t], WellJudged(a, t),
           UNCHANGED <<message, heard>>,
           ticket' = [status |-> ticket'.status, owner |-> ticket'.owner, cards |-> ticket'.cards],
           ticket'.cards \subseteq Admins, faults' \in Nat, torn' \in BOOLEAN,
           Undisturbed' => Undisturbed /\ ticket.cards \subseteq ticket'.cards
    PROVE  SupportInv'
<1>1. /\ desk' = [b \in Admins |-> desk'[b]] /\ desk'[a] = t
      /\ \A b \in Admins \ {a} : desk'[b] = desk[b]
  BY DEF SupportInv, SupportTypeOK
<1>2. SupportTypeOK' BY <1>1 DEF SupportInv, SupportTypeOK
<1>3. Judged'
  <2>1. \A b \in Admins : WellJudged(b, desk'[b])
    BY <1>1 DEF SupportInv, Judged
  <2> QED BY <2>1 DEF Judged, WellJudged, ToWrite, ToSend, Owned
<1>4. OnItsWay' BY DEF SupportInv, OnItsWay
<1> QED BY <1>2, <1>3, <1>4 DEF SupportInv

(* What a handler that starts has read, by what it is about to do. *)
LEMMA StartStep ==
    ASSUME SupportInv, NEW a \in Admins, NEW act \in DeskActs, NEW to \in Admins, NEW allowed,
           Start(a, act, to, allowed),
           act # "transfer" => ticket.owner \in {NoOwner, a},
           act \in {"take", "reply", "answer"} => ticket.status # "closed"
    PROVE  SupportInv'
<1> DEFINE t == [pc |-> "write", act |-> act, to |-> to,
                 saw |-> [status |-> ticket.status, owner |-> ticket.owner]]
<1>1. desk' = [desk EXCEPT ![a] = t] /\ UNCHANGED <<message, heard, ticket, torn, faults>>
  BY DEF Start
<1>2. WellJudged(a, t) BY DEF WellJudged, ToWrite
<1> HIDE DEF t
<1> QED BY <1>1, <1>2, DeskFrame DEF SupportInv, SupportTypeOK, Undisturbed

LEMMA StartSteps ==
    ASSUME SupportInv, NEW a \in Admins,
           \/ SupportTake(a) \/ SupportReply(a) \/ SupportClose(a)
           \/ \E b \in Admins : SupportTransferTo(a, b)
           \/ AnswerCard(a) \/ AdminReplyInput(a)
    PROVE  SupportInv'
<1>1. CASE SupportTake(a)
  <2>1. Start(a, "take", a, MayHandle(a)) /\ MayHandle(a) BY <1>1 DEF SupportTake, Start
  <2> QED BY <2>1, StartStep DEF MayHandle, DeskActs
<1>2. CASE SupportReply(a)
  <2>1. Start(a, "reply", a, MayHandle(a)) /\ MayHandle(a) BY <1>2 DEF SupportReply, Start
  <2> QED BY <2>1, StartStep DEF MayHandle, DeskActs
<1>3. CASE SupportClose(a)
  <2>1. Start(a, "close", a, MayHandle(a)) /\ MayHandle(a) BY <1>3 DEF SupportClose, Start
  <2> QED BY <2>1, StartStep DEF MayHandle, DeskActs
<1>4. ASSUME NEW b \in Admins, SupportTransferTo(a, b) PROVE SupportInv'
  <2>1. Start(a, "transfer", b, ticket.owner = a) BY <1>4 DEF SupportTransferTo
  <2> QED BY <2>1, StartStep DEF DeskActs
<1>5. CASE AnswerCard(a)
  <2>1. Start(a, "answer", a, MayHandle(a)) /\ MayHandle(a) BY <1>5 DEF AnswerCard, Start
  <2> QED BY <2>1, StartStep DEF MayHandle, DeskActs
<1>6. CASE AdminReplyInput(a)
  <2>1. Start(a, "input", a, ticket.owner \in {NoOwner, a}) /\ ticket.owner \in {NoOwner, a}
    BY <1>6 DEF AdminReplyInput, Start
  <2> QED BY <2>1, StartStep DEF DeskActs
<1> QED BY <1>1, <1>2, <1>3, <1>4, <1>5, <1>6

(* The handler writes the ticket: AssignTicket, TransferTicket, CloseTicket,*)
(* RegisterAdminReply.  The cards stay.                                     *)
LEMMA WriteSteps ==
    ASSUME SupportInv, NEW a \in Admins,
           AssignTicket(a) \/ TransferTicket(a) \/ CloseTicket(a) \/ RegisterAdminReply(a)
    PROVE  SupportInv'
<1>1. PICK act : desk' = Written(a, act) /\ (act = "transfer" => TransferTicket(a))
  BY DEF AssignTicket, TransferTicket, CloseTicket, RegisterAdminReply
<1> DEFINE t == [pc |-> "cards", act |-> act, cards |-> ticket.cards,
                 to |-> IF act = "transfer" THEN desk[a].to ELSE a]
<1>2. desk' = [desk EXCEPT ![a] = t] BY <1>1 DEF Written
<1>3. act = "transfer" => desk[a].to \in Admins
  BY <1>1 DEF TransferTicket, SupportInv, Judged, WellJudged
<1>4. WellJudged(a, t) BY <1>3 DEF WellJudged, SupportInv, SupportTypeOK
<1>5. UNCHANGED <<message, heard, torn, faults>>
  BY DEF AssignTicket, TransferTicket, CloseTicket, RegisterAdminReply
<1>6. ticket' = [status |-> ticket'.status, owner |-> ticket'.owner, cards |-> ticket.cards]
  <2>1. ticket = [status |-> ticket.status, owner |-> ticket.owner, cards |-> ticket.cards]
    BY DEF SupportInv, SupportTypeOK
  <2>2. CASE AssignTicket(a) \/ RegisterAdminReply(a)
    BY <2>1, <2>2 DEF AssignTicket, RegisterAdminReply
  <2>3. CASE TransferTicket(a)
    BY <2>1, <2>3 DEF TransferTicket
  <2>4. CASE CloseTicket(a)
    BY <2>1, <2>4 DEF CloseTicket
  <2> QED BY <2>2, <2>3, <2>4
<1>7. ticket'.cards = ticket.cards BY <1>6
<1> HIDE DEF t
<1> QED BY <1>2, <1>4, <1>5, <1>6, <1>7, DeskFrame DEF SupportInv, SupportTypeOK, Undisturbed

(* The answer goes out, the cards are stored, the new owner is told. *)
LEMMA SendStep ==
    ASSUME SupportInv, NEW a \in Admins, SendAdminReply(a)
    PROVE  SupportInv'
<1>1. UNCHANGED <<ticket, message, heard, torn>> BY DEF SendAdminReply
<1>2. CASE desk' = [desk EXCEPT ![a].pc = "register"] /\ UNCHANGED faults
  <2> DEFINE t == [desk[a] EXCEPT !.pc = "register"]
  <2>1. desk' = [desk EXCEPT ![a] = t] BY <1>2 DEF SupportInv, SupportTypeOK
  <2>2. WellJudged(a, desk[a]) BY DEF SupportInv, Judged
  <2>3. t.pc = "register" /\ t.act = desk[a].act /\ t.saw = desk[a].saw
    <3>1. CASE desk[a].pc = "write"
      <4>1. ASSUME NEW s, NEW u, ToWrite(s), u = [s EXCEPT !.pc = "register"]
            PROVE  u.pc = "register" /\ u.act = s.act /\ u.saw = s.saw
        BY <4>1 DEF ToWrite
      <4> QED BY <2>2, <3>1, <4>1 DEF WellJudged
    <3>2. CASE desk[a].pc = "send"
      <4>1. ASSUME NEW s, NEW u, ToSend(s), u = [s EXCEPT !.pc = "register"]
            PROVE  u.pc = "register" /\ u.act = s.act /\ u.saw = s.saw
        BY <4>1 DEF ToSend
      <4> QED BY <2>2, <3>2, <4>1 DEF WellJudged
    <3> QED BY <3>1, <3>2 DEF SendAdminReply
  <2> HIDE DEF t
  <2>4. desk[a].saw.owner \in {NoOwner, a} /\ (desk[a].saw.status # "closed" \/ desk[a].act = "input")
    <3>1. CASE desk[a].pc = "write" /\ desk[a].act = "input"
      BY <2>2, <3>1 DEF WellJudged
    <3>2. CASE desk[a].pc = "send"
      BY <2>2, <3>2 DEF WellJudged, Owned
    <3> QED BY <3>1, <3>2 DEF SendAdminReply
  <2>5. WellJudged(a, t) BY <2>3, <2>4 DEF WellJudged
  <2> QED BY <1>1, <1>2, <2>1, <2>5, DeskFrame DEF SupportInv, SupportTypeOK, Undisturbed
<1>3. CASE Fault(1) /\ desk' = [desk EXCEPT ![a] = NoTask]
  <2>1. faults' \in Nat /\ faults' # 0 BY <1>3 DEF Fault, SupportInv, SupportTypeOK
  <2>2. WellJudged(a, NoTask) BY DEF WellJudged, NoTask
  <2> QED BY <1>1, <1>3, <2>1, <2>2, DeskFrame DEF SupportInv, SupportTypeOK, Undisturbed
<1> QED BY <1>2, <1>3 DEF SendAdminReply

LEMMA CardsStep ==
    ASSUME SupportInv, NEW a \in Admins, RefreshAdminCards(a)
    PROVE  SupportInv'
<1>1. desk[a].cards \in SUBSET Admins /\ desk[a].to \in Admins
  BY DEF RefreshAdminCards, SupportInv, Judged, WellJudged
<1>2. /\ ticket' = [status |-> ticket.status, owner |-> ticket.owner, cards |-> ticket'.cards]
      /\ ticket'.cards \subseteq Admins /\ faults' \in Nat /\ torn' \in BOOLEAN
      /\ Undisturbed' => Undisturbed /\ ticket.cards \subseteq ticket'.cards
  BY <1>1, CardsReplaced DEF RefreshAdminCards
<1>3. PICK t \in {[pc |-> "send", act |-> desk[a].act, saw |-> Owned(a)],
                  [pc |-> "tell", to |-> desk[a].to], NoTask} :
        desk' = [desk EXCEPT ![a] = t]
  BY DEF RefreshAdminCards
<1>4. WellJudged(a, t)
  BY <1>1, <1>3 DEF WellJudged, NoTask, ToSend
<1>5. UNCHANGED <<message, heard>> BY DEF RefreshAdminCards
<1>6. ticket' = [status |-> ticket'.status, owner |-> ticket'.owner, cards |-> ticket'.cards]
  BY <1>2
<1> QED BY <1>2, <1>3, <1>4, <1>5, <1>6, DeskFrame

LEMMA TellStep ==
    ASSUME SupportInv, NEW a \in Admins, NotifyAdminTransfer(a)
    PROVE  SupportInv'
<1>1. desk[a].to \in Admins BY DEF NotifyAdminTransfer, SupportInv, Judged, WellJudged
<1>2. desk' = [desk EXCEPT ![a] = NoTask] /\ UNCHANGED <<message, heard, torn>>
  BY DEF NotifyAdminTransfer
<1>3. WellJudged(a, NoTask) BY DEF WellJudged, NoTask
<1>4. CASE ticket' = [ticket EXCEPT !.cards = @ \union {desk[a].to}] /\ UNCHANGED faults
  <2>1. ticket' = [status |-> ticket.status, owner |-> ticket.owner,
                   cards |-> ticket.cards \union {desk[a].to}]
    BY <1>4 DEF SupportInv, SupportTypeOK
  <2>2. ticket'.cards \subseteq Admins /\ ticket.cards \subseteq ticket'.cards
    BY <1>1, <2>1 DEF SupportInv, SupportTypeOK
  <2> QED BY <1>2, <1>3, <1>4, <2>1, <2>2, DeskFrame DEF SupportInv, SupportTypeOK, Undisturbed
<1>5. CASE Fault(1) /\ UNCHANGED ticket
  <2>1. faults' \in Nat /\ faults' # 0 BY <1>5 DEF Fault, SupportInv, SupportTypeOK
  <2> QED BY <1>2, <1>3, <1>5, <2>1, DeskFrame DEF SupportInv, SupportTypeOK, Undisturbed
<1> QED BY <1>4, <1>5 DEF NotifyAdminTransfer

LEMMA RestartStep ==
    ASSUME SupportInv, RestartSupportBot
    PROVE  SupportInv'
<1>1. faults' \in Nat /\ faults' # 0 BY DEF RestartSupportBot, Fault, SupportInv, SupportTypeOK
<1>2. UNCHANGED <<ticket, torn>> /\ desk' = [a \in Admins |-> NoTask] BY DEF RestartSupportBot
<1>3. /\ message' = [m \in Messages |-> message'[m]]
      /\ \A m \in Messages : message'[m] = message[m] \/ message'[m] = [pc |-> "dropped"]
  BY DEF RestartSupportBot
<1>4. SupportTypeOK' BY <1>1, <1>2, <1>3 DEF SupportInv, SupportTypeOK
<1>5. Judged' BY <1>2 DEF Judged, WellJudged, NoTask
<1>6. OnItsWay' BY <1>1 DEF OnItsWay, Undisturbed
<1> QED BY <1>2, <1>4, <1>5, <1>6 DEF SupportInv

LEMMA SupportInvNext == SupportInv /\ [SupportNext]_supportVars => SupportInv'
<1> SUFFICES ASSUME SupportInv, [SupportNext]_supportVars PROVE SupportInv'
  OBVIOUS
<1>1. ASSUME NEW m \in Messages,
             \/ RegisterUserMessage(m) \/ PushTicketToAdmin(m) \/ ReadTicket(m)
             \/ RefreshForMessage(m) \/ NotifyAdmins(m)
      PROVE  SupportInv'
  BY <1>1, MessageStep
<1>2. ASSUME NEW a \in Admins,
             \/ SupportTake(a) \/ SupportReply(a) \/ SupportClose(a)
             \/ \E b \in Admins : SupportTransferTo(a, b)
             \/ AnswerCard(a) \/ AdminReplyInput(a)
      PROVE  SupportInv'
  BY <1>2, StartSteps
<1>3. ASSUME NEW a \in Admins, AdminReplyRefused(a) \/ CancelReply(a) PROVE SupportInv'
  BY <1>3 DEF AdminReplyRefused, CancelReply, SupportInv, SupportTypeOK, Judged, WellJudged,
              ToWrite, ToSend, Owned, OnItsWay, Undisturbed
<1>4. ASSUME NEW a \in Admins,
             AssignTicket(a) \/ TransferTicket(a) \/ CloseTicket(a) \/ RegisterAdminReply(a)
      PROVE  SupportInv'
  BY <1>4, WriteSteps
<1>5. ASSUME NEW a \in Admins, SendAdminReply(a) \/ RefreshAdminCards(a) \/ NotifyAdminTransfer(a)
      PROVE  SupportInv'
  BY <1>5, SendStep, CardsStep, TellStep
<1>6. CASE RestartSupportBot BY <1>6, RestartStep
<1>7. CASE UNCHANGED supportVars
  BY <1>7 DEF supportVars, SupportInv, SupportTypeOK, Judged, WellJudged, ToWrite, ToSend, Owned,
              OnItsWay, Undisturbed
<1> QED BY <1>1, <1>2, <1>3, <1>4, <1>5, <1>6, <1>7 DEF SupportNext

LEMMA SupportIsInvariant == SupportSpec => []SupportInv
  BY SupportInvInit, SupportInvNext, PTL DEF SupportSpec

(* For any administrators and messages, a message that is reported as       *)
(* passed on reached one of them, whatever handlers of theirs went between  *)
(* the card, its refresh and the note: _push_ticket_to_admins leaves none   *)
(* without a card who could have one, and cards go only with a refusal or a *)
(* stale list.                                                              *)
THEOREM MessagesReachTheDesk == SupportSpec => []MessagesAreHeard
<1>1. SupportInv => MessagesAreHeard
  BY DEF SupportInv, SupportTypeOK, OnItsWay, Undisturbed, MessagesAreHeard
<1> QED BY <1>1, SupportIsInvariant, PTL
-----------------------------------------------------------------------------
(* How the ticket changes hands, and who does it. *)
TicketStays == ticket'.status = ticket.status /\ ticket'.owner = ticket.owner
ByUser ==
    /\ \E m \in Messages : message[m].pc = "unsent" /\ message'[m].pc = "push"
    /\ ticket.status \in {"none", "closed"} /\ ticket'.status = "new" /\ ticket'.owner = NoOwner
ByAdmin(a) ==
    /\ Acting(a)
    /\ \/ /\ ticket'.status = "in_progress" /\ ticket'.owner = a
          /\ desk[a].saw.owner \in {NoOwner, a}
          /\ desk[a].saw.status # "closed" \/ desk[a].act = "input"
       \/ desk[a].act = "transfer" /\ ticket'.status = "in_progress"
       \/ ticket'.status = "closed" /\ ticket'.owner = ticket.owner

LEMMA TicketMoves ==
    ASSUME SupportInv, [SupportNext]_supportVars
    PROVE  TicketStays \/ ByUser \/ \E a \in Admins : ByAdmin(a)
<1>1. ticket = [status |-> ticket.status, owner |-> ticket.owner, cards |-> ticket.cards]
  BY DEF SupportInv, SupportTypeOK
<1>2. ASSUME NEW c, ticket' = [ticket EXCEPT !.cards = c] PROVE TicketStays
  BY <1>1, <1>2 DEF TicketStays
<1>3. ASSUME NEW s, NEW o, ticket' = [ticket EXCEPT !.status = s, !.owner = o]
      PROVE  ticket'.status = s /\ ticket'.owner = o
  BY <1>1, <1>3
<1>4. ASSUME NEW m \in Messages, RegisterUserMessage(m) PROVE TicketStays \/ ByUser
  <2>1. /\ message[m].pc = "unsent"
        /\ message' = [message EXCEPT ![m] = [pc |-> "push", todo |-> Admins \ ticket.cards]]
        /\ \/ ticket' = ticket
           \/ /\ ticket.status \in {"none", "closed"}
              /\ ticket' = [ticket EXCEPT !.status = "new", !.owner = NoOwner]
    BY <1>4 DEF RegisterUserMessage
  <2>2. message'[m].pc = "push" BY <2>1 DEF SupportInv, SupportTypeOK
  <2>3. CASE ticket' = ticket BY <2>3 DEF TicketStays
  <2>4. CASE /\ ticket.status \in {"none", "closed"}
             /\ ticket' = [ticket EXCEPT !.status = "new", !.owner = NoOwner]
    <3>1. ticket'.status = "new" /\ ticket'.owner = NoOwner BY <1>3, <2>4
    <3> QED BY <2>1, <2>2, <2>4, <3>1 DEF ByUser
  <2> QED BY <2>1, <2>3, <2>4
<1>5. ASSUME NEW m \in Messages, PushTicketToAdmin(m) \/ RefreshForMessage(m) PROVE TicketStays
  BY <1>2, <1>5 DEF PushTicketToAdmin, RefreshForMessage, ReplaceAdminCards, TicketStays
<1>6. ASSUME NEW a \in Admins, RefreshAdminCards(a) \/ NotifyAdminTransfer(a) PROVE TicketStays
  BY <1>2, <1>6 DEF RefreshAdminCards, NotifyAdminTransfer, ReplaceAdminCards, TicketStays
<1>7. ASSUME NEW a \in Admins,
             AssignTicket(a) \/ TransferTicket(a) \/ CloseTicket(a) \/ RegisterAdminReply(a)
      PROVE  ByAdmin(a)
  <2>1. desk[a].pc \in {"write", "register"} /\ \E act : desk' = Written(a, act)
    BY <1>7 DEF AssignTicket, TransferTicket, CloseTicket, RegisterAdminReply
  <2>2. desk'[a].pc = "cards" BY <2>1 DEF Written, SupportInv, SupportTypeOK
  <2>3. Acting(a) BY <2>1, <2>2 DEF Acting
  <2>4. WellJudged(a, desk[a]) BY DEF SupportInv, Judged
  <2>5. CASE AssignTicket(a)
    <3>1. /\ ticket' = [ticket EXCEPT !.status = "in_progress", !.owner = a]
          /\ desk[a].pc = "write" /\ desk[a].act \in {"take", "reply", "answer"}
      BY <2>5 DEF AssignTicket
    <3> QED BY <1>3, <2>3, <2>4, <3>1 DEF ByAdmin, WellJudged
  <2>6. CASE TransferTicket(a)
    <3>1. /\ ticket' = [ticket EXCEPT !.status = "in_progress", !.owner = desk[a].to]
          /\ desk[a].act = "transfer"
      BY <2>6 DEF TransferTicket
    <3> QED BY <1>3, <2>3, <3>1 DEF ByAdmin
  <2>7. CASE CloseTicket(a)
    <3>1. ticket'.status = "closed" /\ ticket'.owner = ticket.owner
      BY <1>1, <2>7 DEF CloseTicket
    <3> QED BY <2>3, <3>1 DEF ByAdmin
  <2>8. CASE RegisterAdminReply(a)
    <3>1. /\ ticket' = [ticket EXCEPT !.status = "in_progress", !.owner = a]
          /\ desk[a].pc = "register"
      BY <2>8 DEF RegisterAdminReply
    <3> QED BY <1>3, <2>3, <2>4, <3>1 DEF ByAdmin, WellJudged
  <2> QED BY <1>7, <2>5, <2>6, <2>7, <2>8
<1>8. CASE UNCHANGED ticket BY <1>8 DEF TicketStays
<1>9. \/ UNCHANGED ticket
      \/ \E m \in Messages : RegisterUserMessage(m) \/ PushTicketToAdmin(m) \/ RefreshForMessage(m)
      \/ \E a \in Admins : \/ RefreshAdminCards(a) \/ NotifyAdminTransfer(a)
                           \/ AssignTicket(a) \/ TransferTicket(a) \/ CloseTicket(a) \/ RegisterAdminReply(a)
  BY DEF SupportNext, supportVars, ReadTicket, NotifyAdmins, SupportTake, SupportReply, SupportClose,
         SupportTransferTo, AnswerCard, AdminReplyInput, Start, AdminReplyRefused, CancelReply,
         SendAdminReply, RestartSupportBot
<1> QED BY <1>4, <1>5, <1>6, <1>7, <1>8, <1>9

(* For any administrators and any order of their handlers, nobody takes an  *)
(* open ticket from its owner but by a judgement made before it was his,    *)
(* and nobody opens a closed one but by what was read of it while it was    *)
(* open, by a transfer or by an answer begun before: take, reply and the    *)
(* answers judge before they write.                                         *)
THEOREM OwnersAreAskedFirst == SupportSpec => OwnersAreAsked
<1> DEFINE Unowned == ticket.status = "none" => ticket.owner = NoOwner
           Inv == SupportInv /\ Unowned
<1>1. SupportInit => Inv
  BY SupportInvInit DEF SupportInit, Unread
<1>2. Inv /\ [SupportNext]_supportVars => Inv'
  <2>1. Inv /\ [SupportNext]_supportVars => Unowned'
    BY TicketMoves DEF TicketStays, ByUser, ByAdmin
  <2> QED BY <2>1, SupportInvNext
<1>3. Inv /\ [SupportNext]_supportVars => [OwnerIsAsked /\ ClosedIsKept]_supportVars
  <2> SUFFICES ASSUME Inv, [SupportNext]_supportVars PROVE OwnerIsAsked /\ ClosedIsKept
    OBVIOUS
  <2>1. CASE TicketStays BY <2>1 DEF TicketStays, OwnerIsAsked, ClosedIsKept
  <2>2. CASE ByUser BY <2>2, SupportAssumption DEF ByUser, OwnerIsAsked, ClosedIsKept
  <2>3. ASSUME NEW a \in Admins, ByAdmin(a) PROVE OwnerIsAsked /\ ClosedIsKept
    BY <2>3, SupportAssumption DEF ByAdmin, OwnerIsAsked, ClosedIsKept
  <2> QED BY <2>1, <2>2, <2>3, TicketMoves
<1> QED BY <1>1, <1>2, <1>3, PTL DEF SupportSpec, OwnersAreAsked

-----------------------------------------------------------------------------
(* Campaigns.  A dispatch that only looks at its campaign, and one that has *)
(* its deliveries in hand.                                                  *)
CampaignRow ==
    [kind : {"user", "test", "trigger"}, status : {"queued", "scheduled", "processing", "completed"},
     audience : SUBSET Subscribers, later : BOOLEAN]
DeliveryRow ==
    [of : Nat, to : Subscribers \union {Owner}, status : {"queued", "sent", "failed"}, copies : Nat]
Looks == {"fetch", "list", "make"}
Sends == {"start", "next", "sent", "failed", "count"}
Looking(t) == t = [pc |-> t.pc, campaign |-> t.campaign, todo |-> t.todo, stage |-> t.stage]
Sending(t) == t = [pc |-> t.pc, campaign |-> t.campaign, todo |-> t.todo, stage |-> t.stage,
                   left |-> t.left]
Numbers == DOMAIN campaigns
Placed(w, t) ==
    /\ t.pc \in {"idle", "rules"} \union Looks \union Sends
    /\ t.pc = "rules" => w = Timer
    /\ t.pc \in Looks => Looking(t)
    /\ t.pc \in Sends => Sending(t) /\ t.left \subseteq Of(t.campaign)
    /\ t.pc \in {"sent", "failed"} => t.left # {}
    /\ t.pc \in Looks \union Sends =>
          /\ t.campaign \in Numbers /\ t.todo \subseteq Numbers
          /\ IF w = Timer THEN t.stage \in {"scheduled", "trigger"}
             ELSE t.stage \in {"form", "rule"} /\ t.todo = {}

BroadcastTypeOK ==
    /\ campaigns \in Seq(CampaignRow) /\ deliveries \in Seq(DeliveryRow)
    /\ \A d \in DOMAIN deliveries : deliveries[d].of \in Numbers
    /\ work = [w \in Workers |-> work[w]]
    /\ \A w \in Workers : Placed(w, work[w])
    /\ draft \in BOOLEAN /\ logged \in BOOLEAN

(* A list of an audience names everybody in it once. *)
LEMMA ListOfSet ==
    ASSUME NEW S, IsFiniteSet(S)
    PROVE  /\ Cardinality(S) \in Nat /\ SetToSeq(S) \in [1..Cardinality(S) -> S]
           /\ \A i, j \in 1..Cardinality(S) : SetToSeq(S)[i] = SetToSeq(S)[j] => i = j
<1>1. Cardinality(S) \in Nat /\ ExistsBijection(1..Cardinality(S), S)
  BY FS_CardinalityType
<1>2. \E f \in [1..Cardinality(S) -> S] : IsInjective(f)
  BY <1>1 DEF ExistsBijection, Bijection, Injection
<1>3. SetToSeq(S) \in [1..Cardinality(S) -> S] /\ IsInjective(SetToSeq(S))
  BY <1>2 DEF SetToSeq
<1> QED BY <1>1, <1>3 DEF IsInjective

(* The deliveries one dispatch makes. *)
Made(w) ==
    [i \in 1..Cardinality(Recipients(w)) |->
        [of |-> work[w].campaign, to |-> SetToSeq(Recipients(w))[i], status |-> "queued",
         copies |-> 0]]

LEMMA MadeIsWhole ==
    ASSUME BroadcastTypeOK, NEW w \in Workers, Doing(w, "make")
    PROVE  /\ Made(w) \in Seq(DeliveryRow) /\ Len(Made(w)) \in Nat
           /\ \A i \in 1..Len(Made(w)) :
                 /\ Made(w)[i].of = work[w].campaign /\ Made(w)[i].copies = 0
                 /\ Made(w)[i].to \in Recipients(w)
           /\ \A i, j \in 1..Len(Made(w)) : Made(w)[i].to = Made(w)[j].to => i = j
<1> DEFINE S == Recipients(w)  n == Cardinality(S)
<1>1. work[w].campaign \in Nat /\ campaigns[work[w].campaign] \in CampaignRow
  BY DEF BroadcastTypeOK, Placed, Doing, Looks, Numbers
<1>2. S \subseteq Subscribers \union {Owner} /\ IsFiniteSet(S)
  <2>1. CASE Tester(w) BY <2>1, FS_Singleton DEF Recipients
  <2>2. CASE ~Tester(w)
    <3>1. S \in SUBSET Subscribers BY <1>1, <2>2 DEF Recipients, CampaignRow
    <3> QED BY <3>1, BroadcastAssumption, FS_Subset
  <2> QED BY <2>1, <2>2
<1> HIDE DEF S
<1>3. /\ n \in Nat /\ SetToSeq(S) \in [1..n -> S]
      /\ \A i, j \in 1..n : SetToSeq(S)[i] = SetToSeq(S)[j] => i = j
  BY <1>2, ListOfSet
<1> DEFINE row(i) == [of |-> work[w].campaign, to |-> SetToSeq(S)[i], status |-> "queued",
                      copies |-> 0]
<1>4. Made(w) = [i \in 1..n |-> row(i)] BY DEF Made, S
<1>5. \A i \in 1..n : row(i) \in DeliveryRow BY <1>1, <1>2, <1>3 DEF DeliveryRow
<1> HIDE DEF n
<1>6. Made(w) \in Seq(DeliveryRow) /\ Len(Made(w)) = n
  <2> HIDE DEF row
  <2> QED BY <1>3, <1>4, <1>5
<1>7. \A i \in 1..n : SetToSeq(S)[i] \in S BY <1>3
<1> QED BY <1>3, <1>4, <1>6, <1>7 DEF S

LEMMA BroadcastTypeInit == BroadcastInit => BroadcastTypeOK
<1> SUFFICES ASSUME BroadcastInit PROVE BroadcastTypeOK
  OBVIOUS
<1>1. campaigns \in Seq(CampaignRow) /\ deliveries \in Seq(DeliveryRow) /\ DOMAIN deliveries = {}
  BY DEF BroadcastInit
<1>2. \A w \in Workers : work[w].pc = "idle"
  BY DEF BroadcastInit, Resting
<1> QED BY <1>1, <1>2 DEF BroadcastInit, BroadcastTypeOK, Placed, Looks, Sends

(* What a worker does next concerns no other worker. *)
LEMMA WorkSet ==
    ASSUME BroadcastTypeOK, NEW w \in Workers, NEW t, work' = [work EXCEPT ![w] = t]
    PROVE  /\ work' = [v \in Workers |-> work'[v]] /\ work'[w] = t
           /\ \A v \in Workers : v # w => work'[v] = work[v]
  BY DEF BroadcastTypeOK

(* Campaigns and deliveries are added, and keep what they are about. *)
CampaignsKept ==
    /\ campaigns' \in Seq(CampaignRow)
    /\ \A c \in Numbers : c \in Numbers' /\ campaigns'[c].kind = campaigns[c].kind
DeliveriesKept ==
    /\ deliveries' \in Seq(DeliveryRow)
    /\ \A d \in DOMAIN deliveries :
          /\ d \in DOMAIN deliveries' /\ deliveries'[d].of = deliveries[d].of
          /\ deliveries'[d].to = deliveries[d].to

LEMMA CampaignAdded ==
    ASSUME BroadcastTypeOK, NEW c \in CampaignRow, campaigns' = Append(campaigns, c)
    PROVE  /\ CampaignsKept /\ Numbers' = Numbers \union {Len(campaigns) + 1}
           /\ campaigns'[Len(campaigns) + 1] = c /\ Len(campaigns) + 1 \notin Numbers
           /\ Len(campaigns) \in Nat
<1>1. campaigns \in Seq(CampaignRow) BY DEF BroadcastTypeOK
<1>2. /\ campaigns' \in Seq(CampaignRow) /\ Len(campaigns') = Len(campaigns) + 1 /\ Len(campaigns) \in Nat
      /\ \A i \in 1..Len(campaigns) : campaigns'[i] = campaigns[i]
      /\ campaigns'[Len(campaigns) + 1] = c
  BY <1>1
<1>3. DOMAIN campaigns = 1..Len(campaigns) /\ DOMAIN campaigns' = 1..(Len(campaigns) + 1)
  BY <1>1, <1>2
<1> QED BY <1>2, <1>3 DEF CampaignsKept, Numbers

LEMMA CampaignSet ==
    ASSUME BroadcastTypeOK, NEW c, NEW s \in {"queued", "scheduled", "processing", "completed"},
           campaigns' = [campaigns EXCEPT ![c].status = s] \/ campaigns' = [campaigns EXCEPT ![c].later = FALSE]
    PROVE  CampaignsKept /\ Numbers' = Numbers
<1>1. campaigns \in Seq(CampaignRow) BY DEF BroadcastTypeOK
<1>2. DOMAIN campaigns' = DOMAIN campaigns /\ Len(campaigns) \in Nat /\ DOMAIN campaigns = 1..Len(campaigns)
  BY <1>1
<1>3. ASSUME NEW i \in Numbers
      PROVE  campaigns'[i] \in CampaignRow /\ campaigns'[i].kind = campaigns[i].kind
  <2>1. campaigns[i] \in CampaignRow BY <1>1, <1>3, <1>2 DEF Numbers
  <2>2. \/ campaigns'[i] = campaigns[i]
        \/ campaigns'[i] = [campaigns[i] EXCEPT !.status = s]
        \/ campaigns'[i] = [campaigns[i] EXCEPT !.later = FALSE]
    BY <1>2, <1>3 DEF Numbers
  <2> QED BY <2>1, <2>2 DEF CampaignRow
<1>4. campaigns' = [i \in 1..Len(campaigns) |-> campaigns'[i]]
  BY <1>1, <1>2
<1>5. campaigns' \in Seq(CampaignRow)
  BY <1>2, <1>3, <1>4 DEF Numbers
<1> QED BY <1>2, <1>3, <1>5 DEF CampaignsKept, Numbers

LEMMA DeliverySet ==
    ASSUME BroadcastTypeOK, NEW d \in DOMAIN deliveries, NEW s \in {"queued", "sent", "failed"},
           \/ deliveries' = [deliveries EXCEPT ![d].status = s]
           \/ deliveries' = [deliveries EXCEPT ![d].copies = @ + 1]
    PROVE  /\ DeliveriesKept /\ DOMAIN deliveries' = DOMAIN deliveries
           /\ \A e \in DOMAIN deliveries : e # d => deliveries'[e] = deliveries[e]
           /\ deliveries' = [deliveries EXCEPT ![d].status = s] =>
                 deliveries'[d].status = s /\ deliveries'[d].copies = deliveries[d].copies
           /\ deliveries' = [deliveries EXCEPT ![d].copies = @ + 1] =>
                 /\ deliveries'[d].status = deliveries[d].status
                 /\ deliveries'[d].copies = deliveries[d].copies + 1
<1>1. deliveries \in Seq(DeliveryRow) BY DEF BroadcastTypeOK
<1>2. /\ DOMAIN deliveries' = DOMAIN deliveries /\ Len(deliveries) \in Nat
      /\ DOMAIN deliveries = 1..Len(deliveries)
  BY <1>1
<1>3. \A e \in DOMAIN deliveries : deliveries[e] \in DeliveryRow
  BY <1>1, <1>2
<1>4. \A e \in DOMAIN deliveries : e # d => deliveries'[e] = deliveries[e]
  BY <1>2
<1>5. /\ deliveries' = [deliveries EXCEPT ![d].status = s] => deliveries'[d] = [deliveries[d] EXCEPT !.status = s]
      /\ deliveries' = [deliveries EXCEPT ![d].copies = @ + 1] =>
            deliveries'[d] = [deliveries[d] EXCEPT !.copies = @ + 1]
  BY <1>2
<1>6. ASSUME NEW u \in DeliveryRow, NEW v,
             v = [u EXCEPT !.status = s] \/ v = [u EXCEPT !.copies = @ + 1]
      PROVE  v \in DeliveryRow /\ v.of = u.of /\ v.to = u.to
  BY <1>6 DEF DeliveryRow
<1>7. /\ deliveries'[d] \in DeliveryRow /\ deliveries'[d].of = deliveries[d].of
      /\ deliveries'[d].to = deliveries[d].to
  BY <1>3, <1>5, <1>6
<1>8. deliveries' = [i \in 1..Len(deliveries) |-> deliveries'[i]]
  BY <1>1, <1>2
<1>9. deliveries' \in Seq(DeliveryRow)
  <2>1. \A i \in 1..Len(deliveries) : deliveries'[i] \in DeliveryRow
    BY <1>2, <1>3, <1>4, <1>7
  <2> QED BY <1>2, <1>8, <2>1
<1>10. DeliveriesKept BY <1>2, <1>4, <1>7, <1>9 DEF DeliveriesKept
<1>11. ASSUME NEW u \in DeliveryRow, NEW v
       PROVE  /\ v = [u EXCEPT !.status = s] => v.status = s /\ v.copies = u.copies
              /\ v = [u EXCEPT !.copies = @ + 1] => v.status = u.status /\ v.copies = u.copies + 1
  BY DEF DeliveryRow
<1> QED BY <1>2, <1>3, <1>4, <1>5, <1>10, <1>11

LEMMA DeliveriesMade ==
    ASSUME BroadcastTypeOK, NEW w \in Workers, Doing(w, "make"), deliveries' = deliveries \o Made(w)
    PROVE  /\ DeliveriesKept /\ Len(deliveries) \in Nat
           /\ \A d \in DOMAIN deliveries : deliveries'[d] = deliveries[d]
           /\ DOMAIN deliveries = 1..Len(deliveries)
           /\ DOMAIN deliveries' = DOMAIN deliveries \union (Len(deliveries) + 1 .. Len(deliveries) + Len(Made(w)))
           /\ \A d \in Len(deliveries) + 1 .. Len(deliveries) + Len(Made(w)) :
                 /\ d \notin DOMAIN deliveries
                 /\ d - Len(deliveries) \in 1..Len(Made(w)) /\ deliveries'[d] = Made(w)[d - Len(deliveries)]
<1>1. deliveries \in Seq(DeliveryRow) /\ Made(w) \in Seq(DeliveryRow) /\ Len(Made(w)) \in Nat
  BY MadeIsWhole DEF BroadcastTypeOK
<1> DEFINE m == Made(w)  n == Len(deliveries)  k == Len(m)
<1> HIDE DEF m
<1>2. /\ deliveries' \in Seq(DeliveryRow) /\ Len(deliveries') = n + k /\ n \in Nat
      /\ \A i \in 1..n : deliveries'[i] = deliveries[i]
      /\ \A i \in n + 1 .. n + k : deliveries'[i] = m[i - n]
  BY <1>1 DEF m
<1>3. DOMAIN deliveries = 1..n /\ DOMAIN deliveries' = 1..(n + k)
  BY <1>1, <1>2
<1>4. k \in Nat BY <1>1 DEF m
<1> HIDE DEF n, k
<1>5. /\ 1..(n + k) = (1..n) \union (n + 1 .. n + k)
      /\ \A d \in n + 1 .. n + k : d \notin 1..n /\ d - n \in 1..k
  BY <1>2, <1>4
<1>6. DeliveriesKept BY <1>2, <1>3, <1>5 DEF DeliveriesKept
<1> QED BY <1>2, <1>3, <1>5, <1>6 DEF m, n, k

(* Where a worker may be only widens as campaigns and deliveries are added. *)
LEMMA PlacedStays ==
    ASSUME CampaignsKept, DeliveriesKept, NEW w, NEW t, Placed(w, t)
    PROVE  Placed(w, t)'
<1>1. Numbers \subseteq Numbers' BY DEF CampaignsKept
<1>2. \A c : Of(c) \subseteq Of(c)' BY DEF DeliveriesKept, Of
<1> QED BY <1>1, <1>2 DEF Placed, Looking, Sending, Looks, Sends

LEMMA BooksUnchanged ==
    ASSUME BroadcastTypeOK
    PROVE  /\ UNCHANGED campaigns => CampaignsKept /\ Numbers' = Numbers
           /\ UNCHANGED deliveries => DeliveriesKept
  BY DEF BroadcastTypeOK, CampaignsKept, DeliveriesKept, Numbers

LEMMA WorkerType ==
    ASSUME BroadcastTypeOK, CampaignsKept, DeliveriesKept,
           \A d \in DOMAIN deliveries' : deliveries'[d].of \in Numbers',
           work' = [v \in Workers |-> work'[v]],
           \A v \in Workers : work'[v] = work[v] \/ Placed(v, work'[v]) \/ Placed(v, work[v])',
           draft' \in BOOLEAN, logged' \in BOOLEAN
    PROVE  BroadcastTypeOK'
<1>1. \A v \in Workers : Placed(v, work[v]) BY DEF BroadcastTypeOK
<1>2. Numbers \subseteq Numbers' BY DEF CampaignsKept
<1>3. \A c : Of(c) \subseteq Of(c)' BY DEF DeliveriesKept, Of
<1>4. ASSUME NEW v \in Workers, Placed(v, work'[v]) PROVE Placed(v, work[v])'
  BY <1>2, <1>3, <1>4 DEF Placed, Looking, Sending, Looks, Sends
<1>5. \A v \in Workers : Placed(v, work[v])' BY <1>1, <1>4
<1> QED BY <1>5 DEF BroadcastTypeOK, CampaignsKept, DeliveriesKept

(* A dispatch that ends leaves its worker with the next one or with none. *)
LEMMA FinishGoes ==
    ASSUME BroadcastTypeOK, NEW w \in Workers, work[w].pc \in Looks \union Sends,
           Finish(w) \/ Raise(w)
    PROVE  /\ \E t : /\ work' = [work EXCEPT ![w] = t] /\ Placed(w, t)
                     /\ t.pc \in {"idle", "rules", "fetch"}
                     /\ t.pc = "fetch" => t.stage = "scheduled" /\ work[w].stage = "scheduled"
           /\ draft' \in BOOLEAN /\ logged' \in BOOLEAN /\ (logged => logged')
           /\ Finish(w) /\ work[w].stage = "trigger" => logged'
<1>1. Placed(w, work[w]) /\ draft \in BOOLEAN /\ logged \in BOOLEAN BY DEF BroadcastTypeOK
<1>2. draft' \in BOOLEAN /\ logged' \in BOOLEAN /\ (logged => logged')
      /\ (Finish(w) /\ work[w].stage = "trigger" => logged')
  BY <1>1 DEF Finish, Raise
<1>3. Placed(w, AfterStage(w)) /\ AfterStage(w).pc \in {"idle", "rules"}
  BY <1>1 DEF AfterStage, Resting, Placed, Looks, Sends
<1>4. CASE work' = [work EXCEPT ![w] = AfterStage(w)]
  BY <1>2, <1>3, <1>4
<1>5. CASE Finish(w) /\ work[w].stage = "scheduled" /\ work[w].todo # {}
  <2> DEFINE t == FirstOf(work[w].todo)
  <2>1. w = Timer /\ work[w].todo \subseteq Numbers BY <1>1, <1>5 DEF Placed
  <2>2. Numbers \subseteq Nat BY DEF BroadcastTypeOK, Numbers
  <2>3. Min(work[w].todo) \in work[w].todo BY <1>5, <2>1, <2>2, MinIsLeast
  <2>4. Placed(w, t) /\ t.pc = "fetch" /\ t.stage = "scheduled"
    BY <2>1, <2>3 DEF FirstOf, Dispatching, Placed, Looking, Looks, Sends
  <2>5. work' = [work EXCEPT ![w] = t] BY <1>5 DEF Finish
  <2> QED BY <1>2, <1>5, <2>4, <2>5
<1> QED BY <1>4, <1>5 DEF Finish, Raise

(* A step inside a dispatch keeps its campaign. *)
LEMMA Onward ==
    ASSUME NEW u, NEW p, NEW t, t = [u EXCEPT !.pc = p], Looking(u) \/ Sending(u)
    PROVE  /\ t.pc = p /\ t.campaign = u.campaign /\ t.todo = u.todo /\ t.stage = u.stage
           /\ Looking(u) => Looking(t)
           /\ Sending(u) => Sending(t) /\ t.left = u.left
<1>1. CASE Looking(u) 
  <2>1. t = [pc |-> p, campaign |-> u.campaign, todo |-> u.todo, stage |-> u.stage]
    BY <1>1 DEF Looking
  <2>2. DOMAIN u # {"pc", "campaign", "todo", "stage", "left"}
    <3>1. DOMAIN u = {"pc", "campaign", "todo", "stage"} BY <1>1 DEF Looking
    <3> QED BY <3>1
  <2>3. ~Sending(u) BY <2>2 DEF Sending
  <2> QED BY <1>1, <2>1, <2>3 DEF Looking
<1>2. CASE Sending(u)
  <2>1. t = [pc |-> p, campaign |-> u.campaign, todo |-> u.todo, stage |-> u.stage, left |-> u.left]
    BY <1>2 DEF Sending
  <2>2. DOMAIN u # {"pc", "campaign", "todo", "stage"}
    <3>1. DOMAIN u = {"pc", "campaign", "todo", "stage", "left"} BY <1>2 DEF Sending
    <3> QED BY <3>1
  <2>3. ~Looking(u) BY <2>2 DEF Looking
  <2> QED BY <1>2, <2>1, <2>3 DEF Sending
<1> QED BY <1>1, <1>2

(* Of a worker in the middle of a dispatch: the next record of its work.  *)
LEMMA OnwardStep ==
    ASSUME BroadcastTypeOK, NEW w \in Workers, NEW p, work' = [work EXCEPT ![w].pc = p],
           \/ work[w].pc \in Looks /\ p \in Looks
           \/ work[w].pc \in Sends /\ p \in Sends /\ (p \in {"sent", "failed"} => work[w].left # {})
    PROVE  /\ work' = [v \in Workers |-> work'[v]] /\ \A v \in Workers : v # w => work'[v] = work[v]
           /\ Placed(w, work'[w])
           /\ work'[w].pc = p /\ work'[w].campaign = work[w].campaign /\ work'[w].todo = work[w].todo
           /\ work'[w].stage = work[w].stage
           /\ work[w].pc \in Sends => work'[w].left = work[w].left
<1>1. Placed(w, work[w]) BY DEF BroadcastTypeOK
<1> DEFINE t == [work[w] EXCEPT !.pc = p]
<1>2. work' = [work EXCEPT ![w] = t] BY DEF BroadcastTypeOK
<1>3. Looking(work[w]) \/ Sending(work[w]) BY <1>1 DEF Placed
<1>4. /\ t.pc = p /\ t.campaign = work[w].campaign /\ t.todo = work[w].todo /\ t.stage = work[w].stage
      /\ Looking(work[w]) => Looking(t)
      /\ Sending(work[w]) => Sending(t) /\ t.left = work[w].left
  BY <1>3, Onward
<1> HIDE DEF t
<1>5. Placed(w, t) BY <1>1, <1>4 DEF Placed, Looks, Sends
<1>6. /\ work' = [v \in Workers |-> work'[v]] /\ work'[w] = t
      /\ \A v \in Workers : v # w => work'[v] = work[v]
  BY <1>2, WorkSet
<1>7. work[w].pc \in Sends => t.left = work[w].left BY <1>1, <1>4 DEF Placed
<1> QED BY <1>4, <1>5, <1>6, <1>7

LEMMA OldDeliveries ==
    ASSUME BroadcastTypeOK, CampaignsKept, DeliveriesKept, DOMAIN deliveries' = DOMAIN deliveries
    PROVE  \A d \in DOMAIN deliveries' : deliveries'[d].of \in Numbers'
  BY DEF BroadcastTypeOK, CampaignsKept, DeliveriesKept

-----------------------------------------------------------------------------
(* What every step keeps: the books, and the trace a trigger's campaign     *)
(* leaves (its dispatch under way, the log, or what went wrong).            *)
AtTrigger(c) ==
    work[Timer].pc \in Looks \union Sends /\ work[Timer].stage = "trigger" /\ work[Timer].campaign = c
Traced(c) == logged = TRUE \/ Had(c, "raised") \/ Had(c, "died")
Moves ==
    /\ BroadcastTypeOK' /\ CampaignsKept /\ DeliveriesKept
    /\ trouble \subseteq trouble' /\ (logged = TRUE => logged' = TRUE)
    /\ \A c \in Numbers' \ Numbers : campaigns'[c].kind = "trigger" =>
          logged = FALSE /\ work[Timer].pc = "rules" /\ AtTrigger(c)' /\ \A b \in Numbers : b < c
    /\ \A b, c \in Numbers' \ Numbers : b = c
    /\ \A c : AtTrigger(c) => AtTrigger(c)' \/ Traced(c)'
Settles(v) ==
    /\ work'[v].pc \in {"idle", "rules", "fetch"}
    /\ work[v].pc = "sent" => <<work[v].campaign, "unmarked">> \in trouble'
Calm == UNCHANGED deliveries /\ \A v \in Workers : work'[v] = work[v] \/ Settles(v)

(* A campaign made, with or without its dispatch. *)
LEMMA Launched ==
    ASSUME BroadcastTypeOK, NEW w \in Workers, NEW k \in CampaignRow, NEW stage,
           campaigns' = Append(campaigns, k), work[w].pc \in {"idle", "rules"},
           work' = work \/ work' = [work EXCEPT ![w] = Dispatching(Len(campaigns) + 1, {}, stage)],
           UNCHANGED <<deliveries, trouble, logged>>, draft' \in BOOLEAN,
           IF w = Timer THEN stage = "trigger" ELSE stage \in {"form", "rule"},
           k.kind = "trigger" => /\ w = Timer /\ logged = FALSE /\ work[w].pc = "rules"
                                 /\ work' = [work EXCEPT ![w] = Dispatching(Len(campaigns) + 1, {}, stage)]
    PROVE  Moves /\ Calm
<1> DEFINE n == Len(campaigns) + 1
           t == Dispatching(n, {}, stage)
<1>1. /\ CampaignsKept /\ Numbers' = Numbers \union {n} /\ campaigns'[n] = k
      /\ n \notin Numbers /\ Len(campaigns) \in Nat
  BY CampaignAdded
<1>2. DeliveriesKept /\ \A d \in DOMAIN deliveries' : deliveries'[d].of \in Numbers'
  BY <1>1, BooksUnchanged, OldDeliveries
<1>3. CASE work' = work
  <2>1. BroadcastTypeOK' BY <1>1, <1>2, <1>3, WorkerType DEF BroadcastTypeOK
  <2>2. k.kind # "trigger"
    <3>1. t.pc = "fetch" BY DEF Dispatching
    <3> QED BY <1>3, <3>1, WorkSet
  <2>3. \A c : AtTrigger(c) => AtTrigger(c)' BY <1>3 DEF AtTrigger
  <2> QED BY <1>1, <1>2, <1>3, <2>1, <2>2, <2>3 DEF Moves, Calm
<1>4. CASE work' = [work EXCEPT ![w] = t]
  <2>1. /\ work' = [v \in Workers |-> work'[v]] /\ work'[w] = t
        /\ \A v \in Workers : v # w => work'[v] = work[v]
    BY <1>4, WorkSet
  <2>2. /\ t.pc = "fetch" /\ t.campaign = n /\ t.todo = {} /\ t.stage = stage /\ Looking(t)
    BY DEF Dispatching, Looking
  <2> HIDE DEF t
  <2>3. Placed(w, work[w])'
    BY <1>1, <2>1, <2>2 DEF Placed, Looking, Looks, Sends
  <2>4. BroadcastTypeOK'
    BY <1>1, <1>2, <2>1, <2>3, WorkerType DEF BroadcastTypeOK
  <2>5. k.kind = "trigger" => \A c : c = n => AtTrigger(c)'
    BY <2>1, <2>2 DEF AtTrigger, Looks
  <2>6. \A c : AtTrigger(c) => AtTrigger(c)'
    BY <2>1 DEF AtTrigger, Looks, Sends, Workers
  <2>7. Calm BY <2>1, <2>2 DEF Calm, Settles
  <2>8. \A b \in Numbers : b < n BY <1>1 DEF BroadcastTypeOK, Numbers
  <2>9. \A c \in Numbers' \ Numbers : c = n BY <1>1
  <2> QED BY <1>1, <1>2, <2>4, <2>5, <2>6, <2>7, <2>8, <2>9 DEF Moves
<1> QED BY <1>3, <1>4

LEMMA LaunchSteps ==
    ASSUME BroadcastTypeOK,
           \/ \E w \in Workers : (\E form \in Forms : SendCampaignFromState(w, form)) \/ TriggerTest(w)
           \/ ProcessTriggerRules
    PROVE  Moves /\ Calm
<1>1. ASSUME NEW w \in Workers, NEW form \in Forms, SendCampaignFromState(w, form) PROVE Moves /\ Calm
  <2>1. form.kind \in {"user", "test"} /\ form.audience \in SUBSET Subscribers /\ form.later \in BOOLEAN
    BY BroadcastAssumption
  <2>2. w # Timer BY <1>1, BroadcastAssumption DEF SendCampaignFromState
  <2> DEFINE st == IF form.later /\ form.kind = "user" THEN "scheduled" ELSE "queued"
             k == NewCampaign(form.kind, st, form.audience, form.later)
  <2>3. k \in CampaignRow /\ k.kind # "trigger" BY <2>1 DEF NewCampaign, CampaignRow
  <2>4. /\ campaigns' = Append(campaigns, k) /\ work[w].pc = "idle"
        /\ work' = work \/ work' = [work EXCEPT ![w] = Dispatching(Len(campaigns) + 1, {}, "form")]
        /\ UNCHANGED <<deliveries, trouble, logged>> /\ draft' \in BOOLEAN
    BY <1>1 DEF SendCampaignFromState, Doing, BroadcastTypeOK
  <2> QED BY <2>2, <2>3, <2>4, Launched
<1>2. ASSUME NEW w \in Workers, TriggerTest(w) PROVE Moves /\ Calm
  <2>1. w # Timer BY <1>2, BroadcastAssumption DEF TriggerTest
  <2> DEFINE k == NewCampaign("test", "queued", Subscribers, FALSE)
  <2>2. k \in CampaignRow /\ k.kind # "trigger" BY DEF NewCampaign, CampaignRow
  <2>3. /\ campaigns' = Append(campaigns, k) /\ work[w].pc = "idle"
        /\ work' = [work EXCEPT ![w] = Dispatching(Len(campaigns) + 1, {}, "rule")]
        /\ UNCHANGED <<deliveries, trouble, logged>> /\ draft' \in BOOLEAN
    BY <1>2 DEF TriggerTest, Doing, BroadcastTypeOK
  <2> QED BY <2>1, <2>2, <2>3, Launched
<1>3. CASE ProcessTriggerRules
  <2>1. Timer \in Workers /\ work[Timer].pc = "rules" /\ UNCHANGED <<deliveries, draft, logged, trouble>>
    BY <1>3 DEF ProcessTriggerRules, Doing, Workers
  <2>2. CASE campaigns' = Append(campaigns, NewCampaign("trigger", "queued", {Reached}, FALSE))
             /\ work' = [work EXCEPT ![Timer] = Dispatching(Len(campaigns) + 1, {}, "trigger")]
             /\ logged = FALSE
    <3> DEFINE k == NewCampaign("trigger", "queued", {Reached}, FALSE)
    <3>1. k \in CampaignRow BY BroadcastAssumption DEF NewCampaign, CampaignRow
    <3>2. draft' \in BOOLEAN BY <2>1 DEF BroadcastTypeOK
    <3> QED BY <2>1, <2>2, <3>1, <3>2, Launched
  <2>3. CASE work' = [work EXCEPT ![Timer] = Resting] /\ UNCHANGED campaigns
    <3>1. /\ work' = [v \in Workers |-> work'[v]] /\ work'[Timer] = Resting
          /\ \A v \in Workers : v # Timer => work'[v] = work[v]
      BY <2>1, <2>3, WorkSet
    <3>2. Placed(Timer, work'[Timer]) BY <3>1 DEF Placed, Resting, Looks, Sends
    <3>3. CampaignsKept /\ DeliveriesKept /\ Numbers' = Numbers BY <2>1, <2>3, BooksUnchanged
    <3>4. BroadcastTypeOK' BY <2>1, <3>1, <3>2, <3>3, WorkerType, OldDeliveries DEF BroadcastTypeOK
    <3>5. Calm BY <2>1, <3>1 DEF Calm, Settles, Resting
    <3>6. \A c : ~AtTrigger(c) BY <2>1 DEF AtTrigger, Looks, Sends
    <3> QED BY <2>1, <3>3, <3>4, <3>5, <3>6 DEF Moves
  <2> QED BY <1>3, <2>2, <2>3 DEF ProcessTriggerRules, BroadcastTypeOK
<1> QED BY <1>1, <1>2, <1>3

(* A step inside a dispatch; it neither makes a campaign nor ends one of a  *)
(* trigger.                                                                 *)
Stays(w) ==
    /\ work' = [v \in Workers |-> work'[v]] /\ \A v \in Workers : v # w => work'[v] = work[v]
    /\ work[w].pc \in Looks \union Sends /\ work'[w].pc \in Looks \union Sends
    /\ work'[w].campaign = work[w].campaign /\ work'[w].stage = work[w].stage

LEMMA StaysMoves ==
    ASSUME BroadcastTypeOK, NEW w \in Workers, Stays(w), CampaignsKept, DeliveriesKept, Numbers' = Numbers,
           \A d \in DOMAIN deliveries' : deliveries'[d].of \in Numbers',
           Placed(w, work'[w]) \/ Placed(w, work[w])',
           UNCHANGED <<draft, logged>>, trouble \subseteq trouble'
    PROVE  Moves
<1>1. BroadcastTypeOK' BY WorkerType DEF BroadcastTypeOK, Stays
<1>2. \A c : AtTrigger(c) => AtTrigger(c)' BY DEF AtTrigger, Stays, Workers
<1> QED BY <1>1, <1>2 DEF Moves

(* A dispatch that ends or raises without leaving a message unrecorded. *)
LEMMA EndMoves ==
    ASSUME BroadcastTypeOK, NEW w \in Workers, work[w].pc \in Looks \union Sends,
           \/ Finish(w) /\ trouble \subseteq trouble'
           \/ Raise(w) /\ trouble \subseteq trouble' /\ <<work[w].campaign, "raised">> \in trouble',
           CampaignsKept, DeliveriesKept, Numbers' = Numbers, DOMAIN deliveries' = DOMAIN deliveries
    PROVE  /\ Moves
           /\ work' = [v \in Workers |-> work'[v]] /\ \A v \in Workers : v # w => work'[v] = work[v]
           /\ work'[w].pc \in {"idle", "rules", "fetch"}
<1>1. PICK t : /\ work' = [work EXCEPT ![w] = t] /\ Placed(w, t) /\ t.pc \in {"idle", "rules", "fetch"}
               /\ t.pc = "fetch" => t.stage = "scheduled" /\ work[w].stage = "scheduled"
  BY FinishGoes
<1>2. draft' \in BOOLEAN /\ logged' \in BOOLEAN /\ (logged => logged')
      /\ (Finish(w) /\ work[w].stage = "trigger" => logged')
  BY FinishGoes
<1>3. /\ work' = [v \in Workers |-> work'[v]] /\ work'[w] = t
      /\ \A v \in Workers : v # w => work'[v] = work[v]
  BY <1>1, WorkSet
<1>4. BroadcastTypeOK' BY <1>1, <1>2, <1>3, WorkerType, OldDeliveries
<1>5. ASSUME NEW c, AtTrigger(c) PROVE AtTrigger(c)' \/ Traced(c)'
  <2>1. CASE w = Timer
    <3>1. CASE Finish(w) BY <1>2, <1>5, <2>1, <3>1 DEF AtTrigger, Traced
    <3>2. CASE <<work[w].campaign, "raised">> \in trouble'
      <4>1. work[w].campaign = c BY <1>5, <2>1 DEF AtTrigger
      <4> QED BY <3>2, <4>1 DEF Traced, Had
    <3> QED BY <3>1, <3>2
  <2>2. CASE w # Timer BY <1>3, <1>5, <2>2 DEF AtTrigger, Workers
  <2> QED BY <2>1, <2>2
<1> QED BY <1>1, <1>2, <1>3, <1>4, <1>5 DEF Moves, BroadcastTypeOK

-----------------------------------------------------------------------------
(* One dispatch of a campaign at a time unless an overlap is on record; it  *)
(* makes the deliveries if there are none, one for each person.             *)
InHand(w, d) == work[w].pc = "sent" /\ d \in work[w].left /\ d = Min(work[w].left)
Orderly(c) ==
    ~Had(c, "overlap") =>
        /\ \A v, w \in Workers : Busy(v, c) /\ Busy(w, c) => v = w
        /\ \A w \in Workers : Busy(w, c) /\ work[w].pc = "make" => Of(c) = {}
        /\ \A d, e \in Of(c) : deliveries[d].to = deliveries[e].to => d = e

(* A message that is out is recorded as sent or is in the hands of the      *)
(* dispatch that sent it; a dispatch has no other such delivery left.       *)
Recorded(c) ==
    ~Had(c, "overlap") /\ ~Had(c, "unmarked") =>
        /\ \A d \in Of(c) :
              \/ deliveries[d].copies = 0
              \/ /\ deliveries[d].copies = 1
                 /\ deliveries[d].status = "sent" \/ \E w \in Workers : Busy(w, c) /\ InHand(w, d)
        /\ \A w \in Workers : Busy(w, c) /\ work[w].pc \in Sends =>
              \A d \in work[w].left : deliveries[d].copies = 0 \/ InHand(w, d)

Dispatches == \A c \in Nat : Orderly(c) /\ Recorded(c)

LEMMA CalmStep ==
    ASSUME Dispatches, Calm, trouble \subseteq trouble'
    PROVE  Dispatches'
<1> SUFFICES ASSUME NEW c \in Nat PROVE Orderly(c)' /\ Recorded(c)'
  BY DEF Dispatches
<1>1. Orderly(c) /\ Recorded(c) BY DEF Dispatches
<1>2. ASSUME NEW v \in Workers, Busy(v, c)' PROVE work'[v] = work[v] /\ Busy(v, c)
  BY <1>2 DEF Calm, Settles, Busy
<1>3. Of(c)' = Of(c) /\ deliveries' = deliveries BY DEF Of, Calm
<1>4. Orderly(c)'
  BY <1>1, <1>2, <1>3 DEF Orderly, Had
<1>5. ASSUME NEW v \in Workers, NEW d, Busy(v, c), InHand(v, d), ~Had(c, "unmarked")'
      PROVE  Busy(v, c)' /\ InHand(v, d)'
  <2>1. work'[v] = work[v]
    BY <1>5 DEF Calm, Settles, InHand, Busy, Had
  <2> QED BY <1>5, <2>1 DEF InHand, Busy
<1>6. Recorded(c)'
  <2> SUFFICES ASSUME ~Had(c, "overlap")', ~Had(c, "unmarked")'
               PROVE  /\ \A d \in Of(c) :
                            \/ deliveries[d].copies = 0
                            \/ /\ deliveries[d].copies = 1
                               /\ \/ deliveries[d].status = "sent"
                                  \/ \E w \in Workers : Busy(w, c)' /\ InHand(w, d)'
                      /\ \A w \in Workers : Busy(w, c)' /\ work'[w].pc \in Sends =>
                            \A d \in work'[w].left : deliveries[d].copies = 0 \/ InHand(w, d)'
    BY <1>3 DEF Recorded
  <2>1. ~Had(c, "overlap") /\ ~Had(c, "unmarked") BY DEF Had
  <2>2. \A d \in Of(c) :
            \/ deliveries[d].copies = 0
            \/ /\ deliveries[d].copies = 1
               /\ deliveries[d].status = "sent" \/ \E w \in Workers : Busy(w, c) /\ InHand(w, d)
    BY <1>1, <2>1 DEF Recorded
  <2>3. ASSUME NEW w \in Workers, Busy(w, c)', work'[w].pc \in Sends, NEW d \in work'[w].left
        PROVE  deliveries[d].copies = 0 \/ InHand(w, d)'
    <3>1. work'[w] = work[w] /\ Busy(w, c) BY <1>2, <2>3
    <3>2. deliveries[d].copies = 0 \/ InHand(w, d) BY <1>1, <2>1, <2>3, <3>1 DEF Recorded
    <3> QED BY <1>5, <3>1, <3>2
  <2> QED BY <1>5, <2>2, <2>3
<1> QED BY <1>4, <1>6

(* A dispatch goes on among its stages; deliveries stay as they are, and    *)
(* none is or was in its hands.                                             *)
LEMMA StageStep ==
    ASSUME BroadcastTypeOK, Dispatches, NEW w \in Workers, Stays(w), UNCHANGED <<deliveries, trouble>>,
           work[w].pc \in Sends \ {"sent"}, work'[w].pc \in Sends \ {"sent"}, work'[w].left = work[w].left
    PROVE  Dispatches'
<1> SUFFICES ASSUME NEW c \in Nat PROVE Orderly(c)' /\ Recorded(c)'
  BY DEF Dispatches
<1>1. Orderly(c) /\ Recorded(c) BY DEF Dispatches
<1>2. \A v \in Workers : Busy(v, c)' <=> Busy(v, c) BY DEF Stays, Busy, Sends
<1>3. Of(c)' = Of(c) BY DEF Of
<1>4. \A v \in Workers : \A d : InHand(v, d)' <=> InHand(v, d) BY DEF Stays, InHand
<1>5. Orderly(c)' BY <1>1, <1>2, <1>3 DEF Orderly, Had, Stays, Sends
<1>6. Recorded(c)' BY <1>1, <1>2, <1>3, <1>4 DEF Recorded, Had, Stays
<1> QED BY <1>5, <1>6

(* A dispatch is opened: the overlap with another is put on record. *)
LEMMA FetchStep ==
    ASSUME BroadcastTypeOK, Dispatches, NEW w \in Workers, DispatchCampaign(w)
    PROVE  Moves /\ Dispatches'
<1>1. work[w].pc = "fetch" /\ UNCHANGED <<campaigns, deliveries>> BY DEF DispatchCampaign, Doing
<1>2. CampaignsKept /\ DeliveriesKept /\ Numbers' = Numbers BY <1>1, BooksUnchanged
<1>3. CASE Finish(w) /\ UNCHANGED trouble
  <2>1. Moves /\ \A v \in Workers : v # w => work'[v] = work[v]
    BY <1>1, <1>2, <1>3, EndMoves DEF Looks
  <2>2. work'[w].pc \in {"idle", "rules", "fetch"}
    BY <1>1, <1>2, <1>3, EndMoves DEF Looks
  <2>3. Calm BY <1>1, <2>1, <2>2 DEF Calm, Settles
  <2> QED BY <1>3, <2>1, <2>3, CalmStep
<1>4. CASE /\ work' = [work EXCEPT ![w].pc = "list"] /\ UNCHANGED <<draft, logged>>
           /\ trouble' = IF \E v \in Workers : Busy(v, work[w].campaign)
                         THEN trouble \union {<<work[w].campaign, "overlap">>} ELSE trouble
  <2>1. /\ work' = [v \in Workers |-> work'[v]] /\ \A v \in Workers : v # w => work'[v] = work[v]
        /\ Placed(w, work'[w])
        /\ work'[w].pc = "list" /\ work'[w].campaign = work[w].campaign /\ work'[w].stage = work[w].stage
    BY <1>1, <1>4, OnwardStep DEF Looks
  <2>2. Stays(w) BY <1>1, <2>1 DEF Stays, Looks
  <2>3. trouble \subseteq trouble' BY <1>4
  <2>4. Moves BY <1>1, <1>2, <1>4, <2>1, <2>2, <2>3, StaysMoves, OldDeliveries
  <2>5. ASSUME NEW c \in Nat PROVE Orderly(c)' /\ Recorded(c)'
    <3>1. Orderly(c) /\ Recorded(c) BY DEF Dispatches
    <3>2. \A v \in Workers : v # w => (Busy(v, c)' <=> Busy(v, c)) BY <2>1 DEF Busy
    <3>3. ~Had(c, "overlap")' /\ Busy(w, c)' => \A v \in Workers : ~Busy(v, c)
      BY <1>4, <2>1 DEF Busy, Had
    <3>4. Of(c)' = Of(c) BY <1>1 DEF Of
    <3>5. ~Busy(w, c) BY <1>1 DEF Busy
    <3>6. ~Had(c, "overlap")' => \A v, u \in Workers : Busy(v, c)' /\ Busy(u, c)' => v = u
      <4> SUFFICES ASSUME ~Had(c, "overlap")', NEW v \in Workers, NEW u \in Workers, Busy(v, c)', Busy(u, c)'
                   PROVE  v = u
        OBVIOUS
      <4>1. ~Had(c, "overlap") BY <2>3 DEF Had
      <4> QED BY <3>1, <3>2, <3>3, <4>1 DEF Orderly
    <3>7. Orderly(c)'
      BY <1>1, <2>1, <2>3, <3>1, <3>2, <3>4, <3>6 DEF Orderly, Had
    <3>8. \A v \in Workers : \A d : InHand(v, d)' <=> InHand(v, d) BY <1>1, <2>1 DEF InHand
    <3>9. Recorded(c)'
      <4>1. ~Had(c, "overlap")' /\ ~Had(c, "unmarked")' => ~Had(c, "overlap") /\ ~Had(c, "unmarked")
        BY <2>3 DEF Had
      <4>2. \A v \in Workers : Busy(v, c) => Busy(v, c)' BY <3>2, <3>5
      <4>3. \A v \in Workers : Busy(v, c)' /\ work'[v].pc \in Sends => Busy(v, c) /\ work'[v] = work[v]
        BY <2>1, <3>2 DEF Sends
      <4> QED BY <1>1, <3>1, <3>4, <3>8, <4>1, <4>2, <4>3 DEF Recorded
    <3> QED BY <3>7, <3>9
  <2> QED BY <2>4, <2>5 DEF Dispatches
<1> QED BY <1>3, <1>4 DEF DispatchCampaign

(* The record of a dispatch that has listed or made its deliveries. *)
LEMMA SnapshotTurn ==
    ASSUME BroadcastTypeOK, NEW w \in Workers, NEW ds, Snapshot(w, ds), work[w].pc \in {"list", "make"}
    PROVE  /\ work' = [v \in Workers |-> work'[v]] /\ \A v \in Workers : v # w => work'[v] = work[v]
           /\ work'[w].pc = "start" /\ work'[w].campaign = work[w].campaign
           /\ work'[w].todo = work[w].todo /\ work'[w].stage = work[w].stage
           /\ work'[w].left = ds /\ Sending(work'[w])
<1> DEFINE t == [pc |-> "start", campaign |-> work[w].campaign, todo |-> work[w].todo,
                 stage |-> work[w].stage, left |-> ds]
<1>1. work' = [work EXCEPT ![w] = t] BY DEF Snapshot, BroadcastTypeOK
<1>2. Sending(t) BY DEF Sending
<1> QED BY <1>1, <1>2, WorkSet

(* What is listed is not yet sent. *)
LEMMA ListStep ==
    ASSUME BroadcastTypeOK, Dispatches, NEW w \in Workers, ListDeliveries(w)
    PROVE  Moves /\ Dispatches'
<1>1. work[w].pc = "list" /\ UNCHANGED <<campaigns, deliveries, trouble, draft, logged>>
  BY DEF ListDeliveries, Doing
<1>2. CampaignsKept /\ DeliveriesKept /\ Numbers' = Numbers BY <1>1, BooksUnchanged
<1>3. CASE Of(work[w].campaign) = {} /\ work' = [work EXCEPT ![w].pc = "make"]
  <2>1. /\ work' = [v \in Workers |-> work'[v]] /\ \A v \in Workers : v # w => work'[v] = work[v]
        /\ Placed(w, work'[w])
        /\ work'[w].pc = "make" /\ work'[w].campaign = work[w].campaign /\ work'[w].stage = work[w].stage
    BY <1>1, <1>3, OnwardStep DEF Looks
  <2>2. Stays(w) BY <1>1, <2>1 DEF Stays, Looks
  <2>3. Moves BY <1>1, <1>2, <2>1, <2>2, StaysMoves, OldDeliveries
  <2>4. ASSUME NEW c \in Nat PROVE Orderly(c)' /\ Recorded(c)'
    <3>1. Orderly(c) /\ Recorded(c) BY DEF Dispatches
    <3>2. \A v \in Workers : Busy(v, c)' <=> Busy(v, c) BY <1>1, <2>1 DEF Busy
    <3>3. Of(c)' = Of(c) BY <1>1 DEF Of
    <3>4. Busy(w, c) => Of(c) = {} BY <1>3 DEF Busy
    <3>5. \A v \in Workers : \A d : InHand(v, d)' <=> InHand(v, d) BY <1>1, <2>1 DEF InHand
    <3>6. Orderly(c)' BY <1>1, <2>1, <3>1, <3>2, <3>3, <3>4 DEF Orderly, Had
    <3>7. Recorded(c)'
      <4>1. \A v \in Workers : work'[v].pc \in Sends => work'[v] = work[v] BY <2>1 DEF Sends
      <4> QED BY <1>1, <3>1, <3>2, <3>3, <3>5, <4>1 DEF Recorded, Had
    <3> QED BY <3>6, <3>7
  <2> QED BY <2>3, <2>4 DEF Dispatches
<1>4. CASE Snapshot(w, Unsent(work[w].campaign))
  <2>1. /\ work' = [v \in Workers |-> work'[v]] /\ \A v \in Workers : v # w => work'[v] = work[v]
        /\ work'[w].pc = "start" /\ work'[w].campaign = work[w].campaign
        /\ work'[w].todo = work[w].todo /\ work'[w].stage = work[w].stage
        /\ work'[w].left = Unsent(work[w].campaign) /\ Sending(work'[w])
    BY <1>1, <1>4, SnapshotTurn
  <2>2. Placed(w, work'[w])
    <3>1. Placed(w, work[w]) BY DEF BroadcastTypeOK
    <3> QED BY <1>1, <2>1, <3>1 DEF Placed, Looks, Sends, Unsent
  <2>3. Stays(w) BY <1>1, <2>1 DEF Stays, Looks, Sends
  <2>4. Moves BY <1>1, <1>2, <2>2, <2>3, StaysMoves, OldDeliveries
  <2>5. ASSUME NEW c \in Nat PROVE Orderly(c)' /\ Recorded(c)'
    <3>1. Orderly(c) /\ Recorded(c) BY DEF Dispatches
    <3>2. \A v \in Workers : Busy(v, c)' <=> Busy(v, c) BY <1>1, <2>1 DEF Busy
    <3>3. Of(c)' = Of(c) BY <1>1 DEF Of
    <3>4. \A v \in Workers : \A d : InHand(v, d)' <=> InHand(v, d) BY <1>1, <2>1 DEF InHand
    <3>5. Orderly(c)' BY <1>1, <2>1, <3>1, <3>2, <3>3 DEF Orderly, Had
    <3>6. Recorded(c)'
      <4> SUFFICES ASSUME ~Had(c, "overlap"), ~Had(c, "unmarked"), Busy(w, c)
                   PROVE  \A d \in Unsent(c) : deliveries[d].copies = 0
        BY <1>1, <2>1, <3>1, <3>2, <3>3, <3>4 DEF Recorded, Had, Busy
      <4>1. \A v \in Workers : \A d : Busy(v, c) => ~InHand(v, d)
        BY <1>1, <3>1 DEF Orderly, InHand
      <4> QED BY <3>1, <4>1 DEF Recorded, Unsent
    <3> QED BY <3>5, <3>6
  <2> QED BY <2>4, <2>5 DEF Dispatches
<1> QED BY <1>3, <1>4 DEF ListDeliveries

(* Deliveries are made once, for the persons the dispatch is to reach. *)
LEMMA MakeStep ==
    ASSUME BroadcastTypeOK, Dispatches, NEW w \in Workers, CreateDeliveries(w)
    PROVE  Moves /\ Dispatches'
<1> DEFINE b == work[w].campaign
           new == Len(deliveries) + 1 .. Len(deliveries) + Len(Made(w))
<1>1. work[w].pc = "make" /\ UNCHANGED trouble BY DEF CreateDeliveries, Doing
<1>2. CASE /\ campaigns' = [campaigns EXCEPT ![b].status = "completed"]
           /\ Finish(w) /\ UNCHANGED deliveries
  <2>1. CampaignsKept /\ DeliveriesKept /\ Numbers' = Numbers BY <1>2, BooksUnchanged, CampaignSet
  <2>2. /\ Moves /\ \A v \in Workers : v # w => work'[v] = work[v]
        /\ work'[w].pc \in {"idle", "rules", "fetch"}
    BY <1>1, <1>2, <2>1, EndMoves DEF Looks
  <2>3. Calm BY <1>1, <1>2, <2>2 DEF Calm, Settles
  <2> QED BY <1>1, <2>2, <2>3, CalmStep
<1>3. CASE deliveries' = deliveries \o Made(w) /\ Snapshot(w, new) /\ UNCHANGED <<campaigns, draft, logged>>
  <2>1. /\ work' = [v \in Workers |-> work'[v]] /\ \A v \in Workers : v # w => work'[v] = work[v]
        /\ work'[w].pc = "start" /\ work'[w].campaign = b
        /\ work'[w].todo = work[w].todo /\ work'[w].stage = work[w].stage
        /\ work'[w].left = new /\ Sending(work'[w])
    BY <1>1, <1>3, SnapshotTurn
  <2>2. CampaignsKept /\ Numbers' = Numbers BY <1>3, BooksUnchanged
  <2>3. /\ DeliveriesKept /\ \A d \in DOMAIN deliveries : deliveries'[d] = deliveries[d]
        /\ DOMAIN deliveries' = DOMAIN deliveries \union new
        /\ \A d \in new : /\ d \notin DOMAIN deliveries
                           /\ d - Len(deliveries) \in 1..Len(Made(w))
                           /\ deliveries'[d] = Made(w)[d - Len(deliveries)]
    BY <1>1, <1>3, DeliveriesMade DEF Doing
  <2>4. Len(deliveries) \in Nat BY DEF BroadcastTypeOK
  <2> DEFINE n == Len(deliveries)
  <2> HIDE DEF new
  <2>5. /\ \A i \in 1..Len(Made(w)) : Made(w)[i].of = b /\ Made(w)[i].copies = 0
        /\ \A i, j \in 1..Len(Made(w)) : Made(w)[i].to = Made(w)[j].to => i = j
    BY <1>1, MadeIsWhole DEF Doing
  <2>6. \A d \in new : d \in Nat /\ deliveries'[d].of = b /\ deliveries'[d].copies = 0
    BY <2>3, <2>4, <2>5 DEF new
  <2>7. \A d, e \in new : deliveries'[d].to = deliveries'[e].to => d = e
    <3> SUFFICES ASSUME NEW d \in new, NEW e \in new, deliveries'[d].to = deliveries'[e].to
                 PROVE  d = e
      OBVIOUS
    <3>1. d - n = e - n BY <2>3, <2>5
    <3> QED BY <2>4, <2>6, <3>1
  <2>8. Placed(w, work[w]) /\ b \in Numbers BY <1>1 DEF BroadcastTypeOK, Placed, Looks
  <2>9. ASSUME NEW c PROVE Of(c)' = IF c = b THEN Of(c) \union new ELSE Of(c)
    <3>1. \A d \in DOMAIN deliveries : deliveries'[d].of = deliveries[d].of BY <2>3
    <3>2. Of(c)' = {d \in DOMAIN deliveries' : deliveries'[d].of = c} BY DEF Of
    <3>3. \A d : d \in Of(c)' <=> d \in DOMAIN deliveries' /\ deliveries'[d].of = c BY <3>2
    <3>4. \A d : d \in Of(c) <=> d \in DOMAIN deliveries /\ deliveries[d].of = c BY DEF Of
    <3> HIDE DEF b
    <3>5. \A d : d \in Of(c)' <=> d \in IF c = b THEN Of(c) \union new ELSE Of(c)
      BY <2>3, <2>6, <3>1, <3>3, <3>4
    <3> QED BY <3>2, <3>5
  <2>10. Placed(w, work[w])'
    BY <1>1, <2>1, <2>2, <2>8, <2>9 DEF Placed, Looks, Sends
  <2>11. \A d \in DOMAIN deliveries' : deliveries'[d].of \in Numbers'
    BY <2>2, <2>3, <2>6, <2>8 DEF BroadcastTypeOK
  <2>12. Stays(w) BY <1>1, <2>1 DEF Stays, Looks, Sends
  <2>13. Moves BY <1>1, <1>3, <2>2, <2>3, <2>10, <2>11, <2>12, StaysMoves
  <2>14. ASSUME NEW c \in Nat PROVE Orderly(c)' /\ Recorded(c)'
    <3>1. Orderly(c) /\ Recorded(c) BY DEF Dispatches
    <3>2. \A v \in Workers : Busy(v, c)' <=> Busy(v, c) BY <1>1, <2>1 DEF Busy
    <3>3. \A v \in Workers : \A d : InHand(v, d)' <=> InHand(v, d) BY <1>1, <2>1 DEF InHand
    <3>4. CASE c # b
      <4>1. Of(c)' = Of(c) /\ \A d \in Of(c) : deliveries'[d] = deliveries[d] BY <2>3, <2>9, <3>4 DEF Of
      <4>2. \A v \in Workers : Busy(v, c) => v # w /\ work'[v] = work[v] BY <2>1, <3>4 DEF Busy
      <4>3. Orderly(c)' BY <1>1, <3>1, <3>2, <4>1, <4>2 DEF Orderly, Had
      <4>4. \A v \in Workers : Busy(v, c) /\ work[v].pc \in Sends => work[v].left \subseteq Of(c)
        BY DEF BroadcastTypeOK, Placed, Busy
      <4>5. Recorded(c)' BY <1>1, <3>1, <3>2, <3>3, <4>1, <4>2, <4>4 DEF Recorded, Had
      <4> QED BY <4>3, <4>5
    <3>5. CASE c = b
      <4> SUFFICES ASSUME ~Had(c, "overlap") PROVE Orderly(c)' /\ Recorded(c)'
        BY <1>1 DEF Orderly, Recorded, Had
      <4>1. Busy(w, c) BY <1>1, <3>5 DEF Busy
      <4>2. Of(c) = {} /\ \A v \in Workers : Busy(v, c) => v = w BY <1>1, <3>1, <4>1 DEF Orderly
      <4>3. Of(c)' = new BY <2>9, <3>5, <4>2
      <4>4. Orderly(c)' BY <2>1, <2>7, <3>2, <4>2, <4>3 DEF Orderly
      <4>5. Recorded(c)' BY <2>1, <2>6, <3>2, <4>2, <4>3 DEF Recorded
      <4> QED BY <4>4, <4>5
    <3> QED BY <3>4, <3>5
  <2> QED BY <2>13, <2>14 DEF Dispatches
<1> QED BY <1>2, <1>3 DEF CreateDeliveries, Made

(* The stages of a dispatch that send nothing. *)
LEMMA StageSteps ==
    ASSUME BroadcastTypeOK, Dispatches, NEW w \in Workers,
           StartProcessing(w) \/ RecalculateCampaign(w) \/ EndDispatch(w)
    PROVE  Moves /\ Dispatches'
<1>1. UNCHANGED <<deliveries, trouble>> BY DEF StartProcessing, RecalculateCampaign, EndDispatch
<1>2. CASE StartProcessing(w) \/ RecalculateCampaign(w)
  <2>1. /\ work[w].pc \in {"start", "count"} /\ work' = [work EXCEPT ![w].pc = "next"]
        /\ UNCHANGED <<draft, logged>>
    BY <1>2 DEF StartProcessing, RecalculateCampaign, Doing
  <2>2. CampaignsKept /\ Numbers' = Numbers
    BY <1>2, CampaignSet, BooksUnchanged DEF StartProcessing, RecalculateCampaign, Recalculated
  <2>3. DeliveriesKept BY <1>1, BooksUnchanged
  <2>4. /\ work' = [v \in Workers |-> work'[v]] /\ \A v \in Workers : v # w => work'[v] = work[v]
        /\ Placed(w, work'[w])
        /\ work'[w].pc = "next" /\ work'[w].campaign = work[w].campaign /\ work'[w].stage = work[w].stage
        /\ work'[w].left = work[w].left
    BY <2>1, OnwardStep DEF Sends
  <2>5. Stays(w) BY <2>1, <2>4 DEF Stays, Sends
  <2>6. Moves BY <1>1, <2>1, <2>2, <2>3, <2>4, <2>5, StaysMoves, OldDeliveries
  <2>7. Dispatches' BY <1>1, <2>1, <2>4, <2>5, StageStep DEF Sends
  <2> QED BY <2>6, <2>7
<1>3. CASE EndDispatch(w)
  <2>1. work[w].pc = "next" /\ Finish(w) /\ UNCHANGED campaigns BY <1>3 DEF EndDispatch, Doing
  <2>2. CampaignsKept /\ DeliveriesKept /\ Numbers' = Numbers BY <1>1, <2>1, BooksUnchanged
  <2>3. /\ Moves /\ \A v \in Workers : v # w => work'[v] = work[v]
        /\ work'[w].pc \in {"idle", "rules", "fetch"}
    BY <1>1, <2>1, <2>2, EndMoves DEF Sends
  <2>4. Calm BY <1>1, <2>1, <2>3 DEF Calm, Settles
  <2> QED BY <1>1, <2>3, <2>4, CalmStep
<1> QED BY <1>2, <1>3

(* The delivery a dispatch is at. *)
LEMMA TheNext ==
    ASSUME BroadcastTypeOK, NEW w \in Workers, work[w].pc \in Sends, work[w].left # {}
    PROVE  LET d == Min(work[w].left) IN
           d \in work[w].left /\ d \in DOMAIN deliveries /\ d \in Of(work[w].campaign)
           /\ work[w].campaign \in Nat
<1>1. work[w].left \subseteq Of(work[w].campaign) /\ work[w].campaign \in Numbers
  BY DEF BroadcastTypeOK, Placed
<1>2. Of(work[w].campaign) \subseteq DOMAIN deliveries BY DEF Of
<1>3. DOMAIN deliveries \subseteq Nat /\ Numbers \subseteq Nat BY DEF BroadcastTypeOK, Numbers
<1>4. Min(work[w].left) \in work[w].left BY <1>1, <1>2, <1>3, MinIsLeast
<1> QED BY <1>1, <1>2, <1>3, <1>4

(* What one delivery undergoes concerns no other campaign. *)
LEMMA OtherCampaigns ==
    ASSUME BroadcastTypeOK, Dispatches, NEW w \in Workers, NEW d \in Of(work[w].campaign),
           DeliveriesKept, DOMAIN deliveries' = DOMAIN deliveries,
           \A e \in DOMAIN deliveries : e # d => deliveries'[e] = deliveries[e],
           \A v \in Workers : v # w => work'[v] = work[v],
           \/ work'[w].pc \in {"idle", "rules", "fetch"} 
           \/ work'[w].campaign = work[w].campaign,
           trouble \subseteq trouble', NEW c \in Nat, c # work[w].campaign
    PROVE  Orderly(c)' /\ Recorded(c)'
<1>1. Orderly(c) /\ Recorded(c) BY DEF Dispatches
<1>2. d \notin Of(c) BY DEF Of
<1>3. Of(c)' = Of(c) BY DEF Of, DeliveriesKept
<1>4. \A e \in Of(c) : deliveries'[e] = deliveries[e] BY <1>2 DEF Of
<1>5. \A v \in Workers : (Busy(v, c)' <=> Busy(v, c)) /\ (Busy(v, c) => work'[v] = work[v])
  BY DEF Busy
<1>6. \A v \in Workers : Busy(v, c) /\ work[v].pc \in Sends => work[v].left \subseteq Of(c)
  BY DEF BroadcastTypeOK, Placed, Busy
<1>7. Orderly(c)' BY <1>1, <1>3, <1>4, <1>5 DEF Orderly, Had
<1>8. \A v \in Workers : \A e : Busy(v, c) => (InHand(v, e)' <=> InHand(v, e)) BY <1>5 DEF InHand
<1>9. Recorded(c)' BY <1>1, <1>3, <1>4, <1>5, <1>6, <1>8 DEF Recorded, Had
<1> QED BY <1>7, <1>9

(* A message is out before it is recorded, unless the dispatch is lost. *)
LEMMA DeliverStep ==
    ASSUME BroadcastTypeOK, Dispatches, NEW w \in Workers, DeliverOne(w)
    PROVE  Moves /\ Dispatches'
<1> DEFINE d == Min(work[w].left)
           b == work[w].campaign
<1>1. work[w].pc = "next" /\ work[w].left # {} /\ UNCHANGED campaigns BY DEF DeliverOne, Doing
<1>2. d \in work[w].left /\ d \in DOMAIN deliveries /\ d \in Of(b) /\ b \in Nat
  BY <1>1, TheNext DEF Sends
<1>3. CampaignsKept /\ Numbers' = Numbers BY <1>1, BooksUnchanged
<1>4. Sent(d) => /\ DeliveriesKept /\ DOMAIN deliveries' = DOMAIN deliveries
                 /\ \A e \in DOMAIN deliveries : e # d => deliveries'[e] = deliveries[e]
                 /\ deliveries'[d].status = deliveries[d].status
                 /\ deliveries'[d].copies = deliveries[d].copies + 1
  <2> HIDE DEF d
  <2> QED BY <1>2, DeliverySet DEF Sent
<1>5. ASSUME NEW p \in {"sent", "failed"}, work' = [work EXCEPT ![w].pc = p]
      PROVE  /\ work' = [v \in Workers |-> work'[v]] /\ \A v \in Workers : v # w => work'[v] = work[v]
             /\ Placed(w, work'[w])
             /\ work'[w].pc = p /\ work'[w].campaign = b /\ work'[w].stage = work[w].stage
             /\ work'[w].left = work[w].left /\ Stays(w)
  <2>1. /\ work' = [v \in Workers |-> work'[v]] /\ \A v \in Workers : v # w => work'[v] = work[v]
        /\ Placed(w, work'[w])
        /\ work'[w].pc = p /\ work'[w].campaign = b /\ work'[w].stage = work[w].stage
        /\ work'[w].left = work[w].left
    BY <1>1, <1>5, OnwardStep DEF Sends
  <2> QED BY <1>1, <2>1 DEF Stays, Sends
<1>6. CASE Sent(d) /\ work' = [work EXCEPT ![w].pc = "sent"] /\ UNCHANGED <<draft, logged, trouble>>
  <2>1. /\ work' = [v \in Workers |-> work'[v]] /\ \A v \in Workers : v # w => work'[v] = work[v]
        /\ Placed(w, work'[w]) /\ Stays(w)
        /\ work'[w].pc = "sent" /\ work'[w].campaign = b /\ work'[w].left = work[w].left
    BY <1>5, <1>6
  <2>2. Moves BY <1>3, <1>4, <1>6, <2>1, StaysMoves, OldDeliveries
  <2>3. ASSUME NEW c \in Nat PROVE Orderly(c)' /\ Recorded(c)'
    <3>1. CASE c # b
      <4> HIDE DEF d
      <4> QED BY <1>2, <1>4, <1>6, <2>1, <3>1, OtherCampaigns
    <3>2. CASE c = b
      <4>1. Orderly(c) /\ Recorded(c) BY DEF Dispatches
      <4>2. \A v \in Workers : Busy(v, c)' <=> Busy(v, c) BY <1>1, <2>1 DEF Busy
      <4>3. Of(c)' = Of(c) BY <1>4, <1>6 DEF Of, DeliveriesKept
      <4>4. \A e \in Of(c) : deliveries'[e].to = deliveries[e].to BY <1>4, <1>6 DEF Of, DeliveriesKept
      <4>5. Orderly(c)' BY <1>6, <2>1, <4>1, <4>2, <4>3, <4>4 DEF Orderly, Had
      <4>6. Recorded(c)'
        <5> SUFFICES ASSUME ~Had(c, "overlap"), ~Had(c, "unmarked") PROVE Recorded(c)'
          BY <1>6 DEF Recorded, Had
        <5>1. Busy(w, c) /\ \A v \in Workers : Busy(v, c) => v = w
          BY <1>1, <3>2, <4>1 DEF Busy, Orderly
        <5>2. \A e : ~InHand(w, e) BY <1>1 DEF InHand
        <5>3. /\ \A e \in Of(c) : deliveries[e].copies = 0 \/ (deliveries[e].copies = 1 /\ deliveries[e].status = "sent")
              /\ \A e \in work[w].left : deliveries[e].copies = 0
          BY <1>1, <4>1, <5>1, <5>2 DEF Recorded, Sends
        <5>4. \A e : e = d => InHand(w, e)' BY <1>2, <2>1 DEF InHand
        <5>5. deliveries'[d].copies = 1 BY <1>2, <1>4, <1>6, <5>3
        <5>6. \A e \in Of(c) : e # d => deliveries'[e] = deliveries[e] BY <1>4, <1>6 DEF Of
        <5>7. work[w].left \subseteq Of(c) BY <1>1, <3>2 DEF BroadcastTypeOK, Placed, Sends
        <5> HIDE DEF d
        <5>8. \A e \in Of(c) :
                \/ deliveries'[e].copies = 0
                \/ deliveries'[e].copies = 1 /\ (deliveries'[e].status = "sent" \/ (Busy(w, c)' /\ InHand(w, e)'))
          BY <4>2, <5>1, <5>3, <5>4, <5>5, <5>6
        <5>9. \A e \in work'[w].left : deliveries'[e].copies = 0 \/ InHand(w, e)'
          BY <2>1, <5>3, <5>4, <5>6, <5>7
        <5> QED BY <4>2, <4>3, <5>1, <5>8, <5>9 DEF Recorded
      <4> QED BY <4>5, <4>6
    <3> QED BY <3>1, <3>2
  <2> QED BY <2>2, <2>3 DEF Dispatches
<1>7. CASE work' = [work EXCEPT ![w].pc = "failed"] /\ UNCHANGED <<deliveries, draft, logged, trouble>>
  <2>1. /\ work' = [v \in Workers |-> work'[v]] /\ \A v \in Workers : v # w => work'[v] = work[v]
        /\ Placed(w, work'[w]) /\ Stays(w)
        /\ work'[w].pc = "failed" /\ work'[w].left = work[w].left
    BY <1>5, <1>7
  <2>2. DeliveriesKept BY <1>7, BooksUnchanged
  <2>3. Moves BY <1>3, <1>7, <2>1, <2>2, StaysMoves, OldDeliveries
  <2>4. Dispatches' BY <1>1, <1>7, <2>1, StageStep DEF Sends
  <2> QED BY <2>3, <2>4
<1>8. CASE Raise(w) /\ UNCHANGED deliveries /\ trouble' = trouble \union {<<b, "raised">>}
  <2>1. DeliveriesKept BY <1>8, BooksUnchanged
  <2>2. /\ Moves /\ \A v \in Workers : v # w => work'[v] = work[v]
        /\ work'[w].pc \in {"idle", "rules", "fetch"}
    BY <1>1, <1>3, <1>8, <2>1, EndMoves DEF Sends
  <2>3. Calm BY <1>1, <1>8, <2>2 DEF Calm, Settles
  <2> QED BY <1>8, <2>2, <2>3, CalmStep
<1>9. CASE Raise(w) /\ Sent(d) /\ trouble' = trouble \union {<<b, "raised">>, <<b, "unmarked">>}
  <2>1. /\ Moves /\ \A v \in Workers : v # w => work'[v] = work[v]
        /\ work'[w].pc \in {"idle", "rules", "fetch"}
    BY <1>1, <1>3, <1>4, <1>9, EndMoves DEF Sends
  <2>2. ASSUME NEW c \in Nat PROVE Orderly(c)' /\ Recorded(c)'
    <3>1. CASE c # b
      <4> HIDE DEF d
      <4> QED BY <1>2, <1>4, <1>9, <2>1, <3>1, OtherCampaigns
    <3>2. CASE c = b
      <4>1. Orderly(c) BY DEF Dispatches
      <4>2. \A v \in Workers : Busy(v, c)' => v # w /\ Busy(v, c) /\ work'[v] = work[v] BY <2>1 DEF Busy
      <4>3. Of(c)' = Of(c) BY <1>4, <1>9 DEF Of, DeliveriesKept
      <4>4. \A e \in Of(c) : deliveries'[e].to = deliveries[e].to BY <1>4, <1>9 DEF Of, DeliveriesKept
      <4>5. Orderly(c)' BY <1>9, <4>1, <4>2, <4>3, <4>4 DEF Orderly, Had
      <4>6. Recorded(c)' BY <1>9, <3>2 DEF Recorded, Had
      <4> QED BY <4>5, <4>6
    <3> QED BY <3>1, <3>2
  <2> QED BY <2>1, <2>2 DEF Dispatches
<1> QED BY <1>6, <1>7, <1>8, <1>9 DEF DeliverOne

(* The record of what became of a message. *)
LEMMA MarkStep ==
    ASSUME BroadcastTypeOK, Dispatches, NEW w \in Workers, UpdateDeliveryStatus(w)
    PROVE  Moves /\ Dispatches'
<1> DEFINE d == Min(work[w].left)
           b == work[w].campaign
           s == work[w].pc
           t == [work[w] EXCEPT !.pc = "count", !.left = @ \ {Min(@)}]
<1>1. s \in {"sent", "failed"} /\ UNCHANGED <<campaigns, draft, logged, trouble>>
      /\ deliveries' = [deliveries EXCEPT ![d].status = s]
  BY DEF UpdateDeliveryStatus
<1>2. Placed(w, work[w]) BY DEF BroadcastTypeOK
<1>3. d \in work[w].left /\ d \in DOMAIN deliveries /\ d \in Of(b) /\ b \in Nat
  BY <1>1, <1>2, TheNext DEF Sends, Placed
<1>4. CampaignsKept /\ Numbers' = Numbers BY <1>1, BooksUnchanged
<1>5. /\ DeliveriesKept /\ DOMAIN deliveries' = DOMAIN deliveries
      /\ \A e \in DOMAIN deliveries : e # d => deliveries'[e] = deliveries[e]
      /\ deliveries'[d].status = s /\ deliveries'[d].copies = deliveries[d].copies
  <2> HIDE DEF d
  <2> QED BY <1>1, <1>3, DeliverySet
<1>6. work' = [work EXCEPT ![w] = t] BY DEF UpdateDeliveryStatus, BroadcastTypeOK
<1>7. Sending(work[w]) /\ work[w].left \subseteq Of(b) /\ b \in Numbers BY <1>1, <1>2 DEF Placed, Sends
<1>8. /\ t.pc = "count" /\ t.campaign = b /\ t.todo = work[w].todo /\ t.stage = work[w].stage
      /\ t.left = work[w].left \ {d} /\ Sending(t)
  <2> DEFINE u == work[w]
  <2> HIDE DEF u
  <2>1. Sending(u) BY <1>7 DEF u
  <2>2. ASSUME NEW x, x = [u EXCEPT !.pc = "count", !.left = u.left \ {Min(u.left)}]
        PROVE  /\ x.pc = "count" /\ x.campaign = u.campaign /\ x.todo = u.todo /\ x.stage = u.stage
               /\ x.left = u.left \ {Min(u.left)} /\ Sending(x)
    <3>1. x = [pc |-> "count", campaign |-> u.campaign, todo |-> u.todo, stage |-> u.stage,
               left |-> u.left \ {Min(u.left)}]
      BY <2>1, <2>2 DEF Sending
    <3> QED BY <3>1 DEF Sending
  <2> QED BY <2>2 DEF u
<1> HIDE DEF t
<1>9. /\ work' = [v \in Workers |-> work'[v]] /\ work'[w] = t
      /\ \A v \in Workers : v # w => work'[v] = work[v]
  BY <1>6, WorkSet
<1>10. Placed(w, work'[w]) BY <1>1, <1>2, <1>7, <1>8, <1>9 DEF Placed, Looks, Sends
<1>11. Stays(w) BY <1>1, <1>8, <1>9 DEF Stays, Sends
<1>12. Moves BY <1>1, <1>4, <1>5, <1>10, <1>11, StaysMoves, OldDeliveries
<1>13. ASSUME NEW c \in Nat PROVE Orderly(c)' /\ Recorded(c)'
  <2>1. CASE c # b
    <3> HIDE DEF d
    <3> QED BY <1>1, <1>3, <1>5, <1>8, <1>9, <2>1, OtherCampaigns
  <2>2. CASE c = b
    <3>1. Orderly(c) /\ Recorded(c) BY DEF Dispatches
    <3>2. \A v \in Workers : Busy(v, c)' <=> Busy(v, c) BY <1>1, <1>8, <1>9 DEF Busy
    <3>3. Of(c)' = Of(c) BY <1>5 DEF Of, DeliveriesKept
    <3>4. \A e \in Of(c) : deliveries'[e].to = deliveries[e].to BY <1>5 DEF Of, DeliveriesKept
    <3>5. Orderly(c)' BY <1>1, <1>8, <1>9, <3>1, <3>2, <3>3, <3>4 DEF Orderly, Had
    <3>6. Recorded(c)'
      <4> SUFFICES ASSUME ~Had(c, "overlap"), ~Had(c, "unmarked") PROVE Recorded(c)'
        BY <1>1 DEF Recorded, Had
      <4>1. Busy(w, c) /\ \A v \in Workers : Busy(v, c) => v = w
        BY <1>1, <2>2, <3>1 DEF Busy, Orderly
      <4>2. \A e : InHand(w, e) => e = d BY DEF InHand
      <4>3. /\ \A e \in Of(c) : \/ deliveries[e].copies = 0
                                 \/ /\ deliveries[e].copies = 1
                                    /\ deliveries[e].status = "sent" \/ InHand(w, e)
            /\ \A e \in work[w].left : deliveries[e].copies = 0 \/ InHand(w, e)
        BY <1>1, <3>1, <4>1 DEF Recorded, Sends
      <4>4. \A e \in Of(c) : e # d => deliveries'[e] = deliveries[e] BY <1>5 DEF Of
      <4>5. deliveries[d].copies = 0 \/ (deliveries[d].copies = 1 /\ s = "sent")
        BY <1>3, <2>2, <4>3 DEF InHand
      <4> HIDE DEF d
      <4>6. \A e \in Of(c) : \/ deliveries'[e].copies = 0
                             \/ deliveries'[e].copies = 1 /\ deliveries'[e].status = "sent"
        BY <1>5, <4>2, <4>3, <4>4, <4>5
      <4>7. \A e \in work'[w].left : deliveries'[e].copies = 0
        BY <1>7, <1>8, <1>9, <2>2, <4>2, <4>3, <4>4
      <4> QED BY <3>2, <3>3, <4>1, <4>6, <4>7 DEF Recorded
    <3> QED BY <3>5, <3>6
  <2> QED BY <2>1, <2>2
<1> QED BY <1>12, <1>13 DEF Dispatches

(* The timer's pass begins. *)
LEMMA PassStep ==
    ASSUME BroadcastTypeOK, Dispatches, ProcessPendingCampaigns
    PROVE  Moves /\ Dispatches'
<1>1. /\ Timer \in Workers /\ work[Timer].pc = "idle"
      /\ UNCHANGED <<campaigns, deliveries, draft, logged, trouble>>
  BY DEF ProcessPendingCampaigns, Doing, Workers
<1>2. PICK t : work' = [work EXCEPT ![Timer] = t] /\ Placed(Timer, t) /\ t.pc \in {"rules", "fetch"}
  <2>1. CASE work' = [work EXCEPT ![Timer] = [pc |-> "rules"]]
    <3> DEFINE t == [pc |-> "rules"]
    <3>1. t.pc \in {"rules", "fetch"} /\ Placed(Timer, t) BY DEF Placed, Looks, Sends
    <3>2. work' = [work EXCEPT ![Timer] = t] BY <2>1
    <3> HIDE DEF t
    <3> QED BY <3>1, <3>2
  <2>2. CASE Pending # {} /\ work' = [work EXCEPT ![Timer] = FirstOf(Pending)]
    <3>1. Pending \subseteq Numbers /\ Numbers \subseteq Nat BY DEF BroadcastTypeOK, Numbers, Pending
    <3>2. Min(Pending) \in Pending BY <2>2, <3>1, MinIsLeast
    <3>3. Placed(Timer, FirstOf(Pending)) /\ FirstOf(Pending).pc = "fetch"
      BY <3>1, <3>2 DEF FirstOf, Dispatching, Placed, Looking, Looks, Sends
    <3> QED BY <2>2, <3>3
  <2> QED BY <2>1, <2>2 DEF ProcessPendingCampaigns
<1>3. /\ work' = [v \in Workers |-> work'[v]] /\ work'[Timer] = t
      /\ \A v \in Workers : v # Timer => work'[v] = work[v]
  BY <1>1, <1>2, WorkSet
<1>4. CampaignsKept /\ DeliveriesKept /\ Numbers' = Numbers BY <1>1, BooksUnchanged
<1>5. BroadcastTypeOK' BY <1>1, <1>2, <1>3, <1>4, WorkerType, OldDeliveries DEF BroadcastTypeOK
<1>6. \A c : ~AtTrigger(c) BY <1>1 DEF AtTrigger, Looks, Sends
<1>7. Moves BY <1>1, <1>4, <1>5, <1>6 DEF Moves
<1>8. Calm BY <1>1, <1>2, <1>3 DEF Calm, Settles
<1> QED BY <1>1, <1>7, <1>8, CalmStep

(* What the owner, a subscriber and the calendar do. *)
LEMMA OutsideStep ==
    ASSUME BroadcastTypeOK, Dispatches,
           FillForm \/ (\E d : MarkDeliveryClicked(d)) \/ (\E c : ScheduleComes(c)) \/ UNCHANGED broadcastVars
    PROVE  Moves /\ Dispatches'
<1>1. UNCHANGED <<work, deliveries, trouble, logged>> /\ draft' \in BOOLEAN
  BY DEF FillForm, MarkDeliveryClicked, ScheduleComes, broadcastVars, BroadcastTypeOK
<1>2. CampaignsKept /\ Numbers' = Numbers
  BY CampaignSet, BooksUnchanged DEF FillForm, MarkDeliveryClicked, ScheduleComes, Recalculated, broadcastVars
<1>3. DeliveriesKept BY <1>1, BooksUnchanged
<1>4. BroadcastTypeOK' BY <1>1, <1>2, <1>3, WorkerType, OldDeliveries DEF BroadcastTypeOK
<1>5. \A c : AtTrigger(c) => AtTrigger(c)' BY <1>1 DEF AtTrigger
<1>6. Moves BY <1>1, <1>2, <1>3, <1>4, <1>5 DEF Moves
<1>7. Calm BY <1>1 DEF Calm
<1> QED BY <1>1, <1>6, <1>7, CalmStep

(* A process dies: what its dispatches were at is on record. *)
LEMMA DeathStep ==
    ASSUME BroadcastTypeOK, Dispatches, NEW ws, ws \in {Composers, {Timer}}, ProcessDies(ws)
    PROVE  Moves /\ Dispatches'
<1> DEFINE lost == {w \in ws : work[w].pc # "idle" /\ work[w].pc # "rules"}
<1>1. /\ UNCHANGED <<campaigns, deliveries, logged>> /\ draft' \in BOOLEAN
      /\ work' = [w \in Workers |-> IF w \in ws THEN Resting ELSE work[w]]
      /\ trouble' = trouble \union {<<work[w].campaign, "died">> : w \in lost}
                       \union {<<work[w].campaign, "unmarked">> : w \in {v \in lost : work[v].pc = "sent"}}
  BY DEF ProcessDies, Doing, BroadcastTypeOK
<1>2. \A w \in ws : w \in Workers /\ Placed(w, Resting) BY DEF Workers, Placed, Resting, Looks, Sends
<1>3. CampaignsKept /\ DeliveriesKept /\ Numbers' = Numbers BY <1>1, BooksUnchanged
<1>4. \A w \in Workers : work'[w] = work[w] \/ (w \in ws /\ work'[w] = Resting) BY <1>1
<1>5. BroadcastTypeOK'
  <2>1. work' = [v \in Workers |-> work'[v]] BY <1>1
  <2>2. \A v \in Workers : work'[v] = work[v] \/ Placed(v, work'[v]) BY <1>2, <1>4
  <2> QED BY <1>1, <1>3, <2>1, <2>2, WorkerType, OldDeliveries DEF BroadcastTypeOK
<1>6. trouble \subseteq trouble' BY <1>1
<1>7. ASSUME NEW c, AtTrigger(c) PROVE AtTrigger(c)' \/ Traced(c)'
  <2>1. CASE work'[Timer] = work[Timer] BY <1>7, <2>1 DEF AtTrigger
  <2>2. CASE Timer \in ws
    <3>1. Timer \in lost /\ work[Timer].campaign = c BY <1>7, <2>2 DEF AtTrigger, Looks, Sends
    <3>2. <<c, "died">> \in trouble' BY <1>1, <3>1
    <3> QED BY <3>2 DEF Traced, Had
  <2> QED BY <1>4, <2>1, <2>2 DEF Workers
<1>8. Moves BY <1>1, <1>3, <1>5, <1>6, <1>7 DEF Moves, BroadcastTypeOK
<1>9. Calm
  <2> SUFFICES ASSUME NEW v \in Workers, v \in ws, work'[v] = Resting PROVE Settles(v)
    BY <1>1, <1>4 DEF Calm
  <2>1. work[v].pc = "sent" => <<work[v].campaign, "unmarked">> \in trouble' BY <1>1
  <2> QED BY <2>1 DEF Settles, Resting
<1> QED BY <1>6, <1>8, <1>9, CalmStep

LEMMA BroadcastMoves ==
    ASSUME BroadcastTypeOK, Dispatches, [BroadcastNext]_broadcastVars
    PROVE  Moves /\ Dispatches'
<1>1. CASE FillForm \/ (\E d : MarkDeliveryClicked(d)) \/ (\E c : ScheduleComes(c)) \/ UNCHANGED broadcastVars
  BY <1>1, OutsideStep
<1>2. ASSUME \/ \E w \in Workers : (\E form \in Forms : SendCampaignFromState(w, form)) \/ TriggerTest(w)
             \/ ProcessTriggerRules
      PROVE  Moves /\ Dispatches'
  <2>1. Moves /\ Calm BY <1>2, LaunchSteps
  <2> QED BY <2>1, CalmStep DEF Moves
<1>3. ASSUME NEW w \in Workers,
             \/ DispatchCampaign(w) \/ ListDeliveries(w) \/ CreateDeliveries(w)
             \/ StartProcessing(w) \/ DeliverOne(w) \/ UpdateDeliveryStatus(w)
             \/ RecalculateCampaign(w) \/ EndDispatch(w)
      PROVE  Moves /\ Dispatches'
  BY <1>3, FetchStep, ListStep, MakeStep, StageSteps, DeliverStep, MarkStep
<1>4. CASE ProcessPendingCampaigns BY <1>4, PassStep
<1>5. CASE ProcessDies(Composers) \/ ProcessDies({Timer}) BY <1>5, DeathStep
<1> QED BY <1>1, <1>2, <1>3, <1>4, <1>5 DEF BroadcastNext

-----------------------------------------------------------------------------
(* A trigger's campaign is under way, or the log or a record of what went   *)
(* wrong shows that it was; and a second comes only after the latter.       *)
Triggers ==
    \A c \in Numbers : campaigns[c].kind = "trigger" =>
        /\ Traced(c) \/ AtTrigger(c)
        /\ \A e \in Numbers : e < c /\ campaigns[e].kind = "trigger" => Had(e, "raised") \/ Had(e, "died")

LEMMA TriggersStep == ASSUME BroadcastTypeOK, Triggers, Moves PROVE Triggers'
<1>1. Numbers \subseteq Nat /\ Numbers \subseteq Numbers'
      /\ \A c \in Numbers : campaigns'[c].kind = campaigns[c].kind
  BY DEF BroadcastTypeOK, Numbers, Moves, CampaignsKept
<1>2. \A c, what : Had(c, what) => Had(c, what)' BY DEF Moves, Had
<1>3. \A c : Traced(c) => Traced(c)' BY <1>2 DEF Moves, Traced
<1> SUFFICES ASSUME NEW c \in Numbers', campaigns'[c].kind = "trigger"
             PROVE  /\ Traced(c)' \/ AtTrigger(c)'
                    /\ \A e \in Numbers' : e < c /\ campaigns'[e].kind = "trigger" =>
                          Had(e, "raised")' \/ Had(e, "died")'
  BY DEF Triggers
<1>4. Traced(c)' \/ AtTrigger(c)'
  <2>1. CASE c \in Numbers BY <1>1, <1>3, <2>1 DEF Triggers, Moves
  <2>2. CASE c \notin Numbers BY <2>2 DEF Moves
  <2> QED BY <2>1, <2>2
<1>5. ASSUME NEW e \in Numbers', e < c, campaigns'[e].kind = "trigger"
      PROVE  Had(e, "raised")' \/ Had(e, "died")'
  <2>1. CASE c \in Numbers /\ e \in Numbers BY <1>1, <1>2, <1>5, <2>1 DEF Triggers
  <2>2. CASE c \notin Numbers /\ e \in Numbers
    <3>1. logged = FALSE /\ work[Timer].pc = "rules" BY <2>2 DEF Moves
    <3>2. ~AtTrigger(e) BY <3>1 DEF AtTrigger, Looks, Sends
    <3>3. Had(e, "raised") \/ Had(e, "died") BY <1>1, <1>5, <2>2, <3>1, <3>2 DEF Triggers, Traced
    <3> QED BY <1>2, <3>3
  <2>3. CASE c \in Numbers /\ e \notin Numbers
    <3>1. c < e BY <1>5, <2>3 DEF Moves
    <3>2. e \in Nat /\ c \in Nat BY DEF Moves, BroadcastTypeOK, Numbers
    <3> QED BY <1>5, <3>1, <3>2
  <2>4. CASE c \notin Numbers /\ e \notin Numbers
    <3>1. c = e BY <2>4 DEF Moves
    <3>2. c \in Nat BY DEF Moves, BroadcastTypeOK, Numbers
    <3> QED BY <1>5, <3>1, <3>2
  <2> QED BY <2>1, <2>2, <2>3, <2>4
<1> QED BY <1>4, <1>5

BroadcastInv == BroadcastTypeOK /\ Dispatches /\ Triggers

LEMMA BroadcastIsInvariant == BroadcastSpec => []BroadcastInv
<1>1. BroadcastInit => BroadcastInv
  <2> SUFFICES ASSUME BroadcastInit PROVE BroadcastInv
    OBVIOUS
  <2>1. /\ DOMAIN deliveries = {} /\ Numbers = {} /\ \A w \in Workers : work[w].pc = "idle"
    BY DEF BroadcastInit, Resting, Numbers
  <2>2. \A c : Of(c) = {} BY <2>1 DEF Of
  <2>3. \A w \in Workers : \A c : ~Busy(w, c) BY <2>1 DEF Busy
  <2>4. Dispatches BY <2>2, <2>3 DEF Dispatches, Orderly, Recorded
  <2> QED BY <2>1, <2>4, BroadcastTypeInit DEF BroadcastInv, Triggers
<1>2. BroadcastInv /\ [BroadcastNext]_broadcastVars => BroadcastInv'
  BY BroadcastMoves, TriggersStep DEF BroadcastInv, Moves
<1> QED BY <1>1, <1>2, PTL DEF BroadcastSpec

(* For any audience, composers and faults: dispatch_campaign sends a person *)
(* a campaign's message twice only if two dispatches of it overlapped or    *)
(* one was lost before update_delivery_status; and a trigger's campaign is  *)
(* made again only after a dispatch of it raised or died before the log.    *)
THEOREM CampaignsAreSentOnce == BroadcastSpec => []SentOnce
<1>1. ASSUME BroadcastInv, NEW c \in Numbers, NEW p, Twice(c, p) PROVE Had(c, "overlap") \/ Had(c, "unmarked")
  <2>1. c \in Nat BY <1>1 DEF BroadcastInv, BroadcastTypeOK, Numbers
  <2>2. Orderly(c) /\ Recorded(c) BY <1>1, <2>1 DEF BroadcastInv, Dispatches
  <2> QED BY <1>1, <2>2 DEF Twice, Orderly, Recorded
<1>2. ASSUME BroadcastInv, NEW c \in Numbers, NEW e \in 1..(c - 1),
             campaigns[c].kind = "trigger", campaigns[e].kind = "trigger"
      PROVE  Had(e, "raised") \/ Had(e, "died")
  <2>1. campaigns \in Seq(CampaignRow) BY <1>2 DEF BroadcastInv, BroadcastTypeOK
  <2>2. c \in 1..Len(campaigns) /\ Len(campaigns) \in Nat BY <2>1 DEF Numbers
  <2>3. e < c /\ e \in 1..Len(campaigns) BY <2>2
  <2>4. e \in Numbers BY <2>1, <2>3 DEF Numbers
  <2> QED BY <1>2, <2>3, <2>4 DEF BroadcastInv, Triggers
<1>3. BroadcastInv => SentOnce BY <1>1, <1>2 DEF SentOnce, Numbers
<1> QED BY <1>3, BroadcastIsInvariant, PTL
=============================================================================

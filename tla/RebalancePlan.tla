---------------------------- MODULE RebalancePlan ----------------------------
(***************************************************************************)
(* portfolio/src/rebalancer/plan.ts: which transfers bring the balances    *)
(* back to the configured targets.  An account is a pair <<venue, asset>>. *)
(* A target names an account and gives min, max and target, each of them a *)
(* number or Unset, and a priority.                                        *)
(***************************************************************************)
EXTENDS Integers, Sequences, SequencesExt, FiniteSets

Unset == -1

Venue(a) == a[1]
Asset(a) == a[2]

(* A list that gives each account one target, and asks for no amount below *)
(* zero.                                                                   *)
Proper(targets) ==
  /\ DOMAIN targets \subseteq Nat /\ IsFiniteSet(DOMAIN targets)
  /\ \A i \in DOMAIN targets :
       /\ {targets[i].min, targets[i].max, targets[i].target} \subseteq Nat \cup {Unset}
       /\ targets[i].priority \in Int
  /\ \A i, j \in DOMAIN targets : targets[i].account = targets[j].account => i = j

(* How far a target's account is below or above what it asks for.  A       *)
(* broken min outranks every priority by two, and hides a broken max.      *)
Gap(t, total) ==
  LET below == t.min # Unset /\ total < t.min
      above == t.max # Unset /\ total > t.max /\ ~below
      aim   == t.target # Unset /\ ~below /\ ~above
  IN CASE below -> [side |-> "deficit", amount |-> t.min - total, rank |-> t.priority + 2]
       [] above -> [side |-> "surplus", amount |-> total - t.max, rank |-> 0]
       [] aim /\ total < t.target ->
            [side |-> "deficit", amount |-> t.target - total, rank |-> t.priority]
       [] aim /\ total > t.target ->
            [side |-> "surplus", amount |-> total - t.target, rank |-> 0]
       [] OTHER -> [side |-> "none", amount |-> 0, rank |-> 0]

(* The elements of a finite set in the order of a relation.                *)
InOrder(S, before) ==
  [k \in 1..Cardinality(S) |->
     CHOOSE x \in S : Cardinality({y \in S : <<y, x>> \in before}) = k - 1]

(* Targets on one side are taken by rank and then by amount, both          *)
(* descending; Array.prototype.sort is stable.                             *)
TakenFirst(gaps, i, j) ==
  \/ gaps[i].rank > gaps[j].rank
  \/ gaps[i].rank = gaps[j].rank /\ gaps[i].amount > gaps[j].amount
  \/ gaps[i].rank = gaps[j].rank /\ gaps[i].amount = gaps[j].amount /\ i < j

On(side, gaps) == {i \in DOMAIN gaps : gaps[i].side = side}

(* The turns of the two loops: every deficit, and for it every surplus.    *)
Earlier(gaps) ==
  LET pairs == On("deficit", gaps) \X On("surplus", gaps)
  IN {turn \in pairs \X pairs :
        LET p == turn[1]
            q == turn[2]
        IN TakenFirst(gaps, p[1], q[1]) \/ (p[1] = q[1] /\ TakenFirst(gaps, p[2], q[2]))}

Turns(gaps) == InOrder(On("deficit", gaps) \X On("surplus", gaps), Earlier(gaps))

Least(x, y) == IF x <= y THEN x ELSE y

(* Defect: the surplus is not reduced by what was taken from it.           *)
TransferFreely(targets, state, pair) ==
  LET d == pair[1]
      s == pair[2]
      from == targets[s].account
      to == targets[d].account
      n == Least(state.left[d], state.left[s])
  IN IF Asset(from) # Asset(to) \/ Venue(from) = Venue(to) \/ n = 0 THEN state
     ELSE [left |-> [state.left EXCEPT ![d] = @ - n],
           available |-> state.available,
           transfers |-> Append(state.transfers, [from |-> from, to |-> to, amount |-> n])]

(* One turn of the inner loop; a deficit that is met breaks off its loop,  *)
(* which is the same as letting the remaining turns move nothing.          *)
Transfer(targets, state, pair) ==
  LET d == pair[1]
      s == pair[2]
      from == targets[s].account
      to == targets[d].account
      n == Least(state.left[d], Least(state.left[s], state.available[s]))
  IN IF Asset(from) # Asset(to) \/ Venue(from) = Venue(to) \/ n <= 0 THEN state
     ELSE [left |-> [state.left EXCEPT ![d] = @ - n, ![s] = @ - n],
           available |-> [state.available EXCEPT ![s] = @ - n],
           transfers |-> Append(state.transfers, [from |-> from, to |-> to, amount |-> n])]

(* How the balances stand to the targets.  A venue the ledger has not      *)
(* heard of holds nothing.                                                 *)
Holding(balances, a) ==
  IF a \in DOMAIN balances THEN balances[a] ELSE [available |-> 0, locked |-> 0]

Gaps(balances, targets) ==
  [i \in DOMAIN targets |->
     LET h == Holding(balances, targets[i].account)
     IN Gap(targets[i], h.available + h.locked)]

Opening(balances, targets) ==
  [left |-> [i \in DOMAIN targets |-> Gaps(balances, targets)[i].amount],
   available |-> [i \in DOMAIN targets |-> Holding(balances, targets[i].account).available],
   transfers |-> << >>]

(* What the loops have come to after each of the turns.                    *)
Course(targets, opening, turns) ==
  LET after[k \in 0..Len(turns)] ==
        IF k = 0 THEN opening ELSE Transfer(targets, after[k - 1], turns[k])
  IN after

(* balances: each account's [available, locked].  The result: the          *)
(* transfers in order, and what each target's deficit or surplus has left. *)
planRebalance(balances, targets) ==
  LET gaps == Gaps(balances, targets)
      turns == Turns(gaps)
      end == Course(targets, Opening(balances, targets), turns)[Len(turns)]
  IN [transfers |-> end.transfers, left |-> end.left, gaps |-> gaps]

-----------------------------------------------------------------------------
(* What the transfers take from, or bring to, an account.                  *)
Moved(transfers, end, a) ==
  FoldFunction(LAMBDA m, n : m + n, 0,
               [k \in DOMAIN transfers |->
                  IF transfers[k][end] = a THEN transfers[k].amount ELSE 0])

(* What a plan promises whoever executes it, with no word on how it is     *)
(* found: transfers go from a surplus to a deficit of the same asset,      *)
(* never more than there is or than is wanted; a deficit is left unmet     *)
(* only when every surplus it could draw on is spent; and then no deficit  *)
(* that ranks lower has drawn on such a surplus.                           *)
PlanIsSound(plan, targets) ==
  LET side(i) == plan.gaps[i].side
      usable(s, d) ==
        /\ side(s) = "surplus" /\ side(d) = "deficit"
        /\ Asset(targets[s].account) = Asset(targets[d].account)
        /\ Venue(targets[s].account) # Venue(targets[d].account)
      out(i) == Moved(plan.transfers, "from", targets[i].account)
      in(i) == Moved(plan.transfers, "to", targets[i].account)
  IN /\ \A i \in DOMAIN targets :
          /\ side(i) = "surplus" => in(i) = 0 /\ out(i) + plan.left[i] = plan.gaps[i].amount
          /\ side(i) = "deficit" => out(i) = 0 /\ in(i) + plan.left[i] = plan.gaps[i].amount
          /\ side(i) = "none" => in(i) = 0 /\ out(i) = 0
          /\ plan.left[i] >= 0
     /\ \A s, d \in DOMAIN targets : usable(s, d) => plan.left[s] = 0 \/ plan.left[d] = 0
     /\ \A s, d, e \in DOMAIN targets :
          usable(s, d) /\ plan.left[d] > 0 /\ plan.gaps[d].rank > plan.gaps[e].rank =>
            \A k \in DOMAIN plan.transfers :
              ~ (/\ plan.transfers[k].from = targets[s].account
                 /\ plan.transfers[k].to = targets[e].account)
=============================================================================

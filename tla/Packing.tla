------------------------------- MODULE Packing ------------------------------
(***************************************************************************)
(* What recall and context make of ranked memories: token estimates and    *)
(* strategies (src/recallum/memory/token_budget.py), the profile slices    *)
(* and their reserve (profile_select.py) and the assembly of the snapshot  *)
(* (context.py).  `memory' maps ids to records with the fields category,   *)
(* importance, chars, created, recalled (0 when it never was) and          *)
(* confirmed; an item is [id, chars], fewer chars than its memory has when *)
(* it is clipped.  NoBudget stands for max_tokens or a strategy left out.  *)
(***************************************************************************)
EXTENDS Fusion

CONSTANT NoBudget

EstimateTokens(chars) == (chars + 3) \div 4 + 8
Tokens(items) == AddUp([i \in DOMAIN items |-> EstimateTokens(items[i].chars)])
Chars(items) == AddUp([i \in DOMAIN items |-> items[i].chars])
ItemIds(items) == {items[i].id : i \in DOMAIN items}
Each(memory, field) == [m \in DOMAIN memory |-> memory[m][field]]
AtMost(n, m) == IF n < m THEN n ELSE m
Less(n, m) == IF n > m THEN n - m ELSE 0

(***************************************************************************)
(* Strategies.                                                             *)
(***************************************************************************)
CategoryPriority(strategy) ==
    CASE strategy = "debugging" -> <<"fact", "constraint", "decision", "preference">>
      [] strategy = "review" -> <<"constraint", "decision", "preference", "fact">>
      [] strategy \in {"architecture", "planning"} ->
            <<"decision", "constraint", "fact", "preference">>
      [] strategy = "coding" -> <<"constraint", "decision", "fact", "preference">>
      [] OTHER -> <<"preference", "constraint", "decision", "fact">>

Priority(strategy, category) == RankIn(CategoryPriority(strategy), category)
Priorities(strategy, memory) ==
    [m \in DOMAIN memory |-> Priority(strategy, memory[m].category)]

ReorderByStrategy(ids, strategy, memory) ==
    IF strategy = NoBudget THEN ids
    ELSE Ascending(ids, Priorities(strategy, memory))

(***************************************************************************)
(* pack_by_token_budget: the hits until one does not fit.                  *)
(***************************************************************************)
(* Mutant of Fits: the hit that crosses the budget is the last one. *)
FitsBefore(used, cost, maxTokens) == maxTokens = NoBudget \/ used < maxTokens
Fits(used, cost, maxTokens) == maxTokens = NoBudget \/ used + cost <= maxTokens

PackHit(pack, id, maxItems, maxTokens, memory) ==
    LET cost == EstimateTokens(memory[id].chars)
    IN IF ~pack.open \/ Len(pack.kept) >= maxItems \/ ~Fits(pack.used, cost, maxTokens)
       THEN [pack EXCEPT !.open = FALSE]
       ELSE [pack EXCEPT !.kept = Append(@, id), !.used = @ + cost]
PackByTokenBudget(ids, maxItems, maxTokens, memory) ==
    FoldLeft(LAMBDA pack, id : PackHit(pack, id, maxItems, maxTokens, memory),
             [kept |-> <<>>, used |-> 0, open |-> TRUE], ids).kept

(***************************************************************************)
(* The profile slices (select_profile_slices, apply_profile_budget).       *)
(***************************************************************************)
(* _clip_content: the chars of a line that are kept, 0 when none can be.   *)
Clip(chars, room) ==
    IF chars <= room THEN chars ELSE IF room < 2 THEN 0 ELSE room

(* Take items, each clipped to the room left, until one cannot be.         *)
TakeItem(t, item, maxItems, maxChars) ==
    LET chars == Clip(item.chars, Less(maxChars, Chars(t.items)))
    IN IF ~t.open \/ Len(t.items) >= maxItems \/ chars = 0
       THEN [t EXCEPT !.open = FALSE]
       ELSE [t EXCEPT !.items = Append(@, [id |-> item.id, chars |-> chars])]
TakeItems(taken, items, maxItems, maxChars) ==
    FoldLeft(LAMBDA t, item : TakeItem(t, item, maxItems, maxChars),
             [items |-> taken, open |-> TRUE], items).items

Whole(ids, memory) == [i \in DOMAIN ids |-> [id |-> ids[i], chars |-> memory[ids[i]].chars]]

StaticSlice(S, memory, maxItems, maxChars) ==
    LET eligible == Upwards({m \in S : memory[m].category \in {"preference", "constraint"}})
        confirmed == Descending(eligible, Each(memory, "confirmed"))
    IN TakeItems(<<>>, Whole(Descending(confirmed, Each(memory, "importance")), memory),
                 maxItems, maxChars)

DynamicOrder(S, memory) ==
    Descending(Descending(Upwards(S), Each(memory, "created")), Each(memory, "recalled"))
DynamicSlice(S, static, memory, maxItems, maxChars) ==
    TakeItems(<<>>, Whole(DynamicOrder({m \in S \ ItemIds(static) : memory[m].recalled > 0},
                                       memory), memory), maxItems, maxChars)

(* apply_profile_budget: static first, then dynamic, in one reserve.       *)
CapProfile(static, dynamic, maxItems, maxChars) ==
    TakeItems(TakeItems(<<>>, static, maxItems, maxChars), dynamic, maxItems, maxChars)

(***************************************************************************)
(* SessionContextBudget.assemble: focus hits lead, the pools follow by     *)
(* importance and recency, by category; the first budget that is exhausted *)
(* ends the snapshot, clipping its last item when enough room is left.     *)
(***************************************************************************)
Merged(globalTop, projectTop, memory) ==
    Descending(Descending(globalTop \o projectTop, Each(memory, "created")),
               Each(memory, "importance"))

PackingOrder(globalTop, projectTop, focus, exclude, strategy, memory) ==
    LET offered == FirstOccurrences(<<focus, Merged(globalTop, projectTop, memory)>>)
        ordered == ElementsAt(offered, {i \in DOMAIN offered : offered[i] \notin exclude})
    IN Ascending(ordered, Priorities(strategy, memory))

(* budget: [items, chars, tokens, floor] *)
AssembleNext(t, id, budget, memory) ==
    LET chars == memory[id].chars
        room  == budget.chars - Chars(t.kept)
        Keep(n) == Append(t.kept, [id |-> id, chars |-> n])
    IN IF \/ t.exhausted \/ Len(t.kept) >= budget.items
          \/ ~Fits(t.tokens, EstimateTokens(chars), budget.tokens)
          \/ chars > room /\ room < budget.floor
       THEN [t EXCEPT !.exhausted = TRUE]
       ELSE [kept |-> Keep(AtMost(chars, room)), exhausted |-> chars > room,
             tokens |-> t.tokens + EstimateTokens(chars)]
Assemble(order, budget, memory) ==
    FoldLeft(LAMBDA t, id : AssembleNext(t, id, budget, memory),
             [kept |-> <<>>, exhausted |-> FALSE, tokens |-> 0], order)
=============================================================================

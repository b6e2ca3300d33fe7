----------------------------- MODULE StateMachine -----------------------------
(***************************************************************************)
(* StateMachine of Application/app: a table of transitions, searched in    *)
(* the order in which they were added.  An action is known by what it does *)
(* outside the machine; it runs before the new state is assigned.          *)
(***************************************************************************)
EXTENDS Naturals, Sequences

AnyState == "any"   \* current_state is std::nullopt

Transition(current, event, next, action) ==
  [current |-> current, event |-> event, next |-> next, action |-> action]

Rows(table, current, event) ==
  {i \in DOMAIN table : table[i].current = current /\ table[i].event = event}

First(table, rows) == table[CHOOSE i \in rows : \A j \in rows : i <= j]

\* HandleEvent: the first exact transition, else the first global one, else none.
HandleEvent(table, state, event) ==
  LET exact == Rows(table, state, event)
      global == Rows(table, AnyState, event)
  IN  IF exact # {} THEN First(table, exact)
      ELSE IF global # {} THEN First(table, global)
      ELSE Transition(state, event, state, "none")
===============================================================================

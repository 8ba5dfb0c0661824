--------------------------- MODULE ProjectFilters ---------------------------
(***************************************************************************)
(* The filter bar's arithmetic: which projects a combination of filters    *)
(* leaves, what each option of a menu would leave, and what its "All" row  *)
(* does.  Operators only; Projects.tla keeps the state.                    *)
(*                                                                         *)
(* A list of projects is a function from their ids to what they are        *)
(* filtered on.  A menu is the set of the options it offers.               *)
(***************************************************************************)
EXTENDS Integers, FiniteSets, FiniteSetsExt

CONSTANT NoValue      \* a project without a type, or without a region

Groups == {"typeId", "regionId"}

NO_FILTERS ==
  [typeId |-> {}, regionId |-> {}, certificateIssued |-> FALSE, inProgressWorks |-> FALSE]

AnyFilterActive(f) == f # NO_FILTERS

(* An empty selection asks nothing; any other leaves out what has no value. *)
PassesGroup(chosen, value) == chosen = {} \/ (value # NoValue /\ value \in chosen)

PassesToggles(p, f) ==
  /\ f.certificateIssued => p.certificateIssued
  /\ f.inProgressWorks => p.inProgressWorks

MatchesFilters(p, f) ==
  /\ \A g \in Groups : PassesGroup(f[g], p[g])
  /\ PassesToggles(p, f)

FilterProjects(ps, f) == {p \in DOMAIN ps : MatchesFilters(ps[p], f)}

(* Everything but one group's own selection *)
PassesOtherThan(p, f, g) ==
  /\ \A h \in Groups \ {g} : PassesGroup(f[h], p[h])
  /\ PassesToggles(p, f)

CountsUnreachable(ps, f, g, offered) ==     \* a mutant: every value the projects carry
  LET values == {ps[p][g] : p \in DOMAIN ps} \ {NoValue} IN
  [o \in offered \cup values |-> Cardinality(
     {p \in DOMAIN ps : ps[p][g] = o /\ PassesOtherThan(ps[p], f, g)})]

(* What each option of a menu would leave.  A project whose value the menu *)
(* does not offer is not counted.                                          *)
FacetCounts(ps, f, g, offered) ==
  [o \in offered |-> Cardinality(
     {p \in DOMAIN ps : ps[p][g] = o /\ PassesOtherThan(ps[p], f, g)})]

FacetTotal(counts) == MapThenSumSet(LAMBDA o : counts[o], DOMAIN counts)

AllRowState(chosen, offered) ==
  IF chosen = {} THEN "none"
  ELSE IF offered # {} /\ offered \subseteq chosen THEN "all" ELSE "some"

ToggleAll(chosen, offered) ==
  IF AllRowState(chosen, offered) = "all" THEN {} ELSE offered

ToggleOption(chosen, o) == IF o \in chosen THEN chosen \ {o} ELSE chosen \cup {o}

=============================================================================

-------------------------- MODULE ComponentGrouping -------------------------
(***************************************************************************)
(* A project's components as its panel lists them: by type, by submission, *)
(* by label, by comment.  Operators only; Projects.tla keeps the state.    *)
(*                                                                         *)
(* A component is a record with the fields below.  Labels and comments are *)
(* numbers, in their natural order; 0 is no comment.                       *)
(*   id, type, category, subcategory, number, label, comment,              *)
(*   footprint, sensitive                                                  *)
(***************************************************************************)
EXTENDS Integers, Sequences, SequencesExt

TYPE_SECTIONS == <<"Project component", "Value component">>

MapSeq(Op(_), s) == [n \in DOMAIN s |-> Op(s[n])]

(* What map-api lists: feature_id is its table's key, and a component is of *)
(* one of the two types.                                                   *)
IsListing(cs) ==
  /\ cs \in Seq(ToSet(cs)) /\ IsInjective(MapSeq(LAMBDA c : c.id, cs))
  /\ \A c \in ToSet(cs) : /\ c.type \in ToSet(TYPE_SECTIONS)
                          /\ c.label \in Int /\ c.comment \in Int
                          /\ {c.footprint, c.sensitive} \subseteq BOOLEAN

(* The members of a finite set by a strict order: pairs, the first one before *)
Ordered(S, before) ==
  [n \in 1..Cardinality(S) |->
     CHOOSE x \in S : Cardinality({y \in S : <<y, x>> \in before}) = n - 1]

(* What a sequence has at some of its indices, in their order *)
At(s, I) == MapSeq(LAMBDA n : s[n], Ordered(I, {w \in I \X I : w[1] < w[2]}))

Having(s, of, key) == At(s, {n \in DOMAIN s : of[s[n]] = key})

(* Groups in first-seen order; of gives each member's key. *)
FirstSeen(s, of) ==
  MapSeq(LAMBDA x : of[x], At(s, {n \in DOMAIN s : \A m \in 1..(n - 1) : of[s[m]] # of[s[n]]}))

GroupBy(s, of) == MapSeq(LAMBDA key : Having(s, of, key), FirstSeen(s, of))

IdsOf(features) == MapSeq(LAMBDA c : c.id, features)

(* Only an amendment's number tells submissions apart. *)
SubmissionKey(c) ==
  <<c.type, c.category, c.subcategory, IF c.subcategory = "amendment" THEN c.number ELSE 0>>

(* Features sharing a comment are one row, known by its first feature. *)
Variant(features) ==
  [key |-> features[1].id, comment |-> features[1].comment, ids |-> IdsOf(features)]

CommentOrder(variants) == {w \in variants \X variants : w[1].comment < w[2].comment}

ByComment(variants) == Ordered(variants, CommentOrder(variants))

VariantsOf(features) ==
  ToSet(MapSeq(Variant, GroupBy(features, [c \in ToSet(features) |-> c.comment])))

LabelGroup(features) ==
  [label    |-> features[1].label,
   ids      |-> IdsOf(features),
   boundary |-> \E n \in DOMAIN features : features[n].footprint,
   variants |-> ByComment(VariantsOf(features))]

(* The project's boundary first *)
LabelOrder(labels) ==
  {w \in labels \X labels :
     \/ w[1].boundary /\ ~ w[2].boundary
     \/ w[1].boundary = w[2].boundary /\ w[1].label < w[2].label}

ByLabel(labels) == Ordered(labels, LabelOrder(labels))

LabelsOf(features) ==
  ToSet(MapSeq(LabelGroup, GroupBy(features, [c \in ToSet(features) |-> c.label])))

Submission(features) ==
  [key    |-> SubmissionKey(features[1]),
   ids    |-> IdsOf(features),
   labels |-> ByLabel(LabelsOf(features))]

Section(cs, t) ==
  [type        |-> t,
   submissions |-> MapSeq(Submission,
      GroupBy(Having(cs, [c \in ToSet(cs) |-> c.type], t),
              [c \in ToSet(cs) |-> SubmissionKey(c)]))]

(* Empty types are left out. *)
NotEmpty(sections) ==
  Having(sections, [g \in ToSet(sections) |-> g.submissions # <<>>], TRUE)

GroupComponents(cs) == NotEmpty(MapSeq(LAMBDA t : Section(cs, t), TYPE_SECTIONS))

Submissions(groups) == UNION {ToSet(g.submissions) : g \in ToSet(groups)}
Variants(groups)    == UNION {UNION {ToSet(l.variants) : l \in ToSet(s.labels)}
                                : s \in Submissions(groups)}

(* The features of the row with this key; none when no row has it *)
FindVariant(groups, key) == UNION {ToSet(v.ids) : v \in {w \in Variants(groups) : w.key = key}}

(* Where each feature's row is *)
Places(groups) ==
  UNION {UNION {UNION {UNION {
      {[id |-> i, type |-> g.type, submission |-> s.key, index |-> n, row |-> v.key]
         : i \in ToSet(v.ids)}
      : v \in ToSet(s.labels[n].variants)}
      : n \in DOMAIN s.labels}
      : s \in ToSet(g.submissions)}
      : g \in ToSet(groups)}

RowPlaces(groups) ==
  LET all == Places(groups) IN
  [i \in {p.id : p \in all} |-> CHOOSE p \in all : p.id = i]

=============================================================================

----------------------------- MODULE Preprocessing -----------------------------
(***************************************************************************)
(* The preprocessing pipeline: clean, impute, treat outliers, encode,      *)
(* scale, select.  The stages are fitted one after the other on a training *)
(* frame and its labels; what they learned transforms every later frame.   *)
(*                                                                         *)
(* A frame is a sequence of columns and a sequence of rows.  A row keeps   *)
(* its index label, which the stages see, and its owner, which they do not.*)
(* A column is a name and a part: the part of an encoded column is the     *)
(* category or the bucket it stands for.  Cells are integers, numbers or   *)
(* from Text on words, and Missing, which is none of them: no arithmetic   *)
(* makes a gap.                                                            *)
(***************************************************************************)
EXTENDS Integers, Sequences, FiniteSets, SequencesExt, FiniteSetsExt

CONSTANTS
    Pipelines,      \* configurations
    Trainings,      \* training frames, as sequences of raw rows
    Defaulted,      \* the owners whose label is 1
    Canonical,      \* word -> the same trimmed, in lower case, by its synonym
    Tokens,         \* the words that stand for a missing value
    Amounts,        \* word -> the number a currency or percentage parser reads
    SafeNames,      \* word -> the word its column is named for, if another
    Widths,         \* half widths of the intervals outliers lie outside
    Buckets,        \* dimensions of hash encoding
    Missing         \* the cell without a value

Value == {Missing} \cup Int
Text == 100
Whole == 0 - 1          \* the part of a column that is not encoded
Unknown == 0 - 1        \* what the label of a category never seen becomes

VARIABLES
    cfg,        \* the pipeline's configuration
    frame,      \* the training frame as the stages so far have left it
    fitted,     \* what the stages learned
    stage,      \* the stage to fit next
    kept,       \* the rows the cleaners kept
    pairs       \* history: the owners of a row and of the label used for it

preprocessing == <<cfg, frame, fitted, stage, kept, pairs>>

\* PreprocessingConfig: a stage is on when it is configured; these are the
\* defaults of each.
Default == [on |-> {}, cols |-> <<>>, steps |-> <<>>, strategies |-> <<>>,
            numeric |-> "median", categorical |-> "mode",
            outlierColumns |-> {}, action |-> "clip", outliers |-> "iqr",
            encoding |-> <<>>, scaling |-> "standard", selection |-> "variance",
            features |-> 1, training |-> <<>>]

Cleaners == {"whitespace", "categorical_cleanup", "standardize_missing", "currency",
             "percentage", "correct_dtypes", "invalid_values", "consistency", "drop_duplicates"}

ASSUME PreprocessingAssumption ==
    /\ Buckets \in Nat \ {0}
    /\ Missing \notin Int
    /\ \A p \in Pipelines : /\ DOMAIN p = DOMAIN Default
                            /\ p.cols \in Seq(ToSet(p.cols))
                            /\ p.steps \in Seq(ToSet(p.steps))
                            /\ \A step \in ToSet(p.steps) : step.name \in Cleaners
                            /\ p.encoding \in Seq(ToSet(p.encoding))
    /\ \A t \in Trainings : /\ t \in Seq(ToSet(t))
                            /\ \A p \in Pipelines, r \in ToSet(t) : r.cell \in [ToSet(p.cols) -> Value]
    /\ \A w \in DOMAIN Canonical : Canonical[w] \in Int
    /\ \A w \in DOMAIN Amounts : Amounts[w] \in Value
    /\ Widths \subseteq Int

IsWord(v) == v # Missing /\ v >= Text
Column(name) == <<name, Whole>>
Columns(f) == ToSet(f.cols)
Present(f, c) == {r.cell[c] : r \in ToSet(f.rows)} \ {Missing}
Numbers(f) == {c \in Columns(f) : f.dtype[c] = "number"}

\* How many rows hold such a value in column c
Count(f, c, Such(_)) == Cardinality({i \in DOMAIN f.rows : Such(f.rows[i].cell[c])})

\* A stage that raises leaves no frame.
Raised(f) == [f EXCEPT !.ok = FALSE]

\* pd.DataFrame(rows): a column with a word or nothing but None is of objects
FrameOf(rows, cols) ==
    [ok |-> TRUE, cols |-> cols, rows |-> rows,
     dtype |-> [c \in ToSet(cols) |->
                   IF \A r \in ToSet(rows) : ~IsWord(r.cell[c])
                   THEN IF \E r \in ToSet(rows) : r.cell[c] # Missing THEN "number" ELSE "object"
                   ELSE "object"]]

\* f with these cells in its rows
Refilled(f, cells) ==
    [f EXCEPT !.rows = [i \in DOMAIN f.rows |-> [f.rows[i] EXCEPT !.cell = cells[i]]]]

\* Every cell of f anew: Cell(i, c) is that of row i in column c.
Recomputed(f, Cell(_, _)) ==
    Refilled(f, [i \in DOMAIN f.rows |-> [c \in DOMAIN f.rows[i].cell |-> Cell(i, c)]])

Rewrite(f, cols, New(_)) ==
    Recomputed(f, LAMBDA i, c :
        IF c \in cols THEN New(f.rows[i].cell[c]) ELSE f.rows[i].cell[c])
Typed(f, cols, type) ==
    [f EXCEPT !.dtype = [c \in DOMAIN @ |-> IF c \in cols THEN type ELSE @[c]]]

\* The elements of s at the indexes in keep, in their order
Nth(keep, n) == CHOOSE i \in keep : Cardinality({j \in keep : j <= i}) = n
Sifted(s, keep) == [n \in 1..Cardinality(keep) |-> s[Nth(keep, n)]]

Without(f, Bad(_)) == [f EXCEPT !.rows = Sifted(@, {i \in DOMAIN @ : ~Bad(@[i])})]
Renumbered(f) == [f EXCEPT !.rows = [i \in DOMAIN @ |-> [@[i] EXCEPT !.label = i]]]

(***************************************************************************)
(* Cleaning learns nothing: it runs again, on its own, on every frame.     *)
(***************************************************************************)
StringColumns(f, step) ==
    IF step.columns = {} THEN Columns(f) \ Numbers(f) ELSE step.columns \cap Columns(f)

Spelled(v) == IF v \in DOMAIN Canonical THEN Canonical[v] ELSE v

\* whitespace, categorical_cleanup
Normalized(f, step) ==
    LET cols == StringColumns(f, step)
    IN  Typed(Rewrite(f, cols, Spelled), cols, "string")

\* standardize_missing
Standardized(f, step) ==
    Rewrite(f, StringColumns(f, step), LAMBDA v : IF v \in Tokens THEN Missing ELSE v)

Parsed(v) == IF v \in DOMAIN Amounts THEN Amounts[v] ELSE IF IsWord(v) THEN Missing ELSE v

\* currency, percentage
ParsedAmounts(f, step) ==
    LET cols == step.columns \cap Columns(f)
    IN  Typed(Rewrite(f, cols, Parsed), cols, "number")

\* correct_dtypes: nine tenths of a column's values make it a number
Corrected(f) ==
    LET Convertible(c) ==
            LET present == Count(f, c, LAMBDA v : v # Missing)
            IN  /\ f.dtype[c] # "number" /\ present > 0
                /\ 10 * Count(f, c, LAMBDA v : v # Missing /\ ~IsWord(v)) >= 9 * present
        cols == {c \in Columns(f) : Convertible(c)}
    IN  Typed(Rewrite(f, cols, LAMBDA v : IF IsWord(v) THEN Missing ELSE v), cols, "number")

\* invalid_values
OutOfRange(rule, v) == v # Missing /\ v < Text /\ (v < rule.low \/ v > rule.high)
Validated(f, step) ==
    LET rules == {rule \in step.rules : rule.column \in Columns(f)}
        Dropped(r) == \E rule \in rules : rule.drop /\ OutOfRange(rule, r.cell[rule.column])
        Nulled(r, c) == \E rule \in rules : /\ ~rule.drop /\ rule.column = c
                                            /\ OutOfRange(rule, r.cell[c])
        nulled == Recomputed(f, LAMBDA i, c :
                      IF Nulled(f.rows[i], c) THEN Missing ELSE f.rows[i].cell[c])
    IN  IF \E r \in ToSet(f.rows) : Dropped(r) THEN Renumbered(Without(nulled, Dropped)) ELSE nulled

\* consistency, left <= right: a comparison with a missing number fails
Consistent(f, step) ==
    LET Violated(r) == LET l == r.cell[step.left]  m == r.cell[step.right]
                       IN  l = Missing \/ m = Missing \/ l > m
    IN  IF ~({step.left, step.right} \subseteq Columns(f)) THEN f
        ELSE IF ~({step.left, step.right} \subseteq Numbers(f)) THEN Raised(f)
        ELSE IF step.action = "drop" /\ \E r \in ToSet(f.rows) : Violated(r)
             THEN Renumbered(Without(f, Violated))
        ELSE IF step.action = "set_nan"
             THEN Recomputed(f, LAMBDA i, c :
                      IF c = step.left /\ Violated(f.rows[i]) THEN Missing ELSE f.rows[i].cell[c])
        ELSE f

\* drop_duplicates
Deduplicated(f) ==
    LET firsts == {i \in DOMAIN f.rows : \A j \in 1..i - 1 : f.rows[j].cell # f.rows[i].cell}
    IN  Renumbered([f EXCEPT !.rows = Sifted(@, firsts)])

Cleaner(f, step) ==
    CASE step.name \in {"whitespace", "categorical_cleanup"} -> Normalized(f, step)
      [] step.name = "standardize_missing" -> Standardized(f, step)
      [] step.name \in {"currency", "percentage"} -> ParsedAmounts(f, step)
      [] step.name = "correct_dtypes" -> Corrected(f)
      [] step.name = "invalid_values" -> Validated(f, step)
      [] step.name = "consistency" -> Consistent(f, step)
      [] step.name = "drop_duplicates" -> Deduplicated(f)

Clean(f) ==
    LET cleaned[n \in 0..Len(cfg.steps)] ==
            IF n = 0 THEN f
            ELSE LET g == cleaned[n - 1] IN IF g.ok THEN Cleaner(g, cfg.steps[n]) ELSE g
    IN  cleaned[Len(cfg.steps)]

(***************************************************************************)
(* Imputation: what fills a column is learned if the column has gaps.      *)
(***************************************************************************)
Multivariate == {"knn", "iterative"}
Directional == {"ffill", "bfill"}
NumericOnly == {"mean", "median"} \cup Multivariate

Strategy(f, c) == IF c \in DOMAIN cfg.strategies THEN cfg.strategies[c]
                  ELSE IF c \in Numbers(f) THEN cfg.numeric ELSE cfg.categorical

\* the middle value, the most frequent one, the configured one; none of no values
Statistic(f, c, strategy) ==
    LET values == Present(f, c)
        Below(v) == Count(f, c, LAMBDA w : w # Missing /\ w <= v)
        Times(v) == Count(f, c, LAMBDA w : w = v)
    IN  CASE strategy = "constant" -> 0
          [] values = {} -> Missing
          [] strategy = "mode" ->
                 CHOOSE v \in values : \A w \in values :
                     Times(v) > Times(w) \/ (Times(v) = Times(w) /\ v <= w)
          [] OTHER -> Min({v \in values : 2 * Below(v) >= Count(f, c, LAMBDA w : w # Missing)})

Refused(f) == \E c \in Columns(f) :
    \/ Strategy(f, c) \in NumericOnly /\ c \notin Numbers(f)
    \/ Strategy(f, c) \in Multivariate /\ Present(f, c) = {}

\* MissingValueEngine.fit
Fills(f) ==
    LET Needed(c) == Strategy(f, c) \in Multivariate \/ Count(f, c, LAMBDA v : v = Missing) > 0
    IN  [c \in {c \in Columns(f) : Needed(c)} |->
            [strategy |-> Strategy(f, c), value |-> Statistic(f, c, Strategy(f, c))]]

\* The nearest present value above (or below) row i
Neighbour(f, c, i, strategy) ==
    LET near == {j \in DOMAIN f.rows : /\ f.rows[j].cell[c] # Missing
                                       /\ IF strategy = "ffill" THEN j < i ELSE j > i}
    IN  IF near = {} THEN Missing
        ELSE f.rows[IF strategy = "ffill" THEN Max(near) ELSE Min(near)].cell[c]

\* MissingValueEngine.transform
Imputed(f, fills) ==
    LET Fill(i, c) == IF fills[c].strategy \in Directional
                      THEN Neighbour(f, c, i, fills[c].strategy) ELSE fills[c].value
        gaps == {c \in DOMAIN fills \cap Columns(f) : Count(f, c, LAMBDA v : v = Missing) > 0}
        Mismatched(c) == \/ /\ fills[c].strategy \notin Directional
                            /\ f.dtype[c] = "string"
                            /\ fills[c].value # Missing /\ ~IsWord(fills[c].value)
                         \/ /\ fills[c].strategy \in Multivariate
                            /\ \E v \in Present(f, c) : IsWord(v)
        lost == {c \in DOMAIN fills : fills[c].strategy \in Multivariate} \ Columns(f)
    IN  IF lost # {} \/ \E c \in gaps : Mismatched(c) THEN Raised(f)
        ELSE Recomputed(f, LAMBDA i, c :
                 IF c \in gaps /\ f.rows[i].cell[c] = Missing THEN Fill(i, c) ELSE f.rows[i].cell[c])

(***************************************************************************)
(* Outliers: an interval around the middle of each column.                 *)
(***************************************************************************)
OutlierColumns(f) == IF cfg.outlierColumns = {} THEN Numbers(f) ELSE cfg.outlierColumns

Unfit(f) == LET cols == OutlierColumns(f)
            IN  \/ cols = {} \/ ~(cols \subseteq Columns(f))
                \/ \E c \in cols : Present(f, c) = {} \/ c \notin Numbers(f)

Bounds(f, width) == [c \in OutlierColumns(f) |->
    [low |-> Statistic(f, c, "median") - width, high |-> Statistic(f, c, "median") + width]]

Comparable(f, c) == c \in Columns(f) /\ \A v \in Present(f, c) : ~IsWord(v)
Outside(v, b) == v # Missing /\ (v < b.low \/ v > b.high)
Clipped(v, b) == IF v = Missing THEN v ELSE IF v < b.low THEN b.low ELSE IF v > b.high THEN b.high ELSE v

Outlying(r, bounds) == \E c \in DOMAIN bounds : Outside(r.cell[c], bounds[c])

\* Mutant: the rows left are numbered again, as the cleaners do.
TreatedRenumbered(f, bounds) ==
    IF cfg.action = "remove" THEN Renumbered(Without(f, LAMBDA r : Outlying(r, bounds))) ELSE f

\* OutlierEngine.transform: the rows left keep their labels
Treated(f, bounds) ==
    IF \E c \in DOMAIN bounds : ~Comparable(f, c) THEN Raised(f)
    ELSE IF cfg.action = "remove" THEN Without(f, LAMBDA r : Outlying(r, bounds))
    ELSE IF cfg.outliers = "isolation_forest" THEN f
    ELSE Recomputed(f, LAMBDA i, c :
             IF c \in DOMAIN bounds THEN Clipped(f.rows[i].cell[c], bounds[c]) ELSE f.rows[i].cell[c])

(***************************************************************************)
(* Encoding.  Labels are taken by position, whatever the index says.       *)
(***************************************************************************)
Encoded == {cfg.encoding[i].column : i \in DOMAIN cfg.encoding}
Ascending(S) == [n \in 1..Cardinality(S) |-> Nth(S, n)]
Categories(f) == [c \in Encoded |-> Ascending(Present(f, c))]

SafeName(v) == IF v \in DOMAIN SafeNames THEN SafeNames[v] ELSE v

\* The labels of the training rows: those of the frame the caller passed in
Labels == [i \in DOMAIN cfg.training |-> cfg.training[i].who]
Defaults(rows, labels) == Cardinality({i \in rows : labels[i] \in Defaulted})

\* EncodingEngine.fit
Maps(f) == [i \in DOMAIN cfg.encoding |->
    LET c == cfg.encoding[i].column
        values == Present(f, c)
        Rows(v) == {j \in DOMAIN f.rows : f.rows[j].cell[c] = v}
    IN  CASE cfg.encoding[i].strategy = "frequency" ->
                 [v \in values |-> Cardinality(Rows(v))]
          [] cfg.encoding[i].strategy = "target" -> [v \in values |-> Defaults(Rows(v), Labels)]
          [] cfg.encoding[i].strategy \in {"label", "ordinal"} ->
                 [v \in values |-> Cardinality({w \in values : w < v})]
          [] OTHER -> <<>>]

TargetEncoded == \E i \in DOMAIN cfg.encoding : cfg.encoding[i].strategy = "target"

Unencodable(f) == \/ ~(Encoded \subseteq Columns(f))
                  \/ TargetEncoded /\ Len(f.rows) # Len(Labels)

\* The columns encoding one column adds: one of each category (of categories
\* with one name, one), one of each bucket, or the column itself
AddedColumns(i, categories) ==
    LET c == cfg.encoding[i].column
        names == [k \in DOMAIN categories[c] |-> SafeName(categories[c][k])]
        firsts == {k \in DOMAIN names : \A l \in DOMAIN names : names[l] = names[k] => k <= l}
    IN  CASE cfg.encoding[i].strategy = "one_hot" ->
                 Sifted([k \in DOMAIN names |-> <<c[1], names[k]>>], firsts)
          [] cfg.encoding[i].strategy = "hash" -> [b \in 1..Buckets |-> <<c[1], b - 1>>]
          [] OTHER -> <<c>>

\* The columns of an encoded frame: those that are not encoded, then the added
EncodedColumns(cols, categories) ==
    LET others == Sifted(cols, {n \in DOMAIN cols : cols[n] \notin Encoded})
        upto[n \in 0..Len(cfg.encoding)] ==
            IF n = 0 THEN others ELSE upto[n - 1] \o AddedColumns(n, categories)
    IN  upto[Len(cfg.encoding)]

\* A row's cell in an added column, from its value v in the column encoded:
\* of categories with one name, the column is of the last.
AddedCell(i, categories, maps, v, col) ==
    LET known == categories[cfg.encoding[i].column]
        Fallback == IF cfg.encoding[i].strategy = "target"
                    THEN Defaults(DOMAIN Labels, Labels) ELSE Unknown
    IN  CASE cfg.encoding[i].strategy = "one_hot" ->
                 IF v = known[Max({k \in DOMAIN known : SafeName(known[k]) = col[2]})] THEN 1 ELSE 0
          [] cfg.encoding[i].strategy = "hash" ->
                 IF col[2] = IF v = Missing THEN 0 ELSE v % Buckets THEN 1 ELSE 0
          [] OTHER -> IF v \in DOMAIN maps[i] THEN maps[i][v] ELSE Fallback

\* EncodingEngine.transform
Encode(f, categories, maps) ==
    LET cols == EncodedColumns(f.cols, categories)
        others == Columns(f) \ Encoded
        Source(c) == CHOOSE i \in DOMAIN cfg.encoding : c \in ToSet(AddedColumns(i, categories))
        Added(r, c) == AddedCell(Source(c), categories, maps,
                                 r.cell[cfg.encoding[Source(c)].column], c)
    IN  IF ~(Encoded \subseteq Columns(f)) THEN Raised(f)
        ELSE Refilled(
                 [f EXCEPT !.cols = cols,
                           !.dtype = [c \in ToSet(cols) |-> IF c \in others THEN f.dtype[c] ELSE "number"]],
                 [j \in DOMAIN f.rows |-> [c \in ToSet(cols) |->
                     IF c \in others THEN f.rows[j].cell[c] ELSE Added(f.rows[j], c)]])

(***************************************************************************)
(* Scaling: the number learned of a column is taken from its cells.        *)
(***************************************************************************)
Centres(f) == [c \in Numbers(f) |->
    IF Present(f, c) = {} THEN 0
    ELSE IF cfg.scaling = "minmax" THEN Min(Present(f, c)) ELSE Statistic(f, c, "median")]

Scaled(f, centres) ==
    IF \E c \in DOMAIN centres : ~Comparable(f, c) THEN Raised(f)
    ELSE Typed(Recomputed(f, LAMBDA i, c :
                   IF c \in DOMAIN centres /\ f.rows[i].cell[c] # Missing
                   THEN f.rows[i].cell[c] - centres[c] ELSE f.rows[i].cell[c]),
               DOMAIN centres, "number")

(***************************************************************************)
(* Selection: of every strategy, the columns it may keep.                  *)
(***************************************************************************)
Supervised == {"mutual_information", "chi_square", "rfe", "importance"}

\* The label of a row is looked up by its index label.
Selectable(f) ==
    /\ Columns(f) = Numbers(f) /\ f.rows # <<>>
    /\ cfg.selection \in Supervised \ {"importance"} => \A c \in Columns(f) : Count(f, c, LAMBDA v : v = Missing) = 0

\* The columns a strategy may choose, by rank for the importances
Selections(f) ==
    LET InOrder(sets) == {SelectSeq(f.cols, LAMBDA c : c \in S) : S \in sets}
        count == Min({cfg.features, Cardinality(Columns(f))})
    IN  CASE cfg.selection = "variance" ->
                 InOrder({{c \in Columns(f) : Cardinality(Present(f, c)) > 1}})
          [] cfg.selection = "correlation" ->
                 InOrder({S \in SUBSET Columns(f) : Head(f.cols) \in S})
          [] cfg.selection = "importance" ->
                 {s \in [1..count -> Columns(f)] : IsInjective(s)}
          [] OTHER -> InOrder({S \in SUBSET Columns(f) : Cardinality(S) = count})

\* Mutant: the columns selected are taken in the frame's order.
SelectedInOrder(f, chosen) ==
    [f EXCEPT !.cols = Sifted(@, {n \in DOMAIN @ : @[n] \in ToSet(chosen)})]

Selected(f, chosen) ==
    IF ~(ToSet(chosen) \subseteq Columns(f)) THEN Raised(f)
    ELSE Refilled([f EXCEPT !.cols = chosen, !.dtype = [c \in ToSet(chosen) |-> f.dtype[c]]],
                  [i \in DOMAIN f.rows |-> [c \in ToSet(chosen) |-> f.rows[i].cell[c]]])

(***************************************************************************)
(* PreprocessingPipeline                                                   *)
(***************************************************************************)
Nothing == [fills |-> <<>>, bounds |-> <<>>, categories |-> <<>>, maps |-> <<>>,
            centres |-> <<>>, chosen |-> <<>>, trained |-> <<>>]

On(name) == name \in cfg.on

\* The rows of a training frame, numbered from 1 by their index
Untrained(pipeline, training) ==
    FrameOf([i \in DOMAIN training |->
                [label |-> i, who |-> training[i].who, cell |-> training[i].cell]],
            pipeline.cols)

PreprocessingInit ==
    \E pipeline \in Pipelines, training \in Trainings :
        /\ cfg = [pipeline EXCEPT !.training = training]
        /\ frame = Untrained(pipeline, training)
        /\ fitted = Nothing /\ stage = "clean" /\ kept = Len(training) /\ pairs = {}

\* The frame a stage leaves, or the exception that ends the training
Leaves(f, next) == frame' = f /\ stage' = IF f.ok THEN next ELSE "raised"

FitClean ==
    /\ stage = "clean"
    /\ Leaves(IF On("clean") THEN Clean(frame) ELSE frame, "impute")
    /\ kept' = Len(frame'.rows)
    /\ UNCHANGED <<cfg, fitted, pairs>>

FitImpute ==
    /\ stage = "impute"
    /\ IF ~On("impute") THEN Leaves(frame, "outliers") /\ fitted' = fitted
       ELSE IF Refused(frame) THEN Leaves(Raised(frame), "outliers") /\ fitted' = fitted
       ELSE /\ fitted' = [fitted EXCEPT !.fills = Fills(frame)]
            /\ Leaves(Imputed(frame, Fills(frame)), "outliers")
    /\ UNCHANGED <<cfg, kept, pairs>>

FitOutliers ==
    /\ stage = "outliers"
    /\ IF ~On("outliers") THEN Leaves(frame, "encode") /\ fitted' = fitted
       ELSE IF Unfit(frame) THEN Leaves(Raised(frame), "encode") /\ fitted' = fitted
       ELSE \E width \in Widths :
                /\ fitted' = [fitted EXCEPT !.bounds = Bounds(frame, width)]
                /\ Leaves(Treated(frame, Bounds(frame, width)), "encode")
    /\ UNCHANGED <<cfg, kept, pairs>>

FitEncode ==
    /\ stage = "encode"
    /\ IF ~On("encode") THEN Leaves(frame, "scale") /\ UNCHANGED <<fitted, pairs>>
       ELSE IF Unencodable(frame) THEN Leaves(Raised(frame), "scale") /\ UNCHANGED <<fitted, pairs>>
       ELSE /\ fitted' = [fitted EXCEPT !.categories = Categories(frame), !.maps = Maps(frame)]
            /\ pairs' = IF TargetEncoded
                        THEN pairs \cup {<<frame.rows[i].who, Labels[i]>> : i \in DOMAIN frame.rows}
                        ELSE pairs
            /\ Leaves(Encode(frame, Categories(frame), Maps(frame)), "scale")
    /\ UNCHANGED <<cfg, kept>>

FitScale ==
    /\ stage = "scale"
    /\ IF ~On("scale") THEN Leaves(frame, "select") /\ fitted' = fitted
       ELSE IF frame.rows = <<>> \/ Numbers(frame) = {}
            THEN Leaves(Raised(frame), "select") /\ fitted' = fitted
       ELSE /\ fitted' = [fitted EXCEPT !.centres = Centres(frame)]
            /\ Leaves(Scaled(frame, Centres(frame)), "select")
    /\ UNCHANGED <<cfg, kept, pairs>>

\* ... and the model is trained on the frame the last stage leaves
FitSelect ==
    /\ stage = "select"
    /\ IF ~On("select")
       THEN /\ Leaves(frame, "trained") /\ pairs' = pairs
            /\ fitted' = [fitted EXCEPT !.trained = frame.cols]
       ELSE IF ~Selectable(frame) \/ Selections(frame) \subseteq {<<>>}
       THEN Leaves(Raised(frame), "trained") /\ UNCHANGED <<fitted, pairs>>
       ELSE \E chosen \in Selections(frame) :
                /\ fitted' = [fitted EXCEPT !.chosen = chosen, !.trained = chosen]
                /\ pairs' = IF cfg.selection \in Supervised
                            THEN pairs \cup {<<r.who, Labels[r.label]>> : r \in ToSet(frame.rows)}
                            ELSE pairs
                /\ Leaves(Selected(frame, chosen), "trained")
    /\ UNCHANGED <<cfg, kept>>

Fit == FitClean \/ FitImpute \/ FitOutliers \/ FitEncode \/ FitScale \/ FitSelect

\* A stage that is on transforms what the one before it left, unless that raised.
Then(name, f, Stage(_)) == IF On(name) /\ f.ok THEN Stage(f) ELSE f

\* PreprocessingPipeline.transform
Transformed(f0) ==
    LET f1 == Then("clean", f0, Clean)
        f2 == Then("impute", f1, LAMBDA f : Imputed(f, fitted.fills))
        f3 == Then("outliers", f2, LAMBDA f : Treated(f, fitted.bounds))
        f4 == Then("encode", f3, LAMBDA f : Encode(f, fitted.categories, fitted.maps))
        f5 == Then("scale", f4, LAMBDA f : Scaled(f, fitted.centres))
    IN  Then("select", f5, LAMBDA f : Selected(f, fitted.chosen))

(***************************************************************************)
(* Properties.                                                             *)
(***************************************************************************)

\* A stage that learns from labels learns each row's own: neither the
\* outliers removed nor the columns made of others separate a row from its
\* label.  Only a cleaner that drops rows does (it numbers the rest again).
LabelsFollow == \A p \in pairs : kept = Len(cfg.training) => p[1] = p[2]
================================================================================

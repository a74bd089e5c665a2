---------------------------- MODULE TofuSelection ----------------------------
(***************************************************************************)
(* How the Qwen-TOFU campaigns judge what they measured: the gates of a    *)
(* list of trials, the robust point of a v3 development (llm_unlearning_v3)*)
(* and the development candidate of v2 (llm_unlearning_v2).  A trial keeps *)
(* one metric of each kind: gain and speed have a lower bound, gap has an  *)
(* upper one.  Paths and the alphas of a path are numbered in their order. *)
(***************************************************************************)
EXTENDS Integers, FiniteSets, SequencesExt

Least(trials, metric) == Min({trials[i][metric] : i \in DOMAIN trials})
Greatest(trials, metric) == Max({trials[i][metric] : i \in DOMAIN trials})

\* compute_v2_gates, compute_gates and the decision of summarize_v2_trials
Summarize(trials, bar) ==
  [gain |-> Least(trials, "gain"), speed |-> Least(trials, "speed"),
   gap |-> Greatest(trials, "gap"),
   decision |-> IF /\ Least(trials, "gain") >= bar.gain
                   /\ Least(trials, "speed") >= bar.speed
                   /\ Greatest(trials, "gap") <= bar.gap
                THEN "PASS" ELSE "FAIL"]

\* summarize_path_point, its margins not scaled by their thresholds.
Point(path, alpha, trials, bar) ==
  LET margins == {Min({trials[i].gain - bar.gain, trials[i].speed - bar.speed,
                       bar.gap - trials[i].gap}) : i \in DOMAIN trials}
  IN  [path |-> path, alpha |-> alpha, feasible |-> Min(margins) >= 0,
       margin |-> Min(margins), speed |-> Least(trials, "speed"),
       gap |-> Greatest(trials, "gap")]

\* The points of tables, one for each development unit, [path -> [alpha -> trial]].
Points(tables, bar) ==
  [path \in DOMAIN tables[1] |->
     [alpha \in DOMAIN tables[1][path] |->
        Point(path, alpha, [u \in DOMAIN tables |-> tables[u][path][alpha]], bar)]]

-----------------------------------------------------------------------------
(* robust_intervals: the runs of feasible alphas, in one pass.              *)

Closed(scan, width) ==
  IF Len(scan.current) >= width THEN Append(scan.found, scan.current) ELSE scan.found

\* The scan of a row: scan[a] is what the loop has after the first a points.
Begun == [current |-> <<>>, found |-> <<>>]
Scanned(scan, point, width) ==
  IF point.feasible THEN [scan EXCEPT !.current = Append(@, point)]
  ELSE [current |-> <<>>, found |-> Closed(scan, width)]

\* A mutant: a run that reaches the last alpha is not closed.
PathIntervalsOpen(row, width) ==
  LET scan[a \in 0..Len(row)] ==
        IF a = 0 THEN Begun ELSE Scanned(scan[a - 1], row[a], width)
  IN  scan[Len(row)].found

PathIntervals(row, width) ==
  LET scan[a \in 0..Len(row)] ==
        IF a = 0 THEN Begun ELSE Scanned(scan[a - 1], row[a], width)
  IN  Closed(scan[Len(row)], width)

RobustIntervals(points, width) ==
  FlattenSeq([path \in DOMAIN points |-> PathIntervals(points[path], width)])

IntervalKey(interval) ==
  <<- Len(interval), - Least(interval, "margin"), Greatest(interval, "gap"),
    - Least(interval, "speed"), interval[1].path>>

Before(key, other) ==
  \E i \in DOMAIN key : key[i] < other[i] /\ \A j \in 1..(i - 1) : key[j] = other[j]

\* The first of rows in the order of Key: sorted(rows, key=Key)[0]
FirstBy(Key(_), rows) ==
  rows[CHOOSE i \in DOMAIN rows :
         /\ \A j \in DOMAIN rows : ~ Before(Key(rows[j]), Key(rows[i]))
         /\ \A j \in 1..(i - 1) : Before(Key(rows[i]), Key(rows[j]))]

NoCandidate == [path |-> 0, alpha |-> 0]
Config(point) == [path |-> point.path, alpha |-> point.alpha]

\* select_robust_point: the lower middle of the best interval, or
\* NoRobustCandidateError.
SelectRobustPoint(points, width) ==
  LET intervals == RobustIntervals(points, width)
      winner == FirstBy(IntervalKey, intervals)
  IN  IF intervals = <<>> THEN NoCandidate
      ELSE Config(winner[1 + (Len(winner) - 1) \div 2])

\* select_development_candidate: the least violation of the bar first.  A
\* candidate of v2 has no path to walk, it is the first alpha of its row.
Shortfall(summary, bar) ==
  Max({0, bar.gain - summary.gain}) + Max({0, summary.gap - bar.gap})
SelectDevelopmentCandidate(tables, bar) ==
  LET rows == [id \in DOMAIN tables[1] |->
                 [path |-> id, alpha |-> 1] @@
                   Summarize([u \in DOMAIN tables |-> tables[u][id][1]], bar)]
      Key(row) == <<Shortfall(row, bar), - row.gain, row.gap, - row.speed, row.path>>
  IN  Config(FirstBy(Key, rows))
=============================================================================

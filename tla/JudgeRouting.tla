----------------------------- MODULE JudgeRouting -----------------------------
(***************************************************************************)
(* Which judge a run goes to, and whether its verdict finds the way back:  *)
(* judges.json as the web process and the Celery worker read it when they  *)
(* start, the choice of the judges_settings entry, and the token a         *)
(* notification must carry.                                                *)
(*                                                                         *)
(* An optional value is a set: {} when it is absent, {v} when it is v.     *)
(* Runs do not influence each other here, so there is one.                 *)
(***************************************************************************)
EXTENDS Naturals, Sequences, FiniteSets

CONSTANTS
  Judges,     \* judge ids
  Token,      \* external: Token[j] is the token the judge j really uses
  Wrong,      \* another token
  Files,      \* contents judges.json and DEFAULT_JUDGE_ID may have
  Entries,    \* entries of judges_settings: [complete, judge, langs, users]
  Settings,   \* values of judges_settings
  Langs,      \* languages
  Users,      \* users
  MaxEdits    \* bound: changes of the file

Absent  == "absent"    \* no such judge
Null    == "null"      \* a judge without a token
Blank   == ""          \* a judge with an empty token
Unset   == "unset"     \* no DEFAULT_JUDGE_ID
Garbage == "garbage"   \* a DEFAULT_JUDGE_ID that is no integer: "", too

ASSUME ConstantsAssumption ==
  /\ Token \in [Judges -> STRING \ {Absent, Null, Blank, Wrong}]
  /\ Wrong \in STRING \ {Absent, Null, Blank}
  /\ Judges \cap {Absent, Unset, Garbage} = {}
  /\ MaxEdits \in Nat
  /\ \A f \in Files :
       /\ f.judges \in [Judges -> {Token[j] : j \in Judges} \cup {Wrong, Absent, Null, Blank}]
       /\ f.default \in Judges \cup {Unset, Garbage}
       /\ f.readable \in BOOLEAN
  /\ Settings \subseteq Seq(Entries)
  /\ \A e \in Entries : \A filter \in {e.langs, e.users} :
       IsFiniteSet(filter) /\ Cardinality(filter) <= 1

VARIABLES
  file,     \* judges.json and the environment
  edits,    \* changes of it so far
  loaded,   \* what each process loaded when it started
  run       \* the run, its problem's settings, and the judge recorded for it

vars == <<file, edits, loaded, run>>

Processes == {"web", "worker"}

-----------------------------------------------------------------------------
(***************************************************************************)
(* judges_config                                                           *)
(***************************************************************************)

NoJudges == [j \in Judges |-> Absent]

\* Bug: a judge without a token is no reason to refuse the file.
LoadUnvalidated(f) ==
  [judges |-> IF f.readable THEN f.judges ELSE NoJudges, default |-> f.default]

\* init_app: one judge without a token empties the whole configuration.
Load(f) ==
  [judges |-> IF f.readable /\ \A j \in Judges : f.judges[j] # Null
              THEN f.judges ELSE NoJudges,
   default |-> f.default]

(***************************************************************************)
(* _get_judge_entry: filter, stable sort by specificity, first.            *)
(***************************************************************************)

Admits(e, lang, user) ==
  /\ e.complete
  /\ e.langs = {} \/ lang \in UNION e.langs
  /\ e.users = {} \/ user \in UNION e.users

Specificity(e) == Cardinality(e.langs) + Cardinality(e.users)

\* The members of s at the places in P, in their order
At(s, P) ==
  LET upto[i \in 0 .. Len(s)] ==
        IF i = 0 THEN <<>> ELSE IF i \in P THEN Append(upto[i - 1], s[i]) ELSE upto[i - 1]
  IN  upto[Len(s)]

Level(s, n) == At(s, {i \in DOMAIN s : Specificity(s[i]) = n})

\* Bug: the sort runs in the other direction.
SortedUpwards(s) == Level(s, 0) \o Level(s, 1) \o Level(s, 2)

Sorted(s) == Level(s, 2) \o Level(s, 1) \o Level(s, 0)

JudgeEntry(settings, lang, user) ==
  LET candidates == At(settings, {i \in DOMAIN settings : Admits(settings[i], lang, user)})
  IN  IF candidates = <<>> THEN {} ELSE {Head(Sorted(candidates))}

\* The judge of the entry, or else the default one
Resolve(conf, r) ==
  LET named == UNION {e.judge : e \in JudgeEntry(r.settings, r.lang, r.user)}
  IN  IF named = {} THEN conf.default ELSE CHOOSE j \in named : TRUE

-----------------------------------------------------------------------------
Init ==
  /\ file \in Files
  /\ edits = 0
  /\ loaded = [p \in Processes |-> Load(file)]
  /\ run \in [pc : {"queued"}, settings : Settings, lang : Langs, user : Users,
              judge : {Absent}, conf : {Load(file)}]

\* The operator replaces the file; a process sees that when it is restarted.
Edit(f) ==
  /\ edits < MaxEdits
  /\ f # file
  /\ file' = f
  /\ edits' = edits + 1
  /\ UNCHANGED <<loaded, run>>

Restart(p) ==
  /\ loaded[p] # Load(file)
  /\ loaded' = [loaded EXCEPT ![p] = Load(file)]
  /\ UNCHANGED <<file, edits, run>>

(***************************************************************************)
(* submit_task in the worker.  run.conf is history: the configuration that *)
(* served the run last.                                                    *)
(***************************************************************************)

Known(conf, j) == j \in Judges /\ conf.judges[j] # Absent

\* get_default_judge_id raises, or there is no judge: the run stays IN_QUEUE.
SubmitNowhere ==
  LET conf == loaded["worker"] IN
  /\ run.pc = "queued"
  /\ ~Known(conf, Resolve(conf, run))
  /\ run' = [run EXCEPT !.pc = "unsent"]
  /\ UNCHANGED <<file, edits, loaded>>

\* External: a judge takes a submission that carries its own token.
Submit ==
  LET conf == loaded["worker"]
      j    == Resolve(conf, run)
  IN
  /\ run.pc = "queued"
  /\ Known(conf, j)
  /\ run' = [run EXCEPT !.pc = IF conf.judges[j] = Token[j] THEN "sent" ELSE "refused",
                        !.judge = j, !.conf = conf]
  /\ UNCHANGED <<file, edits, loaded>>

(***************************************************************************)
(* require_judge_token in the web process: a notification names its judge  *)
(* and carries that judge's token.                                         *)
(***************************************************************************)

\* Bug: the token is compared with the default judge's.
PassesByDefault(conf, j, token) ==
  /\ Known(conf, conf.default)
  /\ conf.judges[conf.default] = token

Passes(conf, j, token) ==
  /\ Known(conf, j)
  /\ conf.judges[j] # Blank
  /\ conf.judges[j] = token

Notify ==
  LET conf == loaded["web"] IN
  /\ run.pc = "sent"
  /\ run' = IF Passes(conf, run.judge, Token[run.judge])
            THEN [run EXCEPT !.pc = "notified", !.conf = conf]
            ELSE [run EXCEPT !.pc = "forbidden"]
  /\ UNCHANGED <<file, edits, loaded>>

\* load_protocol in the worker: _resolve_judge fails on an unknown judge, and
\* without retry; a judge refuses a report to a wrong token with a 4xx.
LoadProtocol ==
  LET conf == loaded["worker"] IN
  /\ run.pc = "notified"
  /\ run' = IF Known(conf, run.judge) /\ conf.judges[run.judge] = Token[run.judge]
            THEN [run EXCEPT !.pc = "judged", !.conf = conf]
            ELSE [run EXCEPT !.pc = "lost"]
  /\ UNCHANGED <<file, edits, loaded>>

Next ==
  \/ \E f \in Files : Edit(f)
  \/ \E p \in Processes : Restart(p)
  \/ SubmitNowhere \/ Submit \/ Notify \/ LoadProtocol

Spec == Init /\ [][Next]_vars

-----------------------------------------------------------------------------
Config == [judges : [Judges -> {Token[j] : j \in Judges} \cup {Wrong, Absent, Blank}],
           default : Judges \cup {Unset, Garbage}]
Pcs    == {"queued", "unsent", "refused", "sent", "forbidden", "notified", "lost", "judged"}

\* Every variable has its type; in particular no process holds a judge without token.
TypeOK ==
  /\ file \in Files
  /\ edits \in 0 .. MaxEdits
  /\ loaded \in [Processes -> Config]
  /\ run \in [pc : Pcs, settings : Settings, lang : Langs, user : Users,
              judge : Judges \cup {Absent}, conf : Config]

\* Whatever incomplete entries, filters and ties the settings hold, the entry taken
\* admits the run, no admitting entry has more filters, and none listed before it
\* has as many; without an admitting entry there is none.
EntryIsBest ==
  LET s        == run.settings
      Fit(i)   == Admits(s[i], run.lang, run.user)
      Beats(k, i) == \/ Specificity(s[k]) > Specificity(s[i])
                     \/ Specificity(s[k]) = Specificity(s[i]) /\ k < i
      best     == {i \in DOMAIN s : Fit(i) /\ \A k \in DOMAIN s : Fit(k) => ~Beats(k, i)}
  IN  JudgeEntry(s, run.lang, run.user) = {s[i] : i \in best}

\* A submission that a judge took comes back: only a process that works with another
\* configuration than the one before it forbids its notification, or ends its chain
\* for want of the judge.
LossNeedsDrift ==
  [][/\ run'.pc = "forbidden" /\ run.pc # "forbidden" => loaded["web"] # run.conf
     /\ run'.pc = "lost" /\ run.pc # "lost" => loaded["worker"] # run.conf]_vars
=============================================================================

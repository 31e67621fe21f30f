----------------------------- MODULE GateProofs -----------------------------
(***************************************************************************)
(* Proofs about AdminGate, for all goroutines, members and bounds.         *)
(***************************************************************************)
EXTENDS AdminGate, SequenceTheorems, TLAPS

-----------------------------------------------------------------------------
(* The inductive invariant.                                                *)

Known == 0..Len(admins)

(* Every list in use shows a revision that there was; and while no forced  *)
(* list was overtaken, the one in the cache is no older than the last one. *)
Lists ==
    /\ admins \in Seq(SUBSET People)
    /\ changes \in 0..MaxChanges
    /\ Len(admins) \in 1..(changes + 1)
    /\ entry \in Known \cup {None}
    /\ reloaded \in Known
    /\ apart \in BOOLEAN
    /\ ReloadLasts

Chat == mode \in ModeOf /\ authorised \subseteq Members

Locals ==
    /\ at \in [Handlers -> Labels]
    /\ job \in [Handlers -> Jobs]
    /\ held \in [Handlers -> Known]
    /\ seen \in [Handlers -> ModeOf \cup {None}]
    /\ begun \in [Handlers -> Known]
    /\ upset \in [Handlers -> BOOLEAN]
    /\ excused \in [Handlers -> BOOLEAN]

(* Whom a goroutine works for, by where it is.                             *)
Placed(h) ==
    /\ at[h] \in {"mode", "member", "authorise", "negate"} => job[h] \in Gates
    /\ at[h] = "look" => job[h] \in Gates \/ job[h].op = "setting"
    /\ at[h] = "set" => job[h].op = "setting"
    /\ at[h] \in {"idle", "reload", "clear"} => job[h].op \in {"reload", "demoted"}
    /\ at[h] = "member" => seen[h] \in {"admins", "auth"}
    /\ at[h] \in {"idle", "passed", "refused", "reload", "clear"} => seen[h] = None

(* A list that is going to be cached was asked for when it was forced, or  *)
(* later; it is as new as the last one that was, unless it was overtaken.  *)
Fresh(h) ==
    at[h] = "put" =>
        /\ held[h] # 0
        /\ Forced(h) => held[h] >= begun[h]
        /\ apart => held[h] >= reloaded

(* A filter at work whose list was not lost: the list is cached from the   *)
(* moment the bot was found in it, and Telegram is asked no second time.   *)
Steady(h) == at[h] # "idle" /\ job[h] \in Gates /\ ~upset[h]

Lasting(h) ==
    Steady(h) =>
        /\ entry # 0
        /\ at[h] \in {"mode", "member"} => entry # None
        /\ seen[h] # None => at[h] \notin {"fetch", "put"}
        /\ seen[h] # None /\ at[h] = "look" => entry # None
        /\ at[h] # "negate"
        /\ at[h] = "refused" => ~Always(job[h].user) \/ ~Always(Bot)

(* Who may pass without a list is on record, and who has passed could.     *)
Cleared(h) ==
    /\ at[h] # "idle" /\ job[h] \in Gates /\ Free(job[h].user, mode, authorised) => excused[h]
    /\ at[h] \in {"passed", "authorise", "set"} /\ job[h].user # None =>
          ~Never(job[h].user) \/ (job[h] \in Gates /\ excused[h])

Passing(h) == Placed(h) /\ Fresh(h) /\ Lasting(h) /\ Cleared(h)

GateInv ==
    /\ Lists /\ Chat /\ Locals
    /\ \A h \in Handlers : Passing(h)

-----------------------------------------------------------------------------
(* What the jobs are.                                                      *)
LEMMA JobKinds ==
    ASSUME NEW j \in Jobs
    PROVE  /\ j \in Gates <=> j.op \in {"admin", "play"}
           /\ j \in Gates => j.user \in Members
           /\ j \notin Gates => j.op \in {"setting", "reload", "promoted", "demoted"}
           /\ j.op \in {"reload", "promoted", "demoted"} => j.user = None
  BY DEF Jobs, Gates

(* Revisions are added and none is changed.                                *)
Grown ==
    /\ admins' \in Seq(SUBSET People)
    /\ Len(admins) <= Len(admins')
    /\ \A i \in 1..Len(admins) : admins'[i] = admins[i]

LEMMA Mono ==
    ASSUME Lists, Grown, NEW p
    PROVE  (Always(p)' => Always(p)) /\ (Never(p)' => Never(p))
<1>1. DOMAIN admins = 1..Len(admins) /\ DOMAIN admins' = 1..Len(admins')
  BY LenProperties DEF Lists, Grown
<1>2. \A i \in DOMAIN admins : i \in DOMAIN admins' /\ admins'[i] = admins[i]
  BY <1>1, LenProperties DEF Lists, Grown
<1> QED
  BY <1>2 DEF Always, Never

(* Who is always an administrator is in every list, who never is in none.  *)
LEMMA ListedTruly ==
    ASSUME Lists, NEW r \in Known, NEW p
    PROVE  /\ r # 0 /\ Always(p) => p \in Listed(r)
           /\ p \in Listed(r) => ~Never(p)
<1>1. DOMAIN admins = 1..Len(admins)
  BY LenProperties DEF Lists
<1>2. r # 0 => r \in DOMAIN admins
  BY <1>1, LenProperties DEF Known, Lists
<1>3. r # None
  BY GateAssumption, LenProperties DEF GateAssumption, Known, Lists
<1> QED
  BY <1>2, <1>3 DEF Always, Never, Listed

(* What a goroutine relies on stays when others take a step.               *)
LEMMA Rest ==
    ASSUME GateInv, Grown, NEW g \in Handlers,
           at'[g] = at[g], job'[g] = job[g], held'[g] = held[g], seen'[g] = seen[g],
           begun'[g] = begun[g],
           Steady(g)' => /\ Steady(g)
                         /\ entry' = entry \/ entry' \notin {0, None},
           excused[g] => excused'[g],
           at[g] # "idle" /\ job[g] \in Gates /\ Free(job[g].user, mode', authorised')
               => excused'[g],
           apart' => apart,
           at[g] = "put" /\ apart' => reloaded' = reloaded
    PROVE  Passing(g)'
<1>1. Placed(g) /\ Fresh(g) /\ Lasting(g) /\ Cleared(g)
  BY DEF GateInv, Passing
<1>2. \A p : (Always(p)' => Always(p)) /\ (Never(p)' => Never(p))
  BY Mono DEF GateInv
<1>3. Placed(g)'
  BY <1>1 DEF Placed
<1>4. Fresh(g)'
  BY <1>1 DEF Fresh, Forced
<1>5. Lasting(g)'
  BY <1>1, <1>2 DEF Lasting, Steady
<1>6. Cleared(g)'
  BY <1>1, <1>2 DEF Cleared
<1> QED
  BY <1>3, <1>4, <1>5, <1>6 DEF Passing

(* A step of h that only h sees.                                           *)
LEMMA Moves ==
    ASSUME GateInv, NEW h \in Handlers, NEW l \in Labels, NEW r \in Known,
           NEW m \in ModeOf \cup {None},
           at' = [at EXCEPT ![h] = l], held' = [held EXCEPT ![h] = r],
           seen' = [seen EXCEPT ![h] = m],
           UNCHANGED <<chat, entry, job, history>>, Passing(h)'
    PROVE  GateInv'
<1>1. /\ admins' = admins /\ mode' = mode /\ authorised' = authorised /\ changes' = changes
      /\ entry' = entry /\ job' = job /\ begun' = begun /\ upset' = upset /\ excused' = excused
      /\ reloaded' = reloaded /\ apart' = apart
  BY DEF chat, history
<1>2. Lists' /\ Chat'
  BY <1>1 DEF GateInv, Lists, Known, Chat, ReloadLasts
<1>3. Locals'
  BY <1>1 DEF GateInv, Locals, Known
<1>4. ASSUME NEW g \in Handlers \ {h} PROVE Passing(g)'
  <2>1. at'[g] = at[g] /\ held'[g] = held[g] /\ seen'[g] = seen[g]
    BY DEF GateInv, Locals
  <2>2. Grown
    BY <1>1 DEF Grown, GateInv, Lists
  <2>3. Steady(g)' => Steady(g)
    BY <1>1, <2>1 DEF Steady
  <2>4. at[g] # "idle" /\ job[g] \in Gates /\ Free(job[g].user, mode', authorised')
               => excused'[g]
    BY <1>1 DEF GateInv, Passing, Cleared
  <2> QED
    BY <1>1, <2>1, <2>2, <2>3, <2>4, Rest
<1> QED
  BY <1>2, <1>3, <1>4 DEF GateInv
(* Where h is afterwards: at l, with list r and mode m in hand.            *)
Turns(h, l, r, m) ==
    /\ at' = [at EXCEPT ![h] = l]
    /\ held' = [held EXCEPT ![h] = r]
    /\ seen' = [seen EXCEPT ![h] = m]

LEMMA GotoTurns ==
    ASSUME GateInv, NEW h \in Handlers, NEW l \in Labels, Goto(h, l)
    PROVE  Turns(h, l, held[h], seen[h]) /\ held[h] \in Known /\ seen[h] \in ModeOf \cup {None}
  BY DEF Goto, Turns, GateInv, Locals

LEMMA VerdictTurns ==
    ASSUME GateInv, NEW h \in Handlers, NEW b \in BOOLEAN, Verdict(h, b)
    PROVE  Turns(h, IF b THEN "passed" ELSE "refused", 0, None) /\ 0 \in Known
  BY LenProperties DEF Verdict, Turns, GateInv, Lists, Known

(* How GetAdmins ends for h when it has list r.                            *)
Outcome(h, r, l, q, m) ==
    /\ Turns(h, l, q, m)
    /\ l \in {"mode", "member", "set", "passed", "refused"}
    /\ q \in Known /\ m \in ModeOf \cup {None}
    /\ l \in {"mode", "member"} => job[h] \in Gates
    /\ l = "member" => m = "auth"
    /\ l = "set" => job[h].op = "setting" /\ job[h].user \in Listed(r)
    /\ l \in {"passed", "refused"} => m = None
    /\ l = "passed" => Forced(h) \/ job[h].user \in Listed(r)
    /\ l = "refused" /\ job[h] \in Gates => Bot \notin Listed(r) \/ job[h].user \notin Listed(r)

LEMMA GotOutcome ==
    ASSUME GateInv, NEW h \in Handlers, NEW r, Got(h, r)
    PROVE  \E l \in Labels, q \in Known, m \in ModeOf \cup {None} : Outcome(h, r, l, q, m)
<1> DEFINE Ends == \E l \in Labels, q \in Known, m \in ModeOf \cup {None} : Outcome(h, r, l, q, m)
<1> SUFFICES Ends
  OBVIOUS
<1>1. job[h] \in Jobs
  BY DEF GateInv, Locals
<1>2. /\ job[h] \in Gates <=> job[h].op \in {"admin", "play"}
      /\ {"mode", "member", "set", "passed", "refused"} \subseteq Labels
  BY <1>1, JobKinds DEF Labels
<1>3. held[h] \in Known /\ seen[h] \in ModeOf \cup {None} /\ 0 \in Known
  BY LenProperties DEF GateInv, Locals, Lists, Known
<1>4. ASSUME job[h] \in Gates, Goto(h, "mode") PROVE Ends
  <2>1. Turns(h, "mode", held[h], seen[h])
    BY <1>2, <1>4, GotoTurns
  <2>2. Outcome(h, r, "mode", held[h], seen[h])
    BY <1>3, <1>4, <2>1 DEF Outcome
  <2> QED
    BY <1>2, <1>3, <2>2
<1>5. ASSUME job[h] \in Gates, Goto(h, "member"), seen[h] = "auth" PROVE Ends
  <2>1. Turns(h, "member", held[h], seen[h])
    BY <1>2, <1>5, GotoTurns
  <2>2. Outcome(h, r, "member", held[h], seen[h])
    BY <1>3, <1>5, <2>1 DEF Outcome
  <2> QED
    BY <1>2, <1>3, <2>2
<1>6. ASSUME job[h].op = "setting", job[h].user \in Listed(r), Goto(h, "set") PROVE Ends
  <2>1. Turns(h, "set", held[h], seen[h])
    BY <1>2, <1>6, GotoTurns
  <2>2. Outcome(h, r, "set", held[h], seen[h])
    BY <1>3, <1>6, <2>1 DEF Outcome
  <2> QED
    BY <1>2, <1>3, <2>2
<1>7. ASSUME Forced(h) \/ job[h].user \in Listed(r), Verdict(h, TRUE) PROVE Ends
  <2>1. Turns(h, "passed", 0, None)
    BY <1>7, VerdictTurns
  <2>2. Outcome(h, r, "passed", 0, None)
    BY <1>3, <1>7, <2>1 DEF Outcome
  <2> QED
    BY <1>2, <1>3, <2>2
<1>8. ASSUME job[h] \in Gates => Bot \notin Listed(r) \/ job[h].user \notin Listed(r),
             Verdict(h, FALSE)
      PROVE  Ends
  <2>1. Turns(h, "refused", 0, None)
    BY <1>8, VerdictTurns
  <2>2. Outcome(h, r, "refused", 0, None)
    BY <1>3, <1>8, <2>1 DEF Outcome
  <2> QED
    BY <1>2, <1>3, <2>2
<1> HIDE DEF Ends
<1>9. CASE job[h] \in Gates /\ seen[h] = None /\ BotGot(h, r)
  BY <1>4, <1>8, <1>9 DEF BotGot
<1>10. CASE job[h] \in Gates /\ UserGot(h, r)
  <2>1. CASE job[h].user \notin Listed(r) /\ seen[h] = "auth"
    BY <1>5, <1>10, <2>1 DEF UserGot
  <2>2. CASE job[h].user \in Listed(r)
    <3>1. Verdict(h, TRUE)
      BY <1>10, <2>2 DEF UserGot, Verdict
    <3> QED
      BY <1>7, <2>2, <3>1
  <2>3. CASE job[h].user \notin Listed(r) /\ seen[h] # "auth"
    <3>1. Verdict(h, FALSE)
      BY <1>10, <2>3 DEF UserGot, Verdict
    <3> QED
      BY <1>8, <2>3, <3>1
  <2> QED
    BY <2>1, <2>2, <2>3
<1>11. CASE job[h].op = "setting" /\ SettingGot(h, r)
  <2>1. job[h] \notin Gates
    BY <1>2, <1>11
  <2> QED
    BY <1>6, <1>8, <1>11, <2>1 DEF SettingGot
<1>12. CASE Forced(h) /\ Verdict(h, TRUE)
  BY <1>7, <1>12
<1> QED
  BY <1>9, <1>10, <1>11, <1>12 DEF Got
LEMMA TurnsApplied ==
    ASSUME GateInv, NEW h \in Handlers, NEW l \in Labels, NEW q \in Known,
           NEW m \in ModeOf \cup {None}, Turns(h, l, q, m)
    PROVE  /\ at'[h] = l /\ held'[h] = q /\ seen'[h] = m
           /\ \A g \in Handlers \ {h} : at'[g] = at[g] /\ held'[g] = held[g] /\ seen'[g] = seen[g]
  BY DEF Turns, GateInv, Locals

(* What h relies on after GetAdmins has ended for it with list r.          *)
LEMMA OutcomePasses ==
    ASSUME GateInv, NEW h \in Handlers, NEW r \in Known,
           NEW l \in Labels, NEW q \in Known, NEW m \in ModeOf \cup {None},
           Outcome(h, r, l, q, m), at[h] \in {"look", "put"},
           UNCHANGED <<chat, job, begun, upset, excused>>,
           Steady(h) => r # 0 /\ entry' \notin {0, None}
    PROVE  Passing(h)'
<1>1. at'[h] = l /\ held'[h] = q /\ seen'[h] = m
  BY TurnsApplied DEF Outcome
<1>2. /\ admins' = admins /\ mode' = mode /\ authorised' = authorised /\ job' = job
      /\ begun' = begun /\ upset' = upset /\ excused' = excused
  BY DEF chat
<1>3. l \in {"mode", "member", "set", "passed", "refused"}
  BY DEF Outcome
<1>4. Passing(h)
  BY DEF GateInv
<1>5. job[h] \in Jobs /\ Lists
  BY DEF GateInv, Locals
<1>6. Placed(h)'
  BY <1>1, <1>2, <1>3 DEF Placed, Outcome
<1>7. Fresh(h)'
  BY <1>1, <1>3 DEF Fresh
<1>8. Lasting(h)'
  <2>1. Steady(h)' => Steady(h)
    BY <1>2 DEF Steady
  <2>2. Steady(h) /\ Always(job[h].user) /\ Always(Bot) => l # "refused"
    BY <1>5, ListedTruly DEF Outcome, Steady
  <2> QED
    BY <1>1, <1>2, <1>3, <2>1, <2>2 DEF Lasting, Always
<1>9. Cleared(h)'
  <2>1. l \in {"passed", "set"} /\ job[h].user # None => ~Never(job[h].user)
    <3>1. Forced(h) => job[h].user = None
      BY <1>5, JobKinds DEF Forced
    <3> QED
      BY <1>5, <3>1, ListedTruly DEF Outcome
  <2>2. at[h] # "idle"
    OBVIOUS
  <2> QED
    BY <1>1, <1>2, <1>3, <1>4, <2>1, <2>2 DEF Passing, Cleared, Never
<1> QED
  BY <1>6, <1>7, <1>8, <1>9 DEF Passing

LEMMA LookKeeps ==
    ASSUME GateInv, NEW h \in Handlers, Look(h)
    PROVE  GateInv'
<1>1. at[h] = "look" /\ Passing(h) /\ Lists
  BY DEF Look, GateInv
<1>2. UNCHANGED <<chat, entry, job, history>> /\ UNCHANGED <<chat, job, begun, upset, excused>>
  BY DEF Look, history
<1>3. CASE entry # None
  <2>1. entry \in Known
    BY <1>1, <1>3 DEF Lists
  <2>2. PICK l \in Labels, q \in Known, m \in ModeOf \cup {None} : Outcome(h, entry, l, q, m)
    BY <1>3, GotOutcome DEF Look
  <2>3. Steady(h) => entry # 0 /\ entry' \notin {0, None}
    BY <1>1, <1>2, <1>3 DEF Passing, Lasting
  <2>4. PICK r \in Known : r = entry
    BY <2>1
  <2>5. Passing(h)'
    BY <1>1, <1>2, <2>2, <2>3, <2>4, OutcomePasses
  <2> QED
    BY <1>2, <2>2, <2>5, Moves DEF Outcome, Turns
<1>4. CASE entry = None
  <2>1. Goto(h, "fetch")
    BY <1>4 DEF Look
  <2>2. Turns(h, "fetch", held[h], seen[h]) /\ held[h] \in Known /\ seen[h] \in ModeOf \cup {None}
    BY <2>1, GotoTurns DEF Labels
  <2>3. PICK q \in Known, m \in ModeOf \cup {None} : q = held[h] /\ m = seen[h]
    BY <2>2
  <2>4. at'[h] = "fetch" /\ held'[h] = q /\ seen'[h] = m
    BY <2>2, <2>3, TurnsApplied DEF Labels
  <2>5. Placed(h)' /\ Fresh(h)'
    BY <1>1, <1>2, <2>4 DEF Placed, Fresh
  <2>6. Lasting(h)' /\ Cleared(h)'
    BY <1>1, <1>2, <1>4, <2>3, <2>4
    DEF Passing, Lasting, Cleared, Steady, chat, history
  <2>7. Passing(h)'
    BY <2>5, <2>6 DEF Passing
  <2> QED
    BY <1>2, <2>2, <2>3, <2>7, Moves DEF Turns, Labels
<1> QED
  BY <1>3, <1>4
(* A filter or /reload goes on, or is done with its job.                   *)
LEMMA AloneKeeps ==
    ASSUME GateInv, NEW h \in Handlers, NEW l \in {"clear", "authorise", "passed", "refused"},
           NEW q \in Known, NEW m \in ModeOf \cup {None}, Turns(h, l, q, m),
           UNCHANGED <<chat, entry, job, history>>, at[h] # "idle",
           l = "authorise" => job[h] \in Gates,
           l = "clear" => job[h].op \in {"reload", "demoted"},
           l # "authorise" => m = None,
           l = "refused" /\ Steady(h) => ~Always(job[h].user) \/ ~Always(Bot),
           l \in {"passed", "authorise"} /\ job[h].user # None =>
               ~Never(job[h].user) \/ (job[h] \in Gates /\ excused[h])
    PROVE  GateInv'
<1>1. at'[h] = l /\ held'[h] = q /\ seen'[h] = m
  BY TurnsApplied DEF Labels
<1>2. Placed(h)' /\ Fresh(h)'
  BY <1>1 DEF Placed, Fresh, history
<1>3. /\ admins' = admins /\ mode' = mode /\ authorised' = authorised /\ entry' = entry
      /\ job' = job /\ begun' = begun /\ upset' = upset /\ excused' = excused /\ Passing(h)
  BY DEF chat, history, GateInv
<1>4. Lasting(h)'
  <2>1. Steady(h)' => Steady(h)
    BY <1>3 DEF Steady
  <2> QED
    BY <1>1, <1>3, <2>1 DEF Passing, Lasting, Always
<1>5. Cleared(h)'
  BY <1>1, <1>3 DEF Passing, Cleared, Never
<1>6. Passing(h)'
  BY <1>2, <1>4, <1>5 DEF Passing
<1> QED
  BY <1>6, Moves DEF Turns, Labels

LEMMA ReloadKeeps ==
    ASSUME GateInv, NEW h \in Handlers, Reload(h)
    PROVE  GateInv'
<1>1. /\ at[h] = "reload" /\ Passing(h) /\ job[h] \in Jobs
      /\ UNCHANGED <<chat, entry, job, history>>
  BY DEF Reload, GateInv, Locals
<1>2. seen[h] = None /\ job[h].op \in {"reload", "demoted"}
  BY <1>1 DEF Passing, Placed
<1>3. job[h] \notin Gates
  BY <1>1, <1>2, JobKinds
<1>4. CASE Goto(h, "clear")
  <2>1. Turns(h, "clear", held[h], None) /\ held[h] \in Known
    BY <1>2, <1>4, GotoTurns DEF Labels
  <2>2. PICK q \in Known : q = held[h]
    BY <2>1
  <2> QED
    BY <1>1, <1>2, <1>3, <2>1, <2>2, AloneKeeps DEF Labels, Steady
<1>5. CASE Verdict(h, FALSE)
  <2>1. Turns(h, "refused", 0, None) /\ 0 \in Known
    BY <1>5, VerdictTurns
  <2> QED
    BY <1>1, <1>2, <1>3, <2>1, AloneKeeps DEF Labels, Steady
<1> QED
  BY <1>4, <1>5 DEF Reload

(* A command that is let through, as it was right to do.                   *)
LEMMA ThroughKeeps ==
    ASSUME GateInv, NEW h \in Handlers, Through(h), at[h] \in {"mode", "member"},
           UNCHANGED <<chat, entry, job, history>>,
           ~Never(job[h].user) \/ excused[h]
    PROVE  GateInv'
<1>1. Passing(h) /\ job[h] \in Gates
  BY DEF GateInv, Passing, Placed
<1>2. CASE Goto(h, "authorise")
  <2>1. /\ Turns(h, "authorise", held[h], seen[h]) /\ held[h] \in Known
        /\ seen[h] \in ModeOf \cup {None}
    BY <1>2, GotoTurns DEF Labels
  <2>2. PICK q \in Known, m \in ModeOf \cup {None} : q = held[h] /\ m = seen[h]
    BY <2>1
  <2> QED
    BY <1>1, <2>1, <2>2, AloneKeeps DEF Labels
<1>3. CASE Verdict(h, TRUE)
  <2>1. Turns(h, "passed", 0, None) /\ 0 \in Known
    BY <1>3, VerdictTurns
  <2> QED
    BY <1>1, <2>1, AloneKeeps DEF Labels
<1> QED
  BY <1>2, <1>3 DEF Through

LEMMA ModeKeeps ==
    ASSUME GateInv, NEW h \in Handlers, Mode(h)
    PROVE  GateInv'
<1>1. /\ at[h] = "mode" /\ Passing(h) /\ job[h] \in Gates /\ mode \in ModeOf
      /\ UNCHANGED <<chat, entry, job, history>>
  BY DEF Mode, GateInv, Chat, Passing, Placed
<1>2. CASE mode = "everyone"
  <2>1. Through(h)
    BY <1>2 DEF Mode
  <2>2. excused[h]
    BY <1>1, <1>2 DEF Passing, Cleared, Free
  <2> QED
    BY <1>1, <2>1, <2>2, ThroughKeeps
<1>3. CASE mode # "everyone"
  <2>1. PICK l \in {"look", "member"} : at' = [at EXCEPT ![h] = l]
    BY <1>3 DEF Mode
  <2>2. held[h] \in Known /\ held' = [held EXCEPT ![h] = held[h]]
    BY <1>3 DEF Mode, GateInv, Locals
  <2>3. PICK q \in Known : q = held[h]
    BY <2>2
  <2>4. Turns(h, l, q, mode)
    BY <1>3, <2>1, <2>2, <2>3 DEF Mode, Turns
  <2>5. PICK m \in {"admins", "auth"} : m = mode
    BY <1>1, <1>3 DEF ModeOf
  <2>6. Steady(h) => entry # None
    BY <1>1 DEF Passing, Lasting
  <2>7. at'[h] = l /\ seen'[h] = m
    BY <2>4, <2>5, TurnsApplied DEF Labels, ModeOf
  <2>8. Passing(h)'
    <3>1. Placed(h)' /\ Fresh(h)'
      BY <1>1, <2>7 DEF Placed, Fresh
    <3>2. Lasting(h)' /\ Cleared(h)'
      BY <1>1, <2>6, <2>7 DEF Passing, Lasting, Cleared, Steady, chat, history
    <3> QED
      BY <3>1, <3>2 DEF Passing
  <2> QED
    BY <1>1, <2>4, <2>5, <2>8, Moves DEF Turns, Labels, ModeOf
<1> QED
  BY <1>2, <1>3

LEMMA MemberKeeps ==
    ASSUME GateInv, NEW h \in Handlers, Member(h)
    PROVE  GateInv'
<1>1. /\ at[h] = "member" /\ Passing(h) /\ job[h] \in Gates /\ Lists
      /\ UNCHANGED <<chat, entry, job, history>>
  BY DEF Member, GateInv, Passing, Placed
<1>2. entry \in Known => ~Never(job[h].user) \/ job[h].user \notin Listed(entry)
  BY <1>1, ListedTruly
<1>3. entry = None => Listed(entry) = {}
  BY DEF Listed
<1>4. CASE job[h].user \in Listed(entry) \/ (seen[h] = "auth" /\ job[h].user \in authorised)
  <2>1. Through(h)
    BY <1>4 DEF Member
  <2>2. job[h].user \in authorised => excused[h]
    BY <1>1 DEF Passing, Cleared, Free
  <2>3. entry \in Known \cup {None}
    BY <1>1 DEF Lists
  <2> QED
    BY <1>1, <1>2, <1>3, <1>4, <2>1, <2>2, <2>3, ThroughKeeps
<1>5. CASE ~(job[h].user \in Listed(entry) \/ (seen[h] = "auth" /\ job[h].user \in authorised))
  <2>1. Verdict(h, FALSE)
    BY <1>5 DEF Member
  <2>2. Turns(h, "refused", 0, None) /\ 0 \in Known
    BY <2>1, VerdictTurns
  <2>3. Steady(h) => ~Always(job[h].user)
    <3>1. Steady(h) => entry # None /\ entry # 0
      BY <1>1 DEF Passing, Lasting
    <3>2. entry \in Known \cup {None}
      BY <1>1 DEF Lists
    <3> QED
      BY <1>1, <1>5, <3>1, <3>2, ListedTruly
  <2> QED
    BY <1>1, <2>2, <2>3, AloneKeeps DEF Labels
<1> QED
  BY <1>4, <1>5
LEMMA FetchKeeps ==
    ASSUME GateInv, NEW h \in Handlers, Fetch(h)
    PROVE  GateInv'
<1>1. /\ at[h] = "fetch" /\ Passing(h) /\ Lists /\ Locals /\ job[h] \in Jobs
      /\ UNCHANGED <<chat, entry, job, begun, excused, reloaded, apart>>
  BY DEF Fetch, GateInv, Locals
<1>2. Len(admins) \in Known /\ Len(admins) # 0
  BY <1>1, LenProperties DEF Lists, Known
<1>3. CASE /\ at' = [at EXCEPT ![h] = "put"] /\ held' = [held EXCEPT ![h] = Len(admins)]
           /\ UNCHANGED <<seen, upset>>
  <2>1. PICK q \in Known, m \in ModeOf \cup {None} : q = Len(admins) /\ m = seen[h]
    BY <1>1, <1>2 DEF Locals
  <2>2. Turns(h, "put", q, m) /\ UNCHANGED <<chat, entry, job, history>>
    BY <1>1, <1>3, <2>1 DEF Turns, Locals, history
  <2>3. at'[h] = "put" /\ held'[h] = q /\ seen'[h] = m
    BY <2>2, TurnsApplied DEF Labels
  <2>4. reloaded \in Known /\ begun[h] \in Known
    BY <1>1 DEF Lists, Locals
  <2>5. q # 0 /\ q >= reloaded /\ q >= begun[h]
    BY <1>1, <1>2, <2>1, <2>4, LenProperties DEF Known, Lists
  <2>6. Placed(h)' /\ Fresh(h)'
    BY <1>1, <2>3, <2>5 DEF Placed, Fresh
  <2>7. Lasting(h)' /\ Cleared(h)'
    BY <1>1, <1>3, <2>1, <2>3 DEF Passing, Lasting, Cleared, Steady, chat
  <2> QED
    BY <2>2, <2>6, <2>7, Moves DEF Turns, Labels, Passing
<1>4. CASE /\ IF job[h] \in Gates /\ seen[h] = None THEN Goto(h, "negate") ELSE Verdict(h, FALSE)
           /\ upset' = [upset EXCEPT ![h] = job[h] \in Gates]
  <2>1. PICK l \in {"negate", "refused"}, q \in Known, m \in ModeOf \cup {None} :
            /\ Turns(h, l, q, m)
            /\ l = "negate" => job[h] \in Gates
            /\ l = "refused" => m = None
    <3>1. CASE job[h] \in Gates /\ seen[h] = None
      BY <1>4, <3>1, GotoTurns DEF Labels
    <3>2. CASE ~(job[h] \in Gates /\ seen[h] = None)
      BY <1>4, <3>2, VerdictTurns
    <3> QED
      BY <3>1, <3>2
  <2>2. /\ at'[h] = l /\ held'[h] = q /\ seen'[h] = m
        /\ \A g \in Handlers \ {h} : at'[g] = at[g] /\ held'[g] = held[g] /\ seen'[g] = seen[g]
    BY <2>1, TurnsApplied DEF Labels
  <2>3. upset'[h] = (job[h] \in Gates) /\ \A g \in Handlers \ {h} : upset'[g] = upset[g]
    BY <1>1, <1>4 DEF Locals
  <2>4. Lists' /\ Chat' /\ Grown
    BY <1>1 DEF GateInv, Lists, Chat, Known, ReloadLasts, Grown, chat
  <2>5. upset' \in [Handlers -> BOOLEAN]
    <3>1. CASE job[h] \in Gates
      <4>1. upset' = [upset EXCEPT ![h] = TRUE]
        BY <1>4, <3>1
      <4> QED
        BY <1>1, <4>1 DEF Locals
    <3>2. CASE job[h] \notin Gates
      <4>1. (job[h] \in Gates) = FALSE
        BY <3>2
      <4>2. upset' = [upset EXCEPT ![h] = FALSE]
        BY <1>4, <4>1, Zenon
      <4> QED
        BY <1>1, <4>2 DEF Locals
    <3> QED
      BY <3>1, <3>2
  <2>6. Locals'
    BY <1>1, <2>1, <2>5 DEF Locals, Turns, Known, Labels, chat
  <2>7. Placed(h)' /\ Fresh(h)'
    BY <1>1, <2>1, <2>2 DEF Placed, Fresh
  <2>8. Lasting(h)'
    BY <1>1, <2>3 DEF Lasting, Steady
  <2>9. Cleared(h)'
    BY <1>1, <2>1, <2>2 DEF Passing, Cleared, chat
  <2>10. ASSUME NEW g \in Handlers \ {h} PROVE Passing(g)'
    <3>1. Steady(g)' => Steady(g)
      BY <1>1, <2>2, <2>3 DEF Steady
    <3>2. at[g] # "idle" /\ job[g] \in Gates /\ Free(job[g].user, mode', authorised')
               => excused'[g]
      BY <1>1 DEF GateInv, Passing, Cleared, chat
    <3> QED
      BY <1>1, <2>2, <2>4, <3>1, <3>2, Rest
  <2> QED
    BY <2>4, <2>6, <2>7, <2>8, <2>9, <2>10 DEF GateInv, Passing
<1> QED
  BY <1>3, <1>4 DEF Fetch

(* A list that was forced counts as the last one only from the moment it   *)
(* is cached, and apart says that no other answer was on its way then.     *)
LEMMA PutKeeps ==
    ASSUME GateInv, NEW h \in Handlers, Put(h)
    PROVE  GateInv'
<1>1. /\ at[h] = "put" /\ Passing(h) /\ Lists /\ Locals /\ job[h] \in Jobs
      /\ UNCHANGED <<chat, job, begun, upset, excused>> /\ entry' = held[h]
  BY DEF Put, GateInv, Locals
<1>2. held[h] \in Known /\ held[h] # 0 /\ held[h] # None /\ begun[h] \in Known
  BY <1>1, GateAssumption, LenProperties
  DEF Passing, Fresh, Locals, Known, Lists, GateAssumption
<1>3. PICK r \in Known : r = held[h]
  BY <1>2
<1>4. PICK l \in Labels, q \in Known, m \in ModeOf \cup {None} : Outcome(h, r, l, q, m)
  BY <1>3, GotOutcome DEF Put
<1>5. Passing(h)'
  BY <1>1, <1>2, <1>3, <1>4, OutcomePasses
<1>6. /\ at'[h] = l /\ l # "put"
      /\ \A g \in Handlers \ {h} : at'[g] = at[g] /\ held'[g] = held[g] /\ seen'[g] = seen[g]
  BY <1>4, TurnsApplied DEF Outcome
<1>7. apart' => apart /\ (Forced(h) => \A g \in Handlers \ {h} : at[g] # "put")
  BY DEF Put
<1>8. reloaded' = IF Forced(h) THEN begun[h] ELSE reloaded
  BY DEF Put
<1>9. Lists'
  <2>1. apart' => entry' >= reloaded'
    BY <1>1, <1>2, <1>7, <1>8 DEF Passing, Fresh
  <2>2. reloaded' \in Known'
    BY <1>1, <1>2, <1>8 DEF Lists, Known, chat
  <2>3. apart' \in BOOLEAN
    <3>1. CASE apart /\ (Forced(h) => \A g \in Handlers \ {h} : at[g] # "put")
      BY <3>1 DEF Put
    <3>2. CASE ~(apart /\ (Forced(h) => \A g \in Handlers \ {h} : at[g] # "put"))
      BY <3>2 DEF Put
    <3> QED
      BY <3>1, <3>2
  <2>4. entry' \in Known'
    BY <1>1, <1>2 DEF Known, chat
  <2> QED
    BY <1>1, <2>1, <2>2, <2>3, <2>4 DEF Lists, ReloadLasts, chat
<1>10. Chat' /\ Grown
  BY <1>1 DEF GateInv, Chat, Grown, Lists, chat
<1>11. Locals'
  BY <1>1, <1>4 DEF Locals, Outcome, Turns, Known, Labels, chat
<1>12. ASSUME NEW g \in Handlers \ {h} PROVE Passing(g)'
  <2>1. Steady(g)' => Steady(g)
    BY <1>1, <1>6 DEF Steady
  <2>2. entry' \notin {0, None}
    BY <1>1, <1>2
  <2>3. at[g] # "idle" /\ job[g] \in Gates /\ Free(job[g].user, mode', authorised')
             => excused'[g]
    BY <1>1 DEF GateInv, Passing, Cleared, chat
  <2>4. at[g] = "put" /\ apart' => reloaded' = reloaded
    BY <1>7, <1>8
  <2> QED
    BY <1>1, <1>6, <1>7, <1>10, <2>1, <2>2, <2>3, <2>4, Rest
<1> QED
  BY <1>5, <1>9, <1>10, <1>11, <1>12 DEF GateInv
-----------------------------------------------------------------------------
(* The list is lost.                                                       *)

LEMMA UpsetAll ==
    ASSUME GateInv, Upset, job' = job
    PROVE  /\ upset' \in [Handlers -> BOOLEAN]
           /\ \A g \in Handlers : at[g] # "idle" => ~Steady(g)'
<1>1. \A g \in Handlers : (at[g] # "idle" /\ job[g] \in Gates) \in BOOLEAN
  OBVIOUS
<1>2. upset' \in [Handlers -> BOOLEAN]
  BY <1>1 DEF Upset
<1>3. \A g \in Handlers : upset'[g] = (at[g] # "idle" /\ job[g] \in Gates)
  BY DEF Upset
<1> QED
  BY <1>2, <1>3 DEF Steady

(* h loses the list for all; what it goes on with is right.                *)
LEMMA LossKeeps ==
    ASSUME GateInv, Upset, UNCHANGED <<chat, job, begun, excused, reloaded, apart>>,
           entry' \in {0, None}, NEW h \in Handlers, at[h] # "idle",
           NEW l \in {"fetch", "passed", "refused"}, NEW q \in Known,
           NEW m \in ModeOf \cup {None}, Turns(h, l, q, m),
           l # "fetch" => m = None,
           l = "passed" => job[h].user = None
    PROVE  GateInv'
<1>1. /\ at'[h] = l /\ held'[h] = q /\ seen'[h] = m
      /\ \A g \in Handlers \ {h} : at'[g] = at[g] /\ held'[g] = held[g] /\ seen'[g] = seen[g]
  BY TurnsApplied DEF Labels
<1>2. Lists /\ Chat /\ Locals /\ \A g \in Handlers : Passing(g)
  BY DEF GateInv
<1>3. Lists' /\ Chat' /\ Grown
  BY <1>2, LenProperties DEF Lists, Chat, Known, ReloadLasts, Grown, chat
<1>4. Locals'
  BY <1>2, UpsetAll DEF Locals, Turns, Known, Labels, chat
<1>5. Passing(h)'
  <2>1. Placed(h)' /\ Fresh(h)'
    BY <1>1 DEF Placed, Fresh
  <2>2. Lasting(h)'
    BY UpsetAll DEF Lasting
  <2>3. Cleared(h)'
    BY <1>1, <1>2 DEF Passing, Cleared, chat
  <2> QED
    BY <2>1, <2>2, <2>3 DEF Passing
<1>6. ASSUME NEW g \in Handlers \ {h} PROVE Passing(g)'
  <2>1. ~Steady(g)'
    <3>1. CASE at[g] = "idle"
      BY <1>1, <3>1 DEF Steady
    <3>2. CASE at[g] # "idle"
      BY <3>2, UpsetAll
    <3> QED
      BY <3>1, <3>2
  <2>2. at[g] # "idle" /\ job[g] \in Gates /\ Free(job[g].user, mode', authorised')
             => excused'[g]
    BY <1>2 DEF Passing, Cleared, chat
  <2> QED
    BY <1>1, <1>3, <2>1, <2>2, Rest
<1> QED
  BY <1>3, <1>4, <1>5, <1>6 DEF GateInv

LEMMA ClearKeeps ==
    ASSUME GateInv, NEW h \in Handlers, Clear(h)
    PROVE  GateInv'
<1>1. at[h] = "clear" /\ Passing(h) /\ job[h] \in Jobs
  BY DEF Clear, GateInv, Locals
<1>2. job[h].op \in {"reload", "demoted"} /\ job[h].user = None
  BY <1>1, JobKinds DEF Passing, Placed
<1>3. CASE job[h].op = "reload"
  <2>1. PICK q \in Known, m \in ModeOf \cup {None} : Turns(h, "fetch", q, m)
    BY <1>3, GotoTurns DEF Clear, Labels
  <2> QED
    BY <1>1, <1>2, <2>1, LossKeeps DEF Clear
<1>4. CASE job[h].op # "reload"
  <2>1. Turns(h, "passed", 0, None) /\ 0 \in Known
    BY <1>4, VerdictTurns DEF Clear
  <2> QED
    BY <1>1, <1>2, <2>1, LossKeeps DEF Clear
<1> QED
  BY <1>3, <1>4

LEMMA NegateKeeps ==
    ASSUME GateInv, NEW h \in Handlers, Negate(h)
    PROVE  GateInv'
<1>1. Turns(h, "refused", 0, None) /\ 0 \in Known
  BY VerdictTurns DEF Negate
<1> QED
  BY <1>1, LossKeeps DEF Negate

LEMMA ExpireKeeps ==
    ASSUME GateInv, Expire
    PROVE  GateInv'
<1>1. /\ UNCHANGED <<chat, locals, begun, excused, reloaded, apart>> /\ Upset /\ entry' = None
      /\ at' = at /\ job' = job /\ held' = held /\ seen' = seen
  BY DEF Expire, locals
<1>2. Lists /\ Chat /\ Locals /\ \A g \in Handlers : Passing(g)
  BY DEF GateInv
<1>3. Lists' /\ Chat' /\ Grown
  BY <1>1, <1>2 DEF Lists, Chat, Known, ReloadLasts, Grown, chat
<1>4. Locals'
  BY <1>1, <1>2, UpsetAll DEF Locals, Known, chat
<1>5. ASSUME NEW g \in Handlers PROVE Passing(g)'
  <2>1. ~Steady(g)'
    <3>1. CASE at[g] = "idle"
      BY <1>1, <3>1 DEF Steady
    <3>2. CASE at[g] # "idle"
      BY <1>1, <3>2, UpsetAll
    <3> QED
      BY <3>1, <3>2
  <2>2. at[g] # "idle" /\ job[g] \in Gates /\ Free(job[g].user, mode', authorised')
             => excused'[g]
    BY <1>1, <1>2 DEF Passing, Cleared, chat
  <2> QED
    BY <1>1, <1>3, <2>1, <2>2, Rest
<1> QED
  BY <1>3, <1>4, <1>5 DEF GateInv

-----------------------------------------------------------------------------
(* What changes in the chat.                                               *)

LEMMA ChangeKeeps ==
    ASSUME GateInv, Change
    PROVE  GateInv'
<1>1. /\ UNCHANGED <<entry, mode, authorised, locals, history>>
      /\ at' = at /\ job' = job /\ held' = held /\ seen' = seen
      /\ begun' = begun /\ upset' = upset /\ excused' = excused
      /\ reloaded' = reloaded /\ apart' = apart /\ changes' = changes + 1 /\ changes < MaxChanges
  BY DEF Change, Counted, locals, history
<1>2. Lists /\ Chat /\ Locals /\ \A g \in Handlers : Passing(g)
  BY DEF GateInv
<1>3. PICK s \in SUBSET People : admins' = Append(admins, s)
  <2>1. Len(admins) \in 1..Len(admins) /\ admins[Len(admins)] \in SUBSET People
    BY <1>2, LenProperties, GateAssumption DEF Lists, GateAssumption
  <2>2. PICK p \in People : admins' =
            Append(admins, IF p \in admins[Len(admins)] THEN admins[Len(admins)] \ {p}
                                                        ELSE admins[Len(admins)] \cup {p})
    BY DEF Change
  <2> QED
    BY <2>1, <2>2
<1>4. admins' \in Seq(SUBSET People) /\ Len(admins') = Len(admins) + 1 /\ Grown
  BY <1>2, <1>3, AppendProperties, LenProperties DEF Lists, Grown
<1>5. Known \subseteq Known'
  BY <1>2, <1>4, LenProperties DEF Known, Lists
<1>6. Lists'
  <2>1. changes' \in 0..MaxChanges /\ Len(admins') \in 1..(changes' + 1)
    BY <1>1, <1>2, <1>4, LenProperties, GateAssumption DEF Lists, GateAssumption
  <2> QED
    BY <1>1, <1>2, <1>4, <1>5, <2>1 DEF Lists, ReloadLasts
<1>7. Chat' /\ Locals'
  BY <1>1, <1>2, <1>5 DEF Chat, Locals
<1>8. ASSUME NEW g \in Handlers PROVE Passing(g)'
  <2>1. Steady(g)' => Steady(g)
    BY <1>1 DEF Steady
  <2>2. at[g] # "idle" /\ job[g] \in Gates /\ Free(job[g].user, mode', authorised')
             => excused'[g]
    BY <1>1, <1>2 DEF Passing, Cleared
  <2> QED
    BY <1>1, <1>4, <2>1, <2>2, Rest
<1> QED
  BY <1>6, <1>7, <1>8 DEF GateInv

(* The mode or an authorised user changes while others are at work: Excuse *)
(* puts on record who need not be an administrator now.                    *)
LEMMA ExcuseKeeps ==
    ASSUME GateInv, NEW h \in Handlers, at[h] \in {"authorise", "set"}, Excuse, Verdict(h, TRUE),
           UNCHANGED <<admins, entry, job, begun, upset, reloaded, apart>>,
           changes' = changes \/ (changes < MaxChanges /\ changes' = changes + 1),
           mode' \in ModeOf, authorised' \subseteq Members
    PROVE  GateInv'
<1>1. Lists /\ Chat /\ Locals /\ \A g \in Handlers : Passing(g)
  BY DEF GateInv
<1>2. Turns(h, "passed", 0, None) /\ 0 \in Known
  BY VerdictTurns
<1>3. /\ at'[h] = "passed" /\ held'[h] = 0 /\ seen'[h] = None
      /\ \A g \in Handlers \ {h} : at'[g] = at[g] /\ held'[g] = held[g] /\ seen'[g] = seen[g]
  BY <1>2, TurnsApplied DEF Labels
<1>4. \A g \in Handlers :
          excused'[g] = (excused[g] \/ (job[g] \in Gates /\ Free(job[g].user, mode', authorised')))
  BY DEF Excuse
<1>5. excused' \in [Handlers -> BOOLEAN]
  <2>1. \A g \in Handlers :
            (excused[g] \/ (job[g] \in Gates /\ Free(job[g].user, mode', authorised'))) \in BOOLEAN
    OBVIOUS
  <2> QED
    BY <2>1 DEF Excuse
<1>6. Lists' /\ Chat' /\ Grown
  BY <1>1, GateAssumption, LenProperties
  DEF Lists, Chat, Known, ReloadLasts, Grown, GateAssumption
<1>7. Locals'
  BY <1>1, <1>2, <1>5 DEF Locals, Turns, Known, Labels
<1>8. Passing(h)'
  <2>1. Placed(h)' /\ Fresh(h)'
    BY <1>3 DEF Placed, Fresh
  <2>2. Lasting(h)'
    BY <1>1, <1>3 DEF Passing, Lasting, Steady
  <2>3. Cleared(h)'
    BY <1>1, <1>3, <1>4 DEF Passing, Cleared, Never
  <2> QED
    BY <2>1, <2>2, <2>3 DEF Passing
<1>9. ASSUME NEW g \in Handlers \ {h} PROVE Passing(g)'
  <2>1. Steady(g)' => Steady(g)
    BY <1>3 DEF Steady
  <2>2. /\ excused[g] => excused'[g]
        /\ job[g] \in Gates /\ Free(job[g].user, mode', authorised') => excused'[g]
    BY <1>4
  <2> QED
    BY <1>3, <1>6, <2>1, <2>2, Rest
<1> QED
  BY <1>6, <1>7, <1>8, <1>9 DEF GateInv
LEMMA AuthoriseKeeps ==
    ASSUME GateInv, NEW h \in Handlers, Authorise(h)
    PROVE  GateInv'
<1>1. /\ at[h] = "authorise" /\ Excuse /\ Verdict(h, TRUE) /\ Chat
      /\ UNCHANGED <<entry, job, begun, upset, reloaded, apart>>
  BY DEF Authorise, GateInv
<1>2. /\ admins' = admins /\ mode' \in ModeOf /\ authorised' \subseteq Members
      /\ changes' = changes \/ (changes < MaxChanges /\ changes' = changes + 1)
  BY <1>1 DEF Authorise, Counted, Chat, chat
<1> QED
  BY <1>1, <1>2, ExcuseKeeps

LEMMA SetKeeps ==
    ASSUME GateInv, NEW h \in Handlers, Set(h)
    PROVE  GateInv'
<1>1. /\ at[h] = "set" /\ Excuse /\ Verdict(h, TRUE) /\ Chat
      /\ UNCHANGED <<entry, job, begun, upset, reloaded, apart>>
  BY DEF Set, GateInv
<1>2. /\ admins' = admins /\ mode' \in ModeOf /\ authorised' \subseteq Members
      /\ changes' = changes \/ (changes < MaxChanges /\ changes' = changes + 1)
  BY <1>1 DEF Set, Counted, Chat, chat
<1> QED
  BY <1>1, <1>2, ExcuseKeeps

(* h begins or ends: nobody else sees it.                                  *)
LEMMA TurnKeeps ==
    ASSUME GateInv, NEW h \in Handlers, UNCHANGED <<chat, entry, reloaded, apart>>,
           NEW l \in Labels, at' = [at EXCEPT ![h] = l], UNCHANGED <<held, seen>>,
           NEW j \in Jobs, job' = [job EXCEPT ![h] = j],
           NEW b \in Known, begun' = [begun EXCEPT ![h] = b],
           NEW u \in BOOLEAN, upset' = [upset EXCEPT ![h] = u],
           NEW e \in BOOLEAN, excused' = [excused EXCEPT ![h] = e],
           Passing(h)'
    PROVE  GateInv'
<1>1. Lists /\ Chat /\ Locals /\ \A g \in Handlers : Passing(g)
  BY DEF GateInv
<1>2. Lists' /\ Chat' /\ Grown
  BY <1>1 DEF Lists, Chat, Known, ReloadLasts, Grown, chat
<1>3. Locals'
  BY <1>1 DEF Locals, Known, chat
<1>4. ASSUME NEW g \in Handlers \ {h} PROVE Passing(g)'
  <2>1. /\ at'[g] = at[g] /\ job'[g] = job[g] /\ held'[g] = held[g] /\ seen'[g] = seen[g]
        /\ begun'[g] = begun[g] /\ upset'[g] = upset[g] /\ excused'[g] = excused[g]
    BY <1>1 DEF Locals
  <2>2. Steady(g)' => Steady(g)
    BY <2>1 DEF Steady
  <2>3. at[g] # "idle" /\ job[g] \in Gates /\ Free(job[g].user, mode', authorised')
             => excused'[g]
    BY <1>1, <2>1 DEF Passing, Cleared, chat
  <2> QED
    BY <1>2, <2>1, <2>2, <2>3, Rest
<1> QED
  BY <1>2, <1>3, <1>4 DEF GateInv

LEMMA CallKeeps ==
    ASSUME GateInv, NEW h \in Handlers, Call(h)
    PROVE  GateInv'
<1>1. /\ at[h] = "idle" /\ Lists /\ Chat /\ Locals /\ Passing(h)
      /\ UNCHANGED <<chat, entry, reloaded, apart>>
  BY DEF Call, GateInv
<1>2. PICK j \in Jobs :
        /\ job' = [job EXCEPT ![h] = j]
        /\ Goto(h, CASE j.op = "reload" -> "reload"
                     [] j.op = "demoted" -> "clear"
                     [] j.op = "promoted" -> "fetch"
                     [] OTHER -> "look")
        /\ begun' = [begun EXCEPT ![h] = IF j.op \in {"reload", "promoted"} THEN Len(admins) ELSE 0]
        /\ upset' = [upset EXCEPT ![h] = j \in Gates /\ entry = 0]
        /\ excused' = [excused EXCEPT ![h] = j \in Gates /\ Free(j.user, mode, authorised)]
  BY DEF Call
<1>3. PICK l \in {"reload", "clear", "fetch", "look"} :
        /\ l = CASE j.op = "reload" -> "reload"
                 [] j.op = "demoted" -> "clear"
                 [] j.op = "promoted" -> "fetch"
                 [] OTHER -> "look"
        /\ l \in {"reload", "clear"} => j.op \in {"reload", "demoted"}
        /\ l = "look" => j \in Gates \/ j.op = "setting"
        /\ l = "fetch" => j \notin Gates
  BY <1>2, JobKinds
<1>4. at' = [at EXCEPT ![h] = l] /\ UNCHANGED <<held, seen>>
  BY <1>2, <1>3 DEF Goto
<1>5. PICK b \in Known : begun' = [begun EXCEPT ![h] = b]
  <2>1. Len(admins) \in Known /\ 0 \in Known
    BY <1>1, LenProperties DEF Lists, Known
  <2> QED
    BY <1>2, <2>1
<1>6. PICK u \in BOOLEAN : u = (j \in Gates /\ entry = 0)
  OBVIOUS
<1>7. PICK e \in BOOLEAN : e = (j \in Gates /\ Free(j.user, mode, authorised))
  OBVIOUS
<1>8. upset' = [upset EXCEPT ![h] = u] /\ excused' = [excused EXCEPT ![h] = e]
  BY <1>2, <1>6, <1>7, Zenon
<1>9. /\ at'[h] = l /\ job'[h] = j /\ upset'[h] = u /\ excused'[h] = e
      /\ held'[h] = held[h] /\ seen'[h] = seen[h]
  BY <1>1, <1>2, <1>4, <1>8 DEF Locals
<1>10. seen[h] = None
  BY <1>1 DEF Passing, Placed
<1>11. Placed(h)' /\ Fresh(h)'
  BY <1>3, <1>9, <1>10 DEF Placed, Fresh
<1>12. Lasting(h)'
  <2>1. Steady(h)' => entry # 0
    BY <1>6, <1>9 DEF Steady
  <2> QED
    BY <1>1, <1>9, <1>10, <2>1 DEF Lasting
<1>13. Cleared(h)'
  BY <1>1, <1>7, <1>9 DEF Cleared, chat
<1> QED
  BY <1>1, <1>2, <1>4, <1>5, <1>8, <1>11, <1>12, <1>13, TurnKeeps DEF Passing, Labels

LEMMA ReturnKeeps ==
    ASSUME GateInv, NEW h \in Handlers, Return(h)
    PROVE  GateInv'
<1>1. /\ at[h] \in {"passed", "refused"} /\ Lists /\ Chat /\ Locals /\ Passing(h)
      /\ UNCHANGED <<chat, entry, reloaded, apart>>
  BY DEF Return, GateInv
<1>2. Idle \in Jobs /\ Idle \notin Gates /\ Idle.op = "demoted" /\ 0 \in Known
  BY <1>1, LenProperties DEF Idle, Jobs, Gates, Lists, Known
<1>3. /\ at' = [at EXCEPT ![h] = "idle"] /\ UNCHANGED <<held, seen>>
      /\ job' = [job EXCEPT ![h] = Idle] /\ begun' = [begun EXCEPT ![h] = 0]
      /\ upset' = [upset EXCEPT ![h] = FALSE] /\ excused' = [excused EXCEPT ![h] = FALSE]
  BY DEF Return, Goto
<1>4. at'[h] = "idle" /\ job'[h] = Idle /\ seen'[h] = None
  BY <1>1, <1>3 DEF Locals, Passing, Placed
<1>5. Passing(h)'
  BY <1>2, <1>4 DEF Passing, Placed, Fresh, Lasting, Steady, Cleared
<1> QED
  BY <1>1, <1>2, <1>3, <1>5, TurnKeeps DEF Labels

-----------------------------------------------------------------------------
(* The theorems.                                                           *)

LEMMA GateInit == Init => GateInv
<1> SUFFICES ASSUME Init PROVE GateInv
  OBVIOUS
<1>1. PICK s \in SUBSET People : admins = <<s>>
  BY DEF Init
<1>2. admins \in Seq(SUBSET People) /\ Len(admins) = 1
  BY <1>1
<1>3. Idle \in Jobs /\ Idle \notin Gates /\ Idle.op = "demoted" /\ 0 \in Known
  BY <1>2 DEF Idle, Jobs, Gates, Known
<1>4. Lists
  BY <1>2, <1>3, GateAssumption DEF Init, Lists, ReloadLasts, GateAssumption
<1>5. Chat
  BY DEF Init, Chat
<1>6. Locals
  BY <1>3 DEF Init, Locals, Labels
<1>7. ASSUME NEW h \in Handlers PROVE Passing(h)
  BY <1>3 DEF Init, Passing, Placed, Fresh, Lasting, Steady, Cleared
<1> QED
  BY <1>4, <1>5, <1>6, <1>7 DEF GateInv

LEMMA GateNext ==
    ASSUME GateInv, [Next]_vars
    PROVE  GateInv'
<1>1. CASE Change \/ Expire
  BY <1>1, ChangeKeeps, ExpireKeeps
<1>2. CASE \E h \in Handlers : Call(h) \/ Step(h)
  BY <1>2, CallKeeps, ReloadKeeps, ClearKeeps, LookKeeps, FetchKeeps, PutKeeps, NegateKeeps,
     ModeKeeps, MemberKeeps, AuthoriseKeeps, SetKeeps, ReturnKeeps DEF Step
<1>3. CASE UNCHANGED vars
  <2>1. /\ UNCHANGED <<chat, entry, history>> /\ at' = at /\ job' = job /\ held' = held
        /\ seen' = seen /\ admins' = admins /\ mode' = mode /\ authorised' = authorised
        /\ changes' = changes /\ begun' = begun /\ upset' = upset /\ excused' = excused
        /\ reloaded' = reloaded /\ apart' = apart /\ entry' = entry
    BY <1>3 DEF vars, chat, history, locals
  <2>2. Lists' /\ Chat' /\ Locals' /\ Grown
    BY <2>1 DEF GateInv, Lists, Chat, Locals, Known, ReloadLasts, Grown
  <2>3. ASSUME NEW g \in Handlers PROVE Passing(g)'
    <3>1. Steady(g)' => Steady(g)
      BY <2>1 DEF Steady
    <3>2. at[g] # "idle" /\ job[g] \in Gates /\ Free(job[g].user, mode', authorised')
               => excused'[g]
      BY <2>1 DEF GateInv, Passing, Cleared
    <3> QED
      BY <2>1, <2>2, <3>1, <3>2, Rest
  <2> QED
    BY <2>2, <2>3 DEF GateInv
<1> QED
  BY <1>1, <1>2, <1>3 DEF Next

(* The inductive invariant holds in every behaviour.                       *)
THEOREM GateInvCorrect == Spec => []GateInv
  BY GateInit, GateNext, PTL DEF Spec

(* Type correctness: in particular an answer that is cached is never the   *)
(* empty list, and only a filter that has read a mode looks the user up.   *)
THEOREM TypeCorrect == Spec => []TypeOK
<1>1. GateInv => TypeOK
  <2> SUFFICES ASSUME GateInv PROVE TypeOK
    OBVIOUS
  <2>1. Known \subseteq Revision /\ Len(admins) \in Revision
    BY GateAssumption, LenProperties DEF GateInv, Lists, Known, Revision, GateAssumption
  <2>2. /\ admins \in Seq(SUBSET People) /\ Len(admins) \in Revision
        /\ entry \in Revision \cup {None} /\ changes \in 0..MaxChanges
        /\ reloaded \in Revision /\ apart \in BOOLEAN
    BY <2>1 DEF GateInv, Lists
  <2>3. /\ mode \in ModeOf /\ authorised \subseteq Members
        /\ at \in [Handlers -> Labels] /\ job \in [Handlers -> Jobs]
        /\ held \in [Handlers -> Revision] /\ seen \in [Handlers -> ModeOf \cup {None}]
        /\ begun \in [Handlers -> Revision]
        /\ upset \in [Handlers -> BOOLEAN] /\ excused \in [Handlers -> BOOLEAN]
    BY <2>1 DEF GateInv, Chat, Locals
  <2>4. \A h \in Handlers :
          /\ at[h] = "put" => held[h] # 0
          /\ at[h] = "member" => job[h] \in Gates /\ seen[h] \in {"admins", "auth"}
          /\ at[h] = "set" => job[h].op = "setting"
    BY DEF GateInv, Passing, Placed, Fresh
  <2> QED
    BY <2>2, <2>3, <2>4 DEF TypeOK
<1> QED
  BY <1>1, GateInvCorrect, PTL

(* A list older than the last /reload, or than the promotion of the bot,   *)
(* is not used again unless it was on its way when the new one came.       *)
THEOREM ReloadLastsCorrect == Spec => []ReloadLasts
<1>1. GateInv => ReloadLasts
  BY DEF GateInv, Lists
<1> QED
  BY <1>1, GateInvCorrect, PTL

(* Where the bot and a user have always been administrators the user is    *)
(* let through, in every mode and while the mode changes, unless the list  *)
(* is lost while the filter is at it.                                      *)
THEOREM AdminsPassCorrect == Spec => []AdminsPass
<1>1. GateInv => AdminsPass
  BY DEF GateInv, Passing, Lasting, Steady, AdminsPass
<1> QED
  BY <1>1, GateInvCorrect, PTL

(* Who never was an administrator passes only if nobody needed a list for  *)
(* the user at some time while the filter was at it, and does not change   *)
(* the settings.                                                           *)
THEOREM StrangersRefusedCorrect == Spec => []StrangersRefused
<1>1. GateInv => StrangersRefused
  BY DEF GateInv, Passing, Cleared, StrangersRefused
<1> QED
  BY <1>1, GateInvCorrect, PTL
=============================================================================

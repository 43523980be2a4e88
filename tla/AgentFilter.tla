----------------------------- MODULE AgentFilter -----------------------------
(***************************************************************************)
(* One refinement of retrieved evidence: an agent, a language model that   *)
(* answers with one command per reply, searches the raw turns of the       *)
(* question's conversation and names the turns to answer from; an auditor  *)
(* may put discarded ones back; the context is rebuilt from the result.    *)
(* What the models reply is any reply of a set; every call may fail.       *)
(*                                                                         *)
(* A sid is <<session, unit, part>>.  The unit is the exchange of LongMem  *)
(* or the chunk of LoCoMo, the part one of its turns; a name without part  *)
(* (0) is the unit's, and a model may shorten the session.                 *)
(*                                                                         *)
(* The names of this module differ from those of Evidence, so that the     *)
(* proofs about both can stand in one module.                              *)
(***************************************************************************)
EXTENDS Naturals, Sequences, FiniteSets, SequencesExt, Lists

CONSTANTS
  Rows,          \* the conversation: [session, index, user, words]
  Ending,        \* Ending[s]: the sessions whose id ends with s
  Within,        \* Within[t]: other sids whose text contains that of t
  Replies,       \* what the agent may reply, see ParseResponse
  Audits,        \* what the auditor may reply: lines [sid, keep]
  Configs,       \* configurations of a refinement, see from_params
  Contexts,      \* the sids that the retrieved context shows
  Stored,        \* names the summary store may return
  MaxCalls,      \* grep_agent_max_calls
  MaxSids,       \* grep_agent_max_sids
  MaxLines,      \* grep_agent_grep_max_lines
  TopN,          \* grep_agent_vector_topn
  Window         \* k of READ

ASSUME LimitsAssumption ==
  MaxCalls \in Nat /\ MaxSids \in Nat \ {0} /\ MaxLines \in Nat /\ TopN \in Nat /\ Window \in Nat
ASSUME EndingAssumption ==
  \A i \in DOMAIN Rows : \A s \in Ending[Rows[i].session] : s = Rows[i].session

\* Whatever is said and whatever is stored comes in lists of finite length.
List(s) == s \in Seq(ToSet(s))
ItemList(s) == List(s) /\ \A i \in DOMAIN s : List(s[i].arg)
ASSUME ListsAssumption ==
  /\ List(Rows) /\ \A i \in DOMAIN Rows : Rows[i].index \in Nat
  /\ \A g \in Contexts : List(g)
  /\ \A r \in Replies : ItemList(r.content) /\ ItemList(r.tools) /\ ItemList(r.reasoning)
  /\ \A l \in Audits : List(l)
  /\ IsFiniteSet(Stored)

MaxParseFailures == 3

VARIABLES
  cfg, given,        \* the configuration; the sids of the original context
  stage,
  calls,             \* calls of the agent so far
  failures, repeats, \* parse failures in a row; repetitions of the last command
  previous,          \* the last command that was executed, if any
  verified, found,   \* sids the tools returned; those that VECTOR returned
  chosen, final,     \* sids the agent named; sids after the policy and the auditor
  ruling,            \* trace["adjudication"]: [reply, keep], the seeds ruled KEEP
  fallback,          \* trace["fallback"]
  answer,            \* the context handed back: [text, sids, graph]
  recent, asked      \* history: the last replies; the last commands

loop == <<calls, failures, repeats, previous, verified, found, recent, asked>>
result == <<chosen, final, ruling, fallback, answer>>
refineVars == <<cfg, given, stage, loop, result>>

-----------------------------------------------------------------------------
(* The corpus.  Blank rows are dropped; the user's turn and the answer after   *)
(* it are the two parts of one unit.                                           *)
SidOf(row) ==
   IF row.user THEN <<row.session, row.index + 1, 1>> ELSE <<row.session, row.index, 2>>
CorpusTurns == LET all == [i \in DOMAIN Rows |-> [sid |-> SidOf(Rows[i]), words |-> Rows[i].words]]
         IN At(all, {i \in DOMAIN all : all[i].words # <<>>})
Sids == [i \in DOMAIN CorpusTurns |-> CorpusTurns[i].sid]
InSession(s) == At(Sids, {i \in DOMAIN Sids : Sids[i][1] = s})

Named(n) ==
  IF n \in ToSet(Sids) THEN <<n>>
  ELSE At(Sids, {i \in DOMAIN Sids : n[3] = 0 /\ Sids[i][1] = n[1] /\ Sids[i][2] = n[2]})

Resolve(n) ==
  IF Named(n) # <<>> THEN Named(n)
  ELSE LET others == {s \in Ending[n[1]] : s # n[1]}
       IN IF Cardinality(others) = 1 THEN Named(<<CHOOSE s \in others : TRUE, n[2], n[3]>>) ELSE <<>>

Distinct(s) == At(s, {i \in DOMAIN s : \A j \in 1..(i - 1) : s[j] # s[i]})
Normalized(names) == Distinct(FlattenSeq([i \in DOMAIN names |-> Resolve(names[i])]))
Among(s, T) == At(s, {i \in DOMAIN s : s[i] \in ToSet(T)})
Without(s, T) == At(s, {i \in DOMAIN s : s[i] \notin ToSet(T)})

-----------------------------------------------------------------------------
(* The tools.                                                                  *)
Phrase(pattern) ==
  At(CorpusTurns, {t \in DOMAIN CorpusTurns :
     \E i \in 0..Len(CorpusTurns[t].words) : IsPrefix(pattern, SubSeq(CorpusTurns[t].words, i + 1, Len(CorpusTurns[t].words)))})
AllWords(pattern) ==
  At(CorpusTurns, {t \in DOMAIN CorpusTurns : Len(pattern) >= 2 /\ ToSet(pattern) \subseteq ToSet(CorpusTurns[t].words)})

Grep(pattern) ==
  LET hits == IF Phrase(pattern) # <<>> THEN Phrase(pattern) ELSE AllWords(pattern)
  IN Upto([i \in DOMAIN hits |-> hits[i].sid], MaxLines)

ReadWindow(n) ==
  IF Resolve(n) = <<>> THEN <<>>
  ELSE LET t == Resolve(n)[1]
           s == InSession(t[1])
           p == CHOOSE i \in DOMAIN s : s[i] = t
       IN <<t>> \o SubSeq(s, IF p > Window THEN p - Window ELSE 1,
                             IF p + Window < Len(s) THEN p + Window ELSE Len(s))

(* Whatever fails in the search leaves no hit.                                 *)
VectorHits ==
  IF ~cfg.vector THEN {<<>>}
  ELSE {SetToSeq(S) : S \in {T \in SUBSET (Stored \ ToSet(Normalized(given))) : Cardinality(T) <= TopN}}

(* What a command may return: the sids in its text.                            *)
Returned(cmd) ==
  CASE cmd.kind = "GREP" -> {Normalized(Grep(cmd.arg))}
    [] cmd.kind = "READ" -> {Normalized(ReadWindow(cmd.arg[1]))}
    [] OTHER -> {Normalized(hits) : hits \in VectorHits}

-----------------------------------------------------------------------------
(* The protocol.  A reply has the surfaces content, tool calls and reasoning;   *)
(* each holds items [form, kind, arg]: a line of the text protocol, a call in   *)
(* channel markup, a call without JSON, a mention in prose.  Every operator     *)
(* returns a set of at most one command.                                        *)
Command(i) == [kind |-> i.kind, arg |-> i.arg]
OfForm(items, f) == At(items, {i \in DOMAIN items : items[i].form = f /\ items[i].kind # ""})

Issued(i) == IF i.kind = "FINAL" \/ i.arg # <<>> THEN {Command(i)} ELSE {}
LastOf(items, f) == LET s == OfForm(items, f) IN IF s = <<>> THEN {} ELSE Issued(Last(s))

(* An empty FINAL is passed over for a command before it.                      *)
LastLine(items) ==
  LET lines == OfForm(items, "line")
      s == At(lines, {i \in DOMAIN lines : lines[i].arg # <<>>})
  IN IF s = <<>> THEN {} ELSE {Command(Last(s))}

ParseCommand(items) ==
  IF LastLine(items) # {} THEN LastLine(items)
  ELSE IF LastOf(items, "call") # {} THEN LastOf(items, "call") ELSE LastOf(items, "loose")

(* The last command that the reasoning mentions, if it says on what.           *)
Narrated(items) ==
  LET s == OfForm(items, "prose")
  IN IF s = <<>> \/ Last(s).arg = <<>> THEN {} ELSE {Command(Last(s))}

Surfaces(r) ==
  LET all == <<r.content>> \o [i \in DOMAIN r.tools |-> <<r.tools[i]>>] \o <<r.reasoning>>
  IN At(all, {i \in DOMAIN all : all[i] # <<>>})

ParseResponse(r) ==
  LET all == Surfaces(r)
      good == At(all, {i \in DOMAIN all : ParseCommand(all[i]) # {}})
  IN IF good # <<>> THEN [cmd |-> ParseCommand(good[1]), text |-> good[1]]
     ELSE [cmd |-> Narrated(r.reasoning),
           text |-> IF Narrated(r.reasoning) # {} THEN r.reasoning ELSE IF all = <<>> THEN <<>> ELSE all[1]]

Parsed == [r \in Replies |-> ParseResponse(r)]

(* The sids of a FINAL; without an argument, all that the reply names.         *)
ExtractFinal(arg, text) ==
  IF arg # <<>> THEN arg
  ELSE FlattenSeq([i \in DOMAIN text |->
          IF text[i].kind \in {"GREP", "VECTOR"} THEN <<>> ELSE text[i].arg])

-----------------------------------------------------------------------------
Original == [text |-> "original", sids |-> given, graph |-> TRUE]
Remember(h, x) == IF Len(h) < 3 THEN Append(h, x) ELSE Append(Tail(h), x)

RefineInit ==
  /\ cfg \in Configs /\ given \in Contexts
  /\ stage = "mount" /\ calls = 0 /\ failures = 0 /\ repeats = 0 /\ previous = {}
  /\ verified = {} /\ found = {} /\ chosen = <<>> /\ final = <<>>
  /\ ruling = [reply |-> <<>>, keep |-> <<>>]
  /\ fallback = "none" /\ answer = [text |-> "", sids |-> <<>>, graph |-> FALSE]
  /\ recent = <<>> /\ asked = <<>>

GiveBack(reason) ==
  /\ fallback' = reason /\ answer' = Original /\ stage' = "done"

(* The mount: nothing is refined when the filter is off or has no corpus.      *)
Mount ==
  /\ stage = "mount"
  /\ IF ~cfg.on \/ ~cfg.corpus
     THEN GiveBack("skipped")
     ELSE stage' = "prepare" /\ UNCHANGED <<fallback, answer>>
  /\ UNCHANGED <<cfg, given, loop, chosen, final, ruling>>

Prepare ==
  /\ stage = "prepare"
  /\ IF given = <<>> /\ cfg.mode = "filter" THEN GiveBack("no_seed")
     ELSE stage' = "ask" /\ UNCHANGED <<fallback, answer>>
  /\ UNCHANGED <<cfg, given, loop, chosen, final, ruling>>

(* The agent's turns. *)
Asking == stage = "ask" /\ calls < MaxCalls

GoesOn(n, limit) == IF n >= limit THEN stage' = "force" ELSE stage' = stage

Unparsed ==
  /\ Asking
  /\ \E r \in Replies :
       /\ Parsed[r].cmd = {}
       /\ calls' = calls + 1 /\ failures' = failures + 1
       /\ recent' = Remember(recent, "unparsed")
       /\ GoesOn(failures', MaxParseFailures)
  /\ UNCHANGED <<cfg, given, repeats, previous, verified, found, asked, result>>

Finals ==
  /\ Asking
  /\ \E r \in Replies : \E c \in Parsed[r].cmd :
       /\ c.kind = "FINAL"
       /\ calls' = calls + 1 /\ failures' = 0
       /\ recent' = Remember(recent, "final")
       /\ LET names == Normalized(ExtractFinal(c.arg, Parsed[r].text))
          IN IF names # <<>>
             THEN chosen' = names /\ stage' = "select"
             ELSE stage' = "force" /\ UNCHANGED chosen
  /\ UNCHANGED <<cfg, given, repeats, previous, verified, found, asked, final, ruling, fallback, answer>>

Repeats ==
  /\ Asking
  /\ \E r \in Replies : \E c \in Parsed[r].cmd :
       /\ c.kind # "FINAL" /\ previous = {c}
       /\ calls' = calls + 1 /\ failures' = 0 /\ repeats' = repeats + 1
       /\ recent' = Remember(recent, "command") /\ asked' = Remember(asked, c)
       /\ GoesOn(repeats', 2)
  /\ UNCHANGED <<cfg, given, previous, verified, found, result>>

ExecutesKeepingCount ==
  /\ Asking
  /\ \E r \in Replies : \E c \in Parsed[r].cmd :
       /\ c.kind # "FINAL" /\ previous # {c}
       /\ calls' = calls + 1 /\ repeats' = 0 /\ previous' = {c}
       /\ recent' = Remember(recent, "command") /\ asked' = Remember(asked, c)
       /\ \E sids \in Returned(c) :
            /\ verified' = verified \cup ToSet(sids)
            /\ found' = IF c.kind = "VECTOR" THEN found \cup ToSet(sids) ELSE found
  /\ UNCHANGED <<cfg, given, stage, failures, result>>

ExecutesForFree ==
  /\ Asking
  /\ \E r \in Replies : \E c \in Parsed[r].cmd :
       /\ c.kind # "FINAL" /\ previous # {c}
       /\ failures' = 0 /\ repeats' = 0 /\ previous' = {c}
       /\ recent' = Remember(recent, "command") /\ asked' = Remember(asked, c)
       /\ \E sids \in Returned(c) :
            /\ verified' = verified \cup ToSet(sids)
            /\ found' = IF c.kind = "VECTOR" THEN found \cup ToSet(sids) ELSE found
  /\ UNCHANGED <<cfg, given, stage, calls, result>>

Executes ==
  /\ Asking
  /\ \E r \in Replies : \E c \in Parsed[r].cmd :
       /\ c.kind # "FINAL" /\ previous # {c}
       /\ calls' = calls + 1 /\ failures' = 0 /\ repeats' = 0 /\ previous' = {c}
       /\ recent' = Remember(recent, "command") /\ asked' = Remember(asked, c)
       /\ \E sids \in Returned(c) :
            /\ verified' = verified \cup ToSet(sids)
            /\ found' = IF c.kind = "VECTOR" THEN found \cup ToSet(sids) ELSE found
  /\ UNCHANGED <<cfg, given, stage, result>>

OutOfCalls ==
  /\ stage = "ask" /\ calls = MaxCalls
  /\ stage' = "force"
  /\ UNCHANGED <<cfg, given, loop, result>>

(* One more prompt for a FINAL; whatever sids the reply names will do.         *)
ForceFinal ==
  /\ stage = "force"
  /\ \E r \in Replies :
       LET p == Parsed[r]
           arg == IF \E c \in p.cmd : c.kind = "FINAL" THEN (CHOOSE c \in p.cmd : TRUE).arg ELSE <<>>
           names == Normalized(ExtractFinal(arg, p.text))
       IN IF names # <<>> THEN chosen' = names /\ stage' = "select" /\ UNCHANGED <<fallback, answer>>
          ELSE GiveBack("no_final") /\ UNCHANGED chosen
  /\ UNCHANGED <<cfg, given, loop, final, ruling>>

-----------------------------------------------------------------------------
(* What of the choice the mode allows, and the cap.                            *)
SeedsOf == [g \in Contexts |-> Normalized(g)]
Seeds == SeedsOf[given]
Allowed ==
  CASE cfg.mode = "filter" -> Among(chosen, Seeds)
    [] cfg.mode = "fetch_only" -> Seeds \o Without(chosen, Seeds)
    [] OTHER -> chosen

Select ==
  /\ stage = "select"
  /\ final' = Upto(Allowed, MaxSids)
  /\ IF final' = <<>>
     THEN GiveBack("empty_final")
     ELSE stage' = "audit" /\ UNCHANGED <<fallback, answer>>
  /\ UNCHANGED <<cfg, given, loop, chosen, ruling>>

(* The auditor rules on the seeds that were not chosen.  A line is about the   *)
(* first of them whose text occurs in it and that no line before it was about. *)
Pending == Without(Seeds, final)
Audited == cfg.audit /\ cfg.applies /\ Len(final) < MaxSids /\ Pending # <<>>

RuledKeep(lines, pending) ==
  LET about[k \in DOMAIN lines] ==
        LET open == {i \in DOMAIN pending : /\ \A j \in 1..(k - 1) : about[j] # i
                                            /\ lines[k].sid \in {pending[i]} \cup Within[pending[i]]}
        IN IF open = {} THEN 0 ELSE CHOOSE i \in open : \A j \in open : i <= j
      kept == At(about, {k \in DOMAIN lines : lines[k].keep /\ about[k] \in DOMAIN pending})
  IN [k \in DOMAIN kept |-> pending[kept[k]]]

AuditFirst ==
  /\ stage = "audit" /\ Audited
  /\ \E lines \in Audits :
       /\ ruling' = [reply |-> lines, keep |-> RuledKeep(lines, Pending)]
       /\ final' = Upto(ruling'.keep \o final, MaxSids)
  /\ stage' = "render"
  /\ UNCHANGED <<cfg, given, loop, chosen, fallback, answer>>

Audit ==
  /\ stage = "audit" /\ Audited
  /\ \E lines \in Audits :
       /\ ruling' = [reply |-> lines, keep |-> RuledKeep(lines, Pending)]
       /\ final' = Upto(final \o ruling'.keep, MaxSids)
  /\ stage' = "render"
  /\ UNCHANGED <<cfg, given, loop, chosen, fallback, answer>>

(* No audit, or one that raised.                                               *)
AuditSkipped ==
  /\ stage = "audit"
  /\ stage' = "render"
  /\ UNCHANGED <<cfg, given, loop, result>>

(* The rebuilt block shows the units of the chosen sids, or the chosen sids.   *)
Shown ==
  LET key(s) == IF cfg.pairs THEN <<s[1], s[2], 0>> ELSE s
      keys == Distinct([i \in DOMAIN final |-> key(final[i])])
  IN FlattenSeq([i \in DOMAIN keys |-> Resolve(keys[i])])

Kept == Among(final, Seeds)
Added == Without(final, Seeds)
Refined ==
  IF cfg.mode = "fetch_only"
  THEN [text |-> "appended", sids |-> Seeds \o Added, graph |-> TRUE]
  ELSE [text |-> "rebuilt", sids |-> Shown, graph |-> cfg.graph]

Render ==
  /\ stage = "render"
  /\ IF Kept = <<>> THEN GiveBack("zero_keep")
     ELSE IF cfg.mode = "fetch_only" /\ Added = <<>> THEN GiveBack("no_addition")
     ELSE fallback' = "none" /\ answer' = Refined /\ stage' = "done"
  /\ UNCHANGED <<cfg, given, loop, chosen, final, ruling>>

(* Parameters that do not parse, a corpus that does not load, a model that     *)
(* does not answer: every exception ends in the original context.              *)
Raises ==
  /\ stage \in {"prepare", "ask", "force", "select", "render"}
  /\ GiveBack("exception")
  /\ UNCHANGED <<cfg, given, loop, chosen, final, ruling>>

RefineNext ==
  \/ Raises \/ Mount \/ Prepare \/ Unparsed \/ Finals \/ Repeats \/ Executes \/ OutOfCalls
  \/ ForceFinal \/ Select \/ AuditSkipped \/ Audit \/ Render

RefineSpec == RefineInit /\ [][RefineNext]_refineVars

(* Every call of a model returns or raises: the client has a timeout.          *)
RefineFairSpec == RefineSpec /\ WF_refineVars(RefineNext)

-----------------------------------------------------------------------------
RefineTypeOK ==
  /\ stage \in {"mount", "prepare", "ask", "force", "select", "audit", "render", "done"}
  /\ calls \in 0..MaxCalls /\ failures \in 0..MaxParseFailures /\ repeats \in 0..2
  /\ verified \cup found \cup ToSet(chosen) \cup ToSet(final) \cup ToSet(ruling.keep) \subseteq ToSet(Sids)
  /\ found \subseteq verified
  /\ answer.text \in {"", "original", "rebuilt", "appended"}

(* The context is never made worse (harness.py, finalization.py): a fallback   *)
(* hands back the original and nothing else does; a rebuilt context still has  *)
(* a retrieved turn; filter mode shows no exchange that was not retrieved;     *)
(* fetch_only loses nothing and adds something.                                *)
Exchanges(s) == {<<s[i][1], s[i][2]>> : i \in DOMAIN s}
NeverWorse ==
  /\ RefineTypeOK
  /\ stage = "done" =>
       /\ (fallback # "none") = (answer.text = "original")
       /\ answer.text # "original" =>
            /\ ToSet(answer.sids) \cap ToSet(Seeds) # {}
            /\ ToSet(answer.sids) \subseteq ToSet(Sids)
            /\ cfg.mode = "filter" => Exchanges(answer.sids) \subseteq Exchanges(Seeds)
            /\ cfg.mode = "fetch_only" => IsStrictPrefix(Seeds, answer.sids)

(* What comes after the cap adds only (finalization.py): the turns the agent   *)
(* chose and the cap let through are the first of the result, those the        *)
(* auditor kept follow, and both are in the rebuilt context.                   *)
ChoiceSurvives ==
  stage \in {"render", "done"} /\ final # <<>> =>
    /\ IsPrefix(Upto(Allowed, MaxSids), final)
    /\ Len(final) <= MaxSids
    /\ ToSet(final) \subseteq ToSet(Allowed) \cup (ToSet(ruling.keep) \cap ToSet(Seeds))
    /\ answer.text = "rebuilt" => ToSet(final) \subseteq ToSet(answer.sids)

(* What is handed back, whatever the agent and the auditor said.               *)
ContextIsSound == NeverWorse /\ ChoiceSurvives

(* The agent is given up before its calls are used up only after three         *)
(* replies in a row without a command, or three times the same command in a    *)
(* row, or a FINAL of which nothing resolves (session.py); and then it is.     *)
ThreeSame(h, x) == Len(h) = 3 /\ \A i \in 1..3 : h[i] = x
PatienceIsConsecutive ==
  LET lost == ThreeSame(recent, "unparsed") \/ (asked # <<>> /\ ThreeSame(asked, asked[1]))
  IN /\ stage = "ask" => ~lost
     /\ stage = "force" /\ calls < MaxCalls => lost \/ Last(recent) = "final"

(* Every refinement ends with a context, whatever the agent replies.           *)
RefinementEnds == <>(stage = "done")
=============================================================================

------------------------------- MODULE Guards -------------------------------
(***************************************************************************)
(* The agent's two guards: the sandbox, which refuses commands by an       *)
(* ordered list of rules (internal/agent/sandbox.go), and the risk         *)
(* assessor, which grades them (risk.go).  A command is modelled by what   *)
(* the guards see of it: the patterns it matches, and how many keywords of *)
(* each risk rule it contains.                                             *)
(***************************************************************************)
EXTENDS Integers, Sequences, FiniteSetsExt, SequencesExt

CONSTANTS
  OwnPatterns,                  \* patterns of rules that users add
  OwnRules,                     \* their IDs
  MaxAdded                      \* bound: rules added

VARIABLES
  rules,                        \* s.rules
  added,                        \* rules added so far
  removedDefaults,                      \* history: IDs of the default rules removed
  assessed                      \* the last assessment, and the keywords it saw

sandboxVars == <<rules, added, removedDefaults>>
guardVars == <<sandboxVars, assessed>>

Default(id, action) == [id |-> id, pattern |-> id, action |-> action, tool |-> "ssh_exec"]

\* NewSandbox
Defaults == <<Default("block_rm", "block"), Default("block_shutdown", "block"),
              Default("warn_dangerous", "warn")>>

DefaultIDs == {Defaults[i].id : i \in DOMAIN Defaults}
Patterns == DefaultIDs \cup OwnPatterns
Tools == {"ssh_exec", "sftp_write"}

-----------------------------------------------------------------------------
\* A bug: the new rule is looked at first.
AddRuleFirst(rule) ==
  /\ added < MaxAdded
  /\ \A i \in DOMAIN rules : rules[i].id # rule.id
  /\ rules' = <<rule>> \o rules
  /\ added' = added + 1
  /\ UNCHANGED removedDefaults

AddRule(rule) ==
  /\ added < MaxAdded
  /\ \A i \in DOMAIN rules : rules[i].id # rule.id
  /\ rules' = Append(rules, rule)
  /\ added' = added + 1
  /\ UNCHANGED removedDefaults

\* The first rule with the ID is cut out; those behind it move up.
RemoveRule(id) ==
  /\ \E i \in DOMAIN rules :
       /\ rules[i].id = id /\ \A j \in 1 .. i - 1 : rules[j].id # id
       /\ rules' = RemoveAt(rules, i)
  /\ removedDefaults' = removedDefaults \cup ({id} \cap DefaultIDs)
  /\ UNCHANGED added

\* The rules that end the loop; one that allows does not.
Deciding(tool, command) ==
  {i \in DOMAIN rules : /\ rules[i].tool = tool
                        /\ rules[i].pattern \in command
                        /\ rules[i].action \in {"block", "warn"}}

Evaluate(tool, command) ==
  LET d == Deciding(tool, command) IN d = {} \/ rules[Min(d)].action = "warn"

-----------------------------------------------------------------------------
\* NewRiskAssessor
RiskRules ==
  <<[id |-> "rm_root", tool |-> "ssh_exec", level |-> 3, keywords |-> 2],
    [id |-> "systemctl", tool |-> "ssh_exec", level |-> 2, keywords |-> 2],
    [id |-> "iptables", tool |-> "ssh_exec", level |-> 2, keywords |-> 2],
    [id |-> "kill", tool |-> "ssh_exec", level |-> 1, keywords |-> 2],
    [id |-> "write_config", tool |-> "sftp_write", level |-> 1, keywords |-> 4]>>

\* n keywords of a rule found: critical, high and medium are 3, 2 and 1.
KeywordsFound(a, level, n) ==
  [score |-> a.score + n * (CASE level = 3 -> 100 [] level = 2 -> 75 [] level = 1 -> 50),
   level |-> CASE level = 3 -> 3
               [] level = 2 -> IF a.level # 3 THEN 2 ELSE 3
               [] level = 1 -> IF a.level = 0 THEN 1 ELSE a.level,
   confirm |-> TRUE]

Unsuspected == [score |-> 0, level |-> 0, confirm |-> FALSE]

\* The rules are gone through in their order.
AfterRule(i, a, tool, hits) ==
  IF RiskRules[i].tool = tool /\ hits[i] > 0
  THEN KeywordsFound(a, RiskRules[i].level, hits[i]) ELSE a

Assessment(tool, hits) ==
  LET After(i, a) == AfterRule(i, a, tool, hits)
  IN  After(5, After(4, After(3, After(2, After(1, Unsuspected)))))

GetRiskLevel(score) ==
  CASE score >= 100 -> 3 [] score \in 75 .. 99 -> 2 [] score \in 50 .. 74 -> 1 [] OTHER -> 0

Assess(tool, hits) ==
  /\ assessed' = [hits |-> hits, tool |-> tool, a |-> Assessment(tool, hits)]

\* How many keywords of each rule a command of the tool contains.
Hits(tool) ==
  {h \in [DOMAIN RiskRules -> 0 .. 4] :
     \A i \in DOMAIN RiskRules :
       h[i] <= IF RiskRules[i].tool = tool THEN RiskRules[i].keywords ELSE 0}

GuardInit ==
  /\ rules = Defaults
  /\ added = 0 /\ removedDefaults = {}
  /\ assessed = [hits |-> [i \in DOMAIN RiskRules |-> 0], tool |-> "ssh_exec",
                 a |-> Unsuspected]

\* The two share no state.
SandboxNext ==
  \/ \E id \in DefaultIDs \cup OwnRules, pattern \in Patterns, tool \in Tools,
        action \in {"block", "warn", "allow"} :
       AddRule([id |-> id, pattern |-> pattern, action |-> action, tool |-> tool])
  \/ \E id \in DefaultIDs \cup OwnRules : RemoveRule(id)

RiskNext == \E tool \in Tools : \E hits \in Hits(tool) : Assess(tool, hits)

-----------------------------------------------------------------------------
(***************************************************************************)
(* The rules that block by default cannot be overruled: what rules are     *)
(* added, and whatever others are removed, a command that matches one of   *)
(* them is refused unless that rule itself has been removed (the list's    *)
(* order decides, sandbox.go:87).  The level of an assessment is the       *)
(* highest of the rules that matched, in whatever order they did, asks for *)
(* a confirmation unless it is low, and is never above the level that      *)
(* GetRiskLevel gives the score (which may be above: two keywords of       *)
(* medium risk score 100, the score of a critical one, risk.go:86).        *)
(***************************************************************************)
GuardsHold ==
  /\ \A id \in {"block_rm", "block_shutdown"} \ removedDefaults, command \in SUBSET Patterns :
       id \in command => ~Evaluate("ssh_exec", command)
  /\ LET levels == {RiskRules[i].level : i \in {j \in DOMAIN RiskRules :
                      assessed.hits[j] > 0 /\ RiskRules[j].tool = assessed.tool}}
     IN  /\ assessed.a.level = Max(levels \cup {0})
         /\ assessed.a.confirm = (assessed.a.level > 0)
         /\ assessed.a.level <= GetRiskLevel(assessed.a.score)

GuardTypeOK ==
  /\ added \in 0 .. MaxAdded /\ Len(rules) <= Len(Defaults) + added
  /\ removedDefaults \subseteq DefaultIDs
=============================================================================

-------------------------- MODULE CommandRegistry --------------------------
(***************************************************************************)
(* The command registry (internal/command/registry.go): commands by name   *)
(* and a second map from aliases to names.  Names and aliases are strings  *)
(* of one space and nothing keeps them apart: a command may claim another  *)
(* command's name, or another's alias, as an alias of its own, and Get     *)
(* looks at the aliases first.  Every operation holds the lock to its end, *)
(* so each is one step.                                                    *)
(***************************************************************************)
EXTENDS Functions

CONSTANT Names                  \* what commands and aliases may be called

VARIABLES
  commands,                     \* name of a registered command -> its Aliases
  aliases                       \* alias -> name of a command

regVars == <<commands, aliases>>

RegTypeOK ==
  /\ DOMAIN commands \subseteq Names
  /\ \A n \in DOMAIN commands : commands[n] \subseteq Names
  /\ DOMAIN aliases \subseteq Names
  /\ \A a \in DOMAIN aliases : aliases[a] \in Names

RegInit ==
  /\ commands = [n \in {} |-> {}]
  /\ aliases = [a \in {} |-> a]

\* The entry Get finds for a string: the aliases come first.
Resolve(n) == IF n \in DOMAIN aliases THEN aliases[n] ELSE n

Registered(n) == n \in DOMAIN commands

Register(n, as) ==
  /\ ~ Registered(n)
  /\ commands' = [c \in DOMAIN commands \cup {n} |->
                    IF c = n THEN as ELSE commands[c]]
  /\ aliases' = [a \in DOMAIN aliases \cup as |->
                    IF a \in as THEN n ELSE aliases[a]]

\* A bug: the aliases of a command stay behind.
UnregisterKeepsAliases(n) == 
  /\ Registered(n)
  /\ commands' = Restrict(commands, DOMAIN commands \ {n})
  /\ UNCHANGED aliases

\* The aliases the command was registered with go, whosever they are by now.
Unregister(n) ==
  /\ Registered(n)
  /\ commands' = Restrict(commands, DOMAIN commands \ {n})
  /\ aliases' = Restrict(aliases, DOMAIN aliases \ commands[n])

RegNext ==
  \E n \in Names :
    \/ \E as \in SUBSET Names : Register(n, as)
    \/ Unregister(n)

-----------------------------------------------------------------------------
\* An alias belongs to a command that is registered and that asked for it.
AliasesOwned ==
  \A a \in DOMAIN aliases :
    /\ Registered(aliases[a])
    /\ a \in commands[aliases[a]]

(***************************************************************************)
(* Every name of a registered command leads Get (registry.go:100-114) to a *)
(* registered command, and to another one only while that one is           *)
(* registered with the name among its aliases: however commands come and   *)
(* go and take each other's names, no alias outlives its command and hides *)
(* a name (the two maps of registry.go:90-94).                             *)
(***************************************************************************)
NamesResolve ==
  \A n \in DOMAIN commands :
    /\ Registered(Resolve(n))
    /\ Resolve(n) # n => n \in commands[Resolve(n)]
=============================================================================

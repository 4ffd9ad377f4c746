--------------------------- MODULE SecurityGroups ---------------------------
(***************************************************************************)
(* Security groups of baremetal ports and the ACLs of the switches: the    *)
(* callbacks of generic_switch_sg.py and the commands of the drivers that  *)
(* have them (NX-OS and OS10 by name, SONiC with tables of ports).         *)
(*                                                                         *)
(* A callback runs after the database commit, in one of several workers,   *)
(* and reads the database again on its way.  Neutron logs its exception    *)
(* and goes on.  Commands for a switch are sent in one session; a callback *)
(* that fails has sent some of them.                                       *)
(***************************************************************************)
EXTENDS Naturals, Sequences, FiniteSets, SequencesExt

CONSTANTS
  Workers,
  Groups, NoGroup,
  Rules,             \* what the rules of a group may be
  NoRules, Gone,     \* there is no such group, ACL or file; no longer
  Empty, Mixed,      \* an ACL without rules; one with old and new rules
  Ports,             \* ports of switches, each with its Neutron port
  Switches,
  SwitchOf,          \* local_link_information
  Scenarios          \* see AllScenarios

AllScenarios ==
  [driver : [Switches -> {"named", "table"}],
   switches : Seq(Switches),   \* self.switches, in their order
   groups : SUBSET Groups, ports : SUBSET Ports, rules : SUBSET Rules,
   faults : BOOLEAN]   \* callbacks fail

Absent == {NoRules, Gone}

ASSUME ValuesAssumption ==
  /\ NoGroup \notin Groups /\ NoRules # Gone
  /\ Absent \cap Rules = {} /\ {Empty, Mixed} \cap (Rules \cup Absent) = {}
ASSUME PortsAssumption ==
  Ports # {} /\ IsFiniteSet(Ports) /\ SwitchOf \in [Ports -> Switches]
ASSUME ScenariosAssumption ==
  Scenarios \subseteq AllScenarios /\ \A s \in Scenarios : s.switches # << >>

VARIABLES
  scenario,
  rules,     \* database: rules of a group
  member,    \* database: group of a bound port, else NoGroup
  bound,     \* database: ports that are bound
  worker,    \* what the callback of a worker has to do, and has read
  device,    \* ACLs, files and filtered ports of a switch
  oldRules,  \* (switch, group): ACL from an old reading, or half made
  oldPorts,  \* (switch, group): filtered ports, likewise
  left       \* (port, group): still filtered because of that

vars == <<scenario, rules, member, bound, worker, device,
          oldRules, oldPorts, left>>
ghosts == <<oldRules, oldPorts, left>>

Steps ==
  [do : {"readRules", "readPorts", "add", "update", "del", "bind", "unbind"},
   switch : Switches, group : Groups, port : Ports]

TypeOK ==
  /\ scenario \in Scenarios
  /\ rules \in [Groups -> Rules \cup Absent]
  /\ member \in [Ports -> Groups \cup {NoGroup}]
  /\ bound \subseteq Ports
  /\ worker \in [Workers ->
       [todo : Seq(Steps), rules : Rules \cup {NoRules},
        ports : [Groups -> SUBSET Ports],
        missed : SUBSET ({"rules", "ports"} \X Groups)]]
  /\ device \in [Switches ->
       [acl : [Groups -> Rules \cup {NoRules, Empty, Mixed}],
        file : [Groups -> Rules \cup {NoRules}],
        applied : [Groups -> SUBSET Ports]]]
  /\ oldRules \cup oldPorts \subseteq Switches \X Groups
  /\ left \subseteq Ports \X Groups

Idle == [todo |-> << >>, rules |-> NoRules, ports |-> [g \in Groups |-> {}],
         missed |-> {}]

Init ==
  /\ scenario \in Scenarios
  /\ rules = [g \in Groups |-> NoRules]
  /\ member = [p \in Ports |-> NoGroup]
  /\ bound = {}
  /\ worker = [w \in Workers |-> Idle]
  /\ device = [s \in Switches |-> [acl |-> [g \in Groups |-> NoRules],
                                   file |-> [g \in Groups |-> NoRules],
                                   applied |-> [g \in Groups |-> {}]]]
  /\ oldRules = {} /\ oldPorts = {} /\ left = {}

-----------------------------------------------------------------------------
(* The database changes and a callback starts *)

Step(do, s, g, p) == [do |-> do, switch |-> s, group |-> g, port |-> p]

\* The same on every switch.
OnSwitches(do, g) ==
  [i \in DOMAIN scenario.switches |->
     Step(do, scenario.switches[i], g, CHOOSE p \in Ports : TRUE)]

GroupSteps(do, g) ==
  <<[OnSwitches(do, g)[1] EXCEPT !.do = "readRules"]>> \o OnSwitches(do, g)

UnbindSteps(p, g) ==
  IF g = NoGroup THEN << >> ELSE <<Step("unbind", SwitchOf[p], g, p)>>

BindSteps(p, g) ==
  IF g = NoGroup THEN << >>
  ELSE <<Step("readRules", SwitchOf[p], g, p), Step("bind", SwitchOf[p], g, p)>>

\* update_port_security_group: nothing when the groups are the same; those
\* that are gone are unbound, then those that are new are bound.
PortSteps(p, prev, new) ==
  LET edits == UnbindSteps(p, prev) \o BindSteps(p, new)
  IN  IF prev = new THEN << >>
      ELSE <<[Head(edits) EXCEPT !.do = "readPorts"]>> \o edits

\* What others have read of these is old now.
Missed(w, changes) ==
  IF worker[w] = Idle THEN Idle
  ELSE [worker[w] EXCEPT !.missed = @ \cup changes]

Starts(w, steps, changes) ==
  /\ worker[w] = Idle
  /\ worker' = [v \in Workers |->
       IF v = w THEN [Idle EXCEPT !.todo = steps] ELSE Missed(v, changes)]

CreateGroup(w, g) ==
  /\ g \in scenario.groups
  /\ rules[g] = NoRules
  /\ \E r \in scenario.rules : rules' = [rules EXCEPT ![g] = r]
  /\ Starts(w, GroupSteps("add", g), {<<"rules", g>>})
  /\ UNCHANGED <<scenario, member, bound, device, ghosts>>

\* A rule is created or deleted.
ChangeRules(w, g) ==
  /\ rules[g] \in Rules
  /\ \E r \in scenario.rules \ {rules[g]} : rules' = [rules EXCEPT ![g] = r]
  /\ Starts(w, GroupSteps("update", g), {<<"rules", g>>})
  /\ UNCHANGED <<scenario, member, bound, device, ghosts>>

\* Neutron deletes no group that a port has.
DeleteGroup(w, g) ==
  /\ rules[g] \in Rules
  /\ \A p \in Ports : member[p] # g
  /\ rules' = [rules EXCEPT ![g] = Gone]
  /\ Starts(w, OnSwitches("del", g), {<<"rules", g>>})
  /\ UNCHANGED <<scenario, member, bound, device, ghosts>>

SetGroup(w, p, g) ==
  /\ g # NoGroup => rules[g] \in Rules
  /\ member' = [member EXCEPT ![p] = g]
  /\ Starts(w, PortSteps(p, member[p], g), {"ports"} \X ({member[p], g} \cap Groups))
  /\ UNCHANGED <<scenario, rules, device, ghosts>>

\* The groups of a port that was not bound count as none.
BindPort(w, p, g) ==
  /\ p \in scenario.ports \ bound
  /\ bound' = bound \cup {p}
  /\ SetGroup(w, p, g)

ChangeGroup(w, p, g) ==
  /\ p \in bound /\ g # member[p]
  /\ SetGroup(w, p, g)
  /\ UNCHANGED bound

\* remove_port_security_group
DeletePort(w, p) ==
  /\ p \in bound
  /\ bound' = bound \ {p}
  /\ SetGroup(w, p, NoGroup)

\* The port is unbound, and update_port_security_group returns at once.
UnbindPort(p) ==
  /\ p \in bound
  /\ bound' = bound \ {p}
  /\ member' = [member EXCEPT ![p] = NoGroup]
  /\ worker' = [w \in Workers |-> 
                  Missed(w, {"ports"} \X ({member[p]} \cap Groups))]
  /\ left' = left \cup ({p} \X ({member[p]} \cap Groups))
  /\ UNCHANGED <<scenario, rules, device, oldRules, oldPorts>>

-----------------------------------------------------------------------------
(* Commands *)

Op(op, g, x) == [op |-> op, group |-> g, with |-> x]

\* The state of a switch after a command.
Does(d, c) ==
  LET g == c.group
      has == d.acl[g] # NoRules
  IN CASE c.op = "create" ->
            IF has THEN d ELSE [d EXCEPT !.acl[g] = Empty]
       [] c.op = "rules" ->
            [d EXCEPT !.acl[g] = IF @ \in {Empty, c.with} THEN c.with ELSE Mixed]
       [] c.op = "remove" -> [d EXCEPT !.acl[g] = NoRules]
       [] c.op = "apply" ->
            [d EXCEPT !.applied = [h \in Groups |->
               IF h = g THEN @[h] \cup {c.with} ELSE @[h] \ {c.with}]]
       [] c.op = "clear" -> [d EXCEPT !.applied[g] = @ \ {c.with}]
       [] c.op = "dropTable" ->
            [d EXCEPT !.acl[g] = NoRules, !.applied[g] = {}]
       [] c.op = "table" ->
            [d EXCEPT !.acl[g] = Empty, !.applied[g] = c.with]
       [] c.op = "write" -> [d EXCEPT !.file[g] = c.with]
       [] c.op = "load" ->
            IF has /\ d.file[g] # NoRules
            THEN [d EXCEPT !.acl[g] = d.file[g]] ELSE d
       [] c.op = "rm" -> [d EXCEPT !.file[g] = NoRules]

\* The same after a session that sends the commands.
After(d, commands) == FoldLeft(Does, d, commands)

\* _security_group_commands
GroupCommands(g, r) == <<Op("create", g, r), Op("rules", g, r)>>

\* Mutant: without delete_first.
RecreateOver(g, r) == GroupCommands(g, r)

\* _security_group_commands with delete_first
RecreateCommands(g, r) == <<Op("remove", g, r)>> \o GroupCommands(g, r)

ApplyEach(g, ports) ==
  LET q == SetToSeq(ports) IN [i \in DOMAIN q |-> Op("apply", g, q[i])]

\* Mutant: the port itself is forgotten.
AssertOthers(g, p, ports) == ApplyEach(g, ports)

\* unbind_security_group: one port, and the bindings of the others asserted.
NamedUnbind(g, p, ports) == <<Op("clear", g, p)>> \o ApplyEach(g, ports)

\* NX-OS and OS10, by NetmikoSwitch
NamedCommands(e, r, ports) ==
  LET g == e.group
  IN CASE e.do = "add" -> GroupCommands(g, r)
       [] e.do = "update" -> RecreateCommands(g, r)
       [] e.do = "del" -> <<Op("remove", g, r)>>
       [] e.do = "bind" -> RecreateCommands(g, r) \o ApplyEach(g, ports)
       [] e.do = "unbind" -> NamedUnbind(g, e.port, ports)

\* WRITE_ACL + LOAD_ACL
Rewrite(g, r) == <<Op("write", g, r), Op("load", g, r)>>

\* ADD_ACL_TABLE, for all ports of the group
AddAclTable(g, ports) == <<Op("dropTable", g, {}), Op("table", g, ports)>>

\* Mutant: the table is made for the port that is bound.
TableBindOne(e, r, ports) ==
  AddAclTable(e.group, {e.port}) \o Rewrite(e.group, r)

\* BIND_SECURITY_GROUP of Sonic
TableBind(e, r, ports) == AddAclTable(e.group, ports) \o Rewrite(e.group, r)

\* Sonic: the rules are kept in a file, and loaded when there is a table.
TableCommands(e, r, ports) ==
  LET g == e.group
      remove == <<Op("dropTable", g, {}), Op("rm", g, r)>>
  IN CASE e.do \in {"add", "update"} -> Rewrite(g, r)
       [] e.do = "del" -> remove
       [] e.do = "bind" -> TableBind(e, r, ports)
       [] e.do = "unbind" ->
            IF ports = {} THEN remove
            ELSE AddAclTable(g, ports) \o <<Op("load", g, r)>>

Commands(w, e) ==
  LET r == worker[w].rules
      ports == worker[w].ports[e.group]
  IN  IF scenario.driver[e.switch] = "named"
      THEN NamedCommands(e, r, ports) ELSE TableCommands(e, r, ports)

-----------------------------------------------------------------------------
(* A worker goes on with its callback *)

At(w, dos) == worker[w].todo # << >> /\ Head(worker[w].todo).do \in dos

\* The callback goes on with its next step; nothing is kept of it at the end.
Continues(w, call) ==
  worker' = [worker EXCEPT ![w] =
    IF Len(call.todo) = 1 THEN Idle ELSE [call EXCEPT !.todo = Tail(@)]]

\* SecurityGroup.get_object
ReadRules(w) ==
  LET g == Head(worker[w].todo).group
  IN  /\ At(w, {"readRules"})
      /\ rules[g] \in Rules
      /\ Continues(w, [worker[w] EXCEPT !.rules = rules[g],
                                        !.missed = @ \ {<<"rules", g>>}])
      /\ UNCHANGED <<scenario, rules, member, bound, device, ghosts>>

\* _all_security_group_ports, of the switch of the port
ReadPorts(w) ==
  LET s == Head(worker[w].todo).switch
  IN  /\ At(w, {"readPorts"})
      /\ Continues(w, [worker[w] EXCEPT
           !.ports = [g \in Groups |->
                        {p \in Ports : member[p] = g /\ SwitchOf[p] = s}],
           !.missed = @ \ ({"ports"} \X Groups)])
      /\ UNCHANGED <<scenario, rules, member, bound, device, ghosts>>

Edits == {"add", "update", "del", "bind", "unbind"}
PortEdits == {"bind", "unbind"}

\* An old reading may also take ports from the group they have now.
Disturbs(w, e) ==
  {e.switch} \X ({e.group} \cup
                  (Groups \cap {member[p] : p \in worker[w].ports[e.group]}))

With(S, X, in) == IF in THEN S \cup X ELSE S \ X

\* What the edit leaves filtered: an old reading may add ports; a table has no
\* others, and by name a port has one group only.
LeftBy(w, e) ==
  LET g == e.group
      read == worker[w].ports[g]
  IN  IF e.do \notin PortEdits THEN left
      ELSE IF <<"ports", g>> \in worker[w].missed THEN left \cup (read \X {g})
      ELSE IF scenario.driver[e.switch] = "table"
           THEN left \ ({p \in Ports : SwitchOf[p] = e.switch} \X {g})
      ELSE left \ (IF e.do = "unbind" THEN {<<e.port, g>>}
                   ELSE read \X (Groups \ {g}))

EditDone(w) ==
  LET e == Head(worker[w].todo)
      at == {<<e.switch, e.group>>}
      missed == worker[w].missed
  IN  /\ At(w, Edits)
      /\ device' = [device EXCEPT ![e.switch] =
                      After(@, Commands(w, e))]
      /\ oldRules' = IF e.do = "unbind"
                     THEN oldRules \cup {x \in at : scenario.driver[e.switch] = "table"
                                            /\ <<"ports", e.group>> \in missed}
                     ELSE With(oldRules, at, \/ <<"rules", e.group>> \in missed
                                             \/ e.do = "add" /\ at \subseteq oldRules)
      /\ oldPorts' = IF e.do \notin PortEdits THEN oldPorts
                     ELSE IF <<"ports", e.group>> \in missed
                     THEN oldPorts \cup Disturbs(w, e)
                     ELSE oldPorts \ at
      /\ left' = LeftBy(w, e)
      /\ Continues(w, worker[w])
      /\ UNCHANGED <<scenario, rules, member, bound>>

\* The exception ends the callback: at this switch some commands were sent,
\* at the later ones none.
Raises(w) ==
  LET steps == ToSet(worker[w].todo)
      at == {<<e.switch, e.group>> : e \in steps}
  IN  /\ worker' = [worker EXCEPT ![w] = Idle]
      /\ oldRules' = oldRules \cup at
      /\ oldPorts' = oldPorts \cup UNION {Disturbs(w, e) : e \in steps}
      /\ left' = left \cup UNION {({e.port} \cup worker[w].ports[e.group])
                                    \X {e.group} : e \in steps}
      /\ UNCHANGED <<scenario, rules, member, bound>>

EditFails(w) ==
  /\ At(w, Edits)
  /\ scenario.faults
  /\ LET e == Head(worker[w].todo)
         commands == Commands(w, e)
     IN  \E n \in 0 .. Len(commands) :
           device' = [device EXCEPT ![e.switch] =
                        After(@, SubSeq(commands, 1, n))]
  /\ Raises(w)

\* The group was deleted before its rules were read: there is no object.
GroupIsGone(w) ==
  /\ At(w, {"readRules"})
  /\ rules[Head(worker[w].todo).group] = Gone
  /\ UNCHANGED device
  /\ Raises(w)

Next ==
  \/ \E w \in Workers :
       \/ \E g \in Groups : CreateGroup(w, g) \/ ChangeRules(w, g)
                            \/ DeleteGroup(w, g)
       \/ \E p \in Ports :
            \/ \E g \in Groups \cup {NoGroup} :
                 BindPort(w, p, g) \/ ChangeGroup(w, p, g)
            \/ DeletePort(w, p)
       \/ ReadRules(w) \/ ReadPorts(w)
       \/ EditDone(w) \/ EditFails(w) \/ GroupIsGone(w)
  \/ \E p \in Ports : UnbindPort(p)

Spec == Init /\ [][Next]_vars

-----------------------------------------------------------------------------
(* Properties *)

ToDo(dos, s, g) ==
  \E w \in Workers :
    \E i \in DOMAIN worker[w].todo :
      LET step == worker[w].todo[i]
      IN  step.do \in dos /\ step.switch = s /\ step.group = g

\* The ACL of a group on a switch has the rules of the database, and there is
\* none without the group (SONiC: none without a port): only a callback that
\* failed, or sent an old reading of the group, leaves another one, and the
\* next callback of the group repairs it (generic_switch_sg.py:89, :102).
RulesCurrent ==
  \A s \in ToSet(scenario.switches), g \in Groups :
    \/ device[s].acl[g] = rules[g]
    \/ device[s].acl[g] = NoRules
       /\ (rules[g] = Gone \/ scenario.driver[s] = "table")
    \/ <<s, g>> \in oldRules
    \/ ToDo({"add", "update", "del", "bind"}, s, g)

\* A bound port is filtered by its group, however the other ports of the
\* group come and go: each callback asserts all of them, and only one that
\* failed or had read the ports earlier differs (generic_switch_sg.py:219).
MembersFiltered ==
  \A p \in Ports :
    LET s == SwitchOf[p]
        g == member[p]
    IN  g # NoGroup =>
          \/ p \in device[s].applied[g]
          \/ <<s, g>> \in oldPorts
          \/ ToDo({"bind"}, s, g)

\* No group filters a port that does not have it, but for ports that were
\* unbound with the group and those of a callback that failed or had read the
\* ports earlier (generic_switch_sg.py:236).
OnlyMembersFiltered ==
  \A p \in Ports, g \in Groups :
    p \in device[SwitchOf[p]].applied[g] =>
      \/ member[p] = g
      \/ <<p, g>> \in left
      \/ ToDo({"unbind"}, SwitchOf[p], g)
=============================================================================

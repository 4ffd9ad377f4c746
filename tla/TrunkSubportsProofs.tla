------------------------ MODULE TrunkSubportsProofs ------------------------
(***************************************************************************)
(* Proof that, for any number of subports, links and overlapping calls,    *)
(* the port of a trunk ends with the VLANs of the database, as far as its  *)
(* trunk_details have them, unless its last edit was made from an old      *)
(* reading of the parent port, or failed.                                  *)
(***************************************************************************)
EXTENDS TrunkSubports, TLAPS

\* What a call that has read the parent port knows is true, until the
\* database changes: the subports, and that the port is bound, but for the
\* unplug, which is called for a port that is not.
Fresh(c) ==
  running[c].state = "read" /\ ~running[c].old =>
    /\ running[c].read = parent.subs
    /\ parent.bound <=> c[2] # "unplug"

\* Nothing is kept of a call that is over, and only callbacks have yet to
\* read the parent port.
Tidy(c) ==
  /\ running[c].state = "idle" => running[c] = Idle
  /\ running[c].state = "called" => c \in Callbacks

\* A call that has not read the parent port yet counts only while the port is
\* bound: otherwise it will do nothing.
Settled(l) ==
  \/ l \in unsettled
  \/ \E c \in Calls : ToEdit(c, l)
  \/ parent.bound /\ \E c \in Calls : running[c].state = "called"
  \/ AsDatabase(switched[l])

SubInv ==
  /\ SubTypeOK
  /\ \A c \in Calls : Fresh(c) /\ Tidy(c)
  /\ \A l \in Links : Settled(l)

-----------------------------------------------------------------------------
(* Facts about calls *)

\* A callback is none of the calls of the mechanism driver.
LEMMA CallNames ==
  /\ \A c \in Callbacks : c \in Calls /\ c[2] # "unplug"
  /\ <<"parent", "plug">> \in Calls /\ <<"parent", "unplug">> \in Calls
  /\ \A v \in Subports : /\ <<v, "added">> \in Callbacks
                         /\ <<v, "deleted">> \in Callbacks
BY DEF Calls, Callbacks, PortCalls

\* The edit of an unplug leaves no VLANs; every other one made from
\* trunk_details leaves the tags that were read, and the untagged VLAN when
\* trunk_details has it.
LEMMA EditsItsReading ==
  ASSUME NEW c \in Calls, NEW l \in Links
  PROVE  /\ c[2] = "unplug" => Edited(c, l) = NoVlans
         /\ c[2] # "unplug" /\ details # "none" =>
              Tagged(Edited(c, l)) = running[c].read
         /\ c[2] # "unplug" /\ details = "full" => Untagged(Edited(c, l))
<1>1. c[2] = "unplug" => Edited(c, l) = NoVlans
  BY DEF Edited, Unplugged
<1>2. ASSUME c[2] # "unplug", details # "none"
      PROVE  /\ Tagged(Edited(c, l)) = running[c].read
             /\ details = "full" => Untagged(Edited(c, l))
  <2>1. ASSUME NEW vlan, Edited(c, l) = TrunkPort(vlan, running[c].read)
        PROVE  /\ Tagged(Edited(c, l)) = running[c].read
               /\ Untagged(Edited(c, l)) = vlan
    BY <2>1 DEF TrunkPort, Tagged, Untagged
  <2>2. ASSUME NEW vlan, Edited(c, l) = AccessPort(vlan)
        PROVE  Tagged(Edited(c, l)) = {} /\ Untagged(Edited(c, l)) = vlan
    BY <2>2 DEF AccessPort, Tagged, Untagged
  <2>3. \/ Edited(c, l) = TrunkPort(TRUE, running[c].read)
        \/ Edited(c, l) = TrunkPort(details = "full", running[c].read)
        \/ /\ Edited(c, l) = AccessPort(details = "full")
           /\ running[c].read = {}
    BY <1>2 DEF Edited, Plugged, Added, Deleted
  <2>4. CASE Edited(c, l) = TrunkPort(TRUE, running[c].read)
    BY <2>1, <2>4
  <2>5. CASE Edited(c, l) = TrunkPort(details = "full", running[c].read)
    BY <2>1, <2>5
  <2>6. CASE /\ Edited(c, l) = AccessPort(details = "full")
             /\ running[c].read = {}
    BY <2>2, <2>6
  <2> QED BY <2>3, <2>4, <2>5, <2>6
<1> QED BY <1>1, <1>2

\* The edit of a reading that is not old leaves what the database has.
LEMMA FreshEditsServe ==
  ASSUME NEW c \in Calls, NEW l \in Links, SubTypeOK, Fresh(c),
         running[c].state = "read", ~running[c].old
  PROVE  AsDatabase(Edited(c, l))
BY EditsItsReading DEF Fresh, AsDatabase, SubTypeOK, Details

Call == [state : {"idle", "called", "read"}, read : SUBSET Subports,
         next : Links, old : BOOLEAN]

\* The type invariant, call by call.
LEMMA TypeOfCalls ==
  ASSUME SubTypeOK
  PROVE  /\ running = [c \in Calls |-> running[c]]
         /\ \A c \in Calls : running[c] \in Call
BY DEF SubTypeOK, Call

\* An edit leaves the configuration of a switch port.
LEMMA EditedType ==
  ASSUME SubTypeOK, NEW c \in Calls, NEW l \in Links
  PROVE  Edited(c, l) \in SwitchedVlans
<1>1. running[c].read \in SUBSET Subports
  BY TypeOfCalls DEF Call
<1>2. c[2] \in {"added", "deleted"} => c[1] \in Subports
  BY DEF Calls, Callbacks, PortCalls
<1>3. switched[l] \in SwitchedVlans
  BY DEF SubTypeOK
<1>4. \A vlan \in BOOLEAN, tags \in SUBSET Subports :
        /\ AccessPort(vlan) \in SwitchedVlans
        /\ TrunkPort(vlan, tags) \in SwitchedVlans
        /\ Merged(l, tags) \in SwitchedVlans
  BY <1>3 DEF SwitchedVlans, AccessPort, TrunkPort, Merged
<1>5. NoVlans \in SwitchedVlans
  BY DEF NoVlans, SwitchedVlans
<1>7. c[1] \in Subports => switched[l].tagged \cup {c[1]} \in SUBSET Subports
  BY <1>3 DEF SwitchedVlans
<1>8. c[2] \in {"added", "deleted", "plug", "unplug"}
  BY DEF Calls, Callbacks, PortCalls
<1>9. CASE c[2] \in {"plug", "unplug"}
  BY <1>1, <1>4, <1>5, <1>9 DEF Edited, Plugged, Unplugged
<1>10. CASE c[2] = "added"
  BY <1>1, <1>2, <1>4, <1>7, <1>10 DEF Edited, Added
<1>11. CASE c[2] = "deleted"
  <2>1. switched[l].tagged \ {c[1]} \in SUBSET Subports
    BY <1>3 DEF SwitchedVlans
  <2> QED BY <1>1, <1>4, <1>11, <2>1 DEF Edited, Deleted
<1> QED BY <1>8, <1>9, <1>10, <1>11

\* The states of a call that the actions assign.
LEMMA CallStates ==
  /\ Idle \in Call
  /\ [Idle EXCEPT !.state = "called"] \in Call
  /\ [Idle EXCEPT !.state = "called"].state = "called"
  /\ [Idle EXCEPT !.state = "called"].next = 1
  /\ ~[Idle EXCEPT !.state = "called"].old
  /\ \A new \in Parents : Committed(new) \in Call
<1>1. 1 \in Links
  BY NumLinksAssumption DEF Links
<1>2. /\ [Idle EXCEPT !.state = "called"].state = "called"
      /\ [Idle EXCEPT !.state = "called"].next = 1
      /\ ~[Idle EXCEPT !.state = "called"].old
  BY DEF Idle
<1>3. Idle \in Call
  BY <1>1 DEF Idle, Call
<1>4. ASSUME NEW new \in Parents PROVE Committed(new) \in Call
  <2>1. new.subs \in SUBSET Subports
    BY DEF Parents
  <2> QED BY <1>1, <2>1 DEF Committed, Call
<1>5. [Idle EXCEPT !.state = "called"] \in Call
  BY <1>3 DEF Call
<1> QED BY <1>2, <1>3, <1>4, <1>5

-----------------------------------------------------------------------------
(* Changes of the database *)

\* A change that starts call c keeps the invariant when the call has read the
\* new port, or is a callback and will; and when the port's target is new
\* the call is going to edit it.
LEMMA ChangesKeep ==
  ASSUME SubInv, NEW new \in Parents, NEW c \in Calls, NEW heard,
         Changes(new, c, heard),
         \/ heard = Committed(new) /\ (new.bound <=> c[2] # "unplug")
         \/ /\ heard = [Idle EXCEPT !.state = "called"]
            /\ c \in Callbacks
            /\ new.bound = parent.bound
  PROVE  SubInv'
<1> USE DEF SubInv
<1>1. heard \in Call
  BY CallStates
<1>2. \A d \in Calls : running[d] \in Call
  BY DEF SubTypeOK, Call
<1>3. running'[c] = heard /\ running[c] = Idle
  BY DEF Changes
<1>4. ASSUME NEW d \in Calls, d # c
      PROVE  /\ running'[d] \in Call
             /\ running'[d].state = running[d].state
             /\ running'[d].next = running[d].next
             /\ running[d].state = "read" => running'[d].old
             /\ running[d].state = "idle" => running'[d] = Idle
  <2>1. running'[d] = [running[d] EXCEPT !.old = running[d].state = "read"]
    BY <1>4 DEF Changes
  <2>2. running[d] \in Call
    BY <1>2
  <2>3. /\ running'[d] \in Call
        /\ running'[d].state = running[d].state
        /\ running'[d].next = running[d].next
    BY <2>1, <2>2 DEF Call
  <2>4. CASE running[d].state = "read"
    BY <2>1, <2>2, <2>3, <2>4 DEF Call
  <2>5. CASE running[d].state # "read"
    <3>1. running[d].state = "idle" => running[d] = Idle
      BY DEF Tidy
    <3> QED BY <2>1, <2>2, <2>3, <2>5, <3>1 DEF Call, Idle
  <2> QED BY <2>3, <2>4, <2>5
<1>5. SubTypeOK'
  <2>1. /\ details' = details /\ parent' \in Parents
        /\ switched' = switched /\ unsettled' = unsettled
    BY DEF Changes
  <2>2. running' \in [Calls -> Call]
    <3>1. \A d \in Calls : running'[d] \in Call
      BY <1>1, <1>3, <1>4
    <3>2. running' = [d \in Calls |-> running'[d]]
      BY DEF Changes
    <3> QED BY <3>1, <3>2
  <2> QED BY <2>1, <2>2 DEF SubTypeOK, Call
<1>6. ASSUME NEW d \in Calls PROVE Fresh(d)' /\ Tidy(d)'
  <2>1. CASE d = c /\ heard = Committed(new)
    <3>1. parent' = new /\ (new.bound <=> c[2] # "unplug")
      <4>1. [Idle EXCEPT !.state = "called"].state # Committed(new).state
        BY CallStates DEF Committed
      <4> QED BY <2>1, <4>1 DEF Changes
    <3>2. running'[d].state = "read" /\ running'[d].read = new.subs
      BY <1>3, <2>1 DEF Committed
    <3> QED BY <2>1, <3>1, <3>2 DEF Fresh, Tidy
  <2>3. CASE d = c /\ heard # Committed(new)
    <3>1. running'[d].state = "called" /\ d \in Callbacks
      BY <1>3, <2>3, CallStates
    <3> QED BY <3>1 DEF Fresh, Tidy
  <2>2. CASE d # c
    BY <1>4, <2>2 DEF Fresh, Tidy
  <2> QED BY <2>1, <2>2, <2>3
<1>7. ASSUME NEW l \in Links PROVE Settled(l)'
  <2>1. CASE heard = Committed(new)
    BY <1>3, <2>1, NumLinksAssumption DEF ToEdit, Committed, Links, Settled
  <2>2. CASE /\ heard = [Idle EXCEPT !.state = "called"]
             /\ new.bound = parent.bound
    <3>1. CASE new.bound
      <4>1. parent'.bound /\ running'[c].state = "called"
        BY <1>3, <2>2, <3>1, CallStates DEF Changes
      <4> QED BY <4>1 DEF Settled
    <3>2. CASE ~new.bound
      <4>1. /\ AsDatabase(switched[l])' <=> AsDatabase(switched[l])
            /\ unsettled' = unsettled
        BY <2>2, <3>2 DEF AsDatabase, Changes
      <4>2. ASSUME NEW d \in Calls, ToEdit(d, l) PROVE ToEdit(d, l)'
        <5>1. d # c
          BY <1>3, <4>2 DEF ToEdit, Idle
        <5> QED BY <1>4, <4>2, <5>1 DEF ToEdit
      <4> QED BY <2>2, <3>2, <4>1, <4>2 DEF Settled
    <3> QED BY <3>1, <3>2
  <2> QED BY <2>1, <2>2
<1> QED BY <1>5, <1>6, <1>7

-----------------------------------------------------------------------------
(* Steps of the calls *)

\* Reading the parent port keeps the invariant: a call that finds it bound
\* is going to edit every link, and one that does not was not counted on.
LEMMA ReadKeeps ==
  ASSUME SubInv, NEW c \in Callbacks, ReadParent(c)
  PROVE  SubInv'
<1> USE DEF SubInv
<1>0. c \in Calls /\ c[2] # "unplug"
  BY CallNames
<1>1. /\ details' = details /\ parent' = parent
      /\ switched' = switched /\ unsettled' = unsettled
      /\ running[c].state = "called"
      /\ \A d \in Calls : running'[d] =
           IF d # c THEN running[d]
           ELSE IF parent.bound THEN Committed(parent) ELSE Idle
  BY DEF ReadParent, SubTypeOK
<1>2. SubTypeOK'
  BY <1>0, <1>1, NumLinksAssumption
  DEF SubTypeOK, ReadParent, Committed, Idle, Parents, Links
<1>3. ASSUME NEW d \in Calls PROVE Fresh(d)' /\ Tidy(d)'
  BY <1>0, <1>1 DEF Fresh, Tidy, Committed, Idle
<1>4. ASSUME NEW l \in Links PROVE Settled(l)'
  <2>1. CASE parent.bound
    <3>1. ToEdit(c, l)'
      BY <1>0, <1>1, <2>1, NumLinksAssumption DEF ToEdit, Committed, Links
    <3> QED BY <1>0, <3>1 DEF Settled
  <2>2. CASE ~parent.bound
    <3>1. ASSUME NEW d \in Calls, ToEdit(d, l) PROVE ToEdit(d, l)'
      BY <1>1, <3>1 DEF ToEdit
    <3> QED BY <1>1, <2>2, <3>1 DEF Settled, AsDatabase
  <2> QED BY <2>1, <2>2
<1> QED BY <1>2, <1>3, <1>4

\* An edit that is done keeps the invariant: its link has the target or is
\* unsettled, and the later links are still to be edited.
LEMMA LinkDoneKeeps ==
  ASSUME SubInv, NEW c \in Calls, NEW l \in Links, LinkDone(c, l)
  PROVE  SubInv'
<1> USE DEF SubInv
<1>1. /\ details' = details /\ parent' = parent
      /\ running[c].state = "read" /\ running[c].next = l
      /\ switched' = [switched EXCEPT ![l] = Edited(c, l)]
      /\ \A d \in Calls : running'[d] =
           IF d # c THEN running[d]
           ELSE IF l = NumLinks THEN Idle ELSE [running[c] EXCEPT !.next = l + 1]
      /\ unsettled' = IF running[c].old THEN unsettled \cup {l}
                      ELSE unsettled \ {l}
  BY DEF LinkDone, Editing, SubTypeOK
<1>2. l = NumLinks \/ l + 1 \in Links
  BY NumLinksAssumption DEF Links
<1>3. SubTypeOK'
  <2>1. switched' \in [Links -> SwitchedVlans]
    BY <1>1, EditedType DEF SubTypeOK
  <2>2. \A d \in Calls : running'[d] \in Call
    <3>1. [running[c] EXCEPT !.next = l + 1] \in Call \/ l = NumLinks
      BY <1>2, TypeOfCalls DEF Call
    <3> QED BY <1>1, <3>1, CallStates, TypeOfCalls
  <2>3. running' \in [Calls -> Call]
    BY <2>2 DEF LinkDone, SubTypeOK
  <2>4. unsettled' \subseteq Links
    BY <1>1 DEF SubTypeOK
  <2> QED BY <1>1, <2>1, <2>3, <2>4 DEF SubTypeOK, Call
<1>4. ASSUME NEW d \in Calls PROVE Fresh(d)' /\ Tidy(d)'
  <2>1. CASE d # c
    BY <1>1, <2>1 DEF Fresh, Tidy
  <2>2. CASE d = c /\ l = NumLinks
    BY <1>1, <2>2 DEF Fresh, Tidy, Idle
  <2>3. CASE d = c /\ l # NumLinks
    <3>1. /\ running'[c].state = "read" /\ running'[c].old = running[c].old
          /\ running'[c].read = running[c].read
      BY <1>1, <2>3 DEF SubTypeOK
    <3> QED BY <1>1, <2>3, <3>1 DEF Fresh, Tidy
  <2> QED BY <2>1, <2>2, <2>3
<1>5. ASSUME NEW k \in Links PROVE Settled(k)'
  <2>1. CASE k = l
    <3>1. CASE running[c].old
      BY <1>1, <2>1, <3>1 DEF Settled
    <3>2. CASE ~running[c].old
      <4>1. switched'[k] = Edited(c, l) /\ AsDatabase(Edited(c, l))
        BY <1>1, <2>1, <3>2, FreshEditsServe DEF SubTypeOK
      <4> QED BY <1>1, <4>1 DEF Settled, AsDatabase
    <3> QED BY <3>1, <3>2
  <2>2. CASE k # l
    <3>1. switched'[k] = switched[k] /\ (k \in unsettled => k \in unsettled')
      BY <1>1, <2>2 DEF SubTypeOK
    <3>2. ASSUME NEW d \in Calls, ToEdit(d, k) PROVE ToEdit(d, k)'
      <4>1. CASE d # c
        BY <1>1, <3>2, <4>1 DEF ToEdit
      <4>2. CASE d = c
        <5>1. l < k /\ l # NumLinks
          BY <1>1, <2>2, <3>2, <4>2, NumLinksAssumption DEF ToEdit, Links
        <5> QED BY <1>1, <4>2, <5>1 DEF ToEdit, Links, SubTypeOK
      <4> QED BY <4>1, <4>2
    <3>3. ASSUME NEW d \in Calls, running[d].state = "called"
          PROVE  running'[d].state = "called"
      BY <1>1, <3>3
    <3> QED BY <1>1, <3>1, <3>2, <3>3 DEF Settled, AsDatabase
  <2> QED BY <2>1, <2>2
<1> QED BY <1>3, <1>4, <1>5

\* An edit that fails keeps the invariant, for the links that the call will
\* not edit any more are unsettled.
LEMMA LinkFailsKeeps ==
  ASSUME SubInv, NEW c \in Calls, NEW l \in Links, LinkFails(c, l)
  PROVE  SubInv'
<1> USE DEF SubInv
<1>1. /\ details' = details /\ parent' = parent
      /\ running[c].state = "read" /\ running[c].next = l
      /\ \A k \in Links : k # l => switched'[k] = switched[k]
      /\ \A d \in Calls : running'[d] = IF d # c THEN running[d] ELSE Idle
      /\ unsettled' = unsettled \cup {k \in Links : ToEdit(c, k)}
  BY DEF LinkFails, Editing, SubTypeOK
<1>2. SubTypeOK'
  <2>1. switched' \in [Links -> SwitchedVlans]
    <3>1. /\ Edited(c, l) \in SwitchedVlans
          /\ switched \in [Links -> SwitchedVlans]
      BY EditedType DEF SubTypeOK
    <3> QED BY <3>1 DEF LinkFails
  <2>2. running' \in [Calls -> Call]
    BY CallStates, TypeOfCalls DEF LinkFails
  <2>3. unsettled' \subseteq Links
    BY <1>1 DEF SubTypeOK
  <2> QED BY <1>1, <2>1, <2>2, <2>3 DEF SubTypeOK, Call
<1>3. ASSUME NEW d \in Calls PROVE Fresh(d)' /\ Tidy(d)'
  BY <1>1 DEF Fresh, Tidy, Idle
<1>4. ASSUME NEW k \in Links PROVE Settled(k)'
  <2>1. CASE ToEdit(c, k)
    BY <1>1, <2>1 DEF Settled
  <2>2. CASE ~ToEdit(c, k)
    <3>1. k # l
      BY <1>1, <2>2, NumLinksAssumption DEF ToEdit, Links
    <3>2. ASSUME NEW d \in Calls, ToEdit(d, k) PROVE ToEdit(d, k)'
      BY <1>1, <2>2, <3>2 DEF ToEdit
    <3>3. ASSUME NEW d \in Calls, running[d].state = "called"
          PROVE  running'[d].state = "called"
      BY <1>1, <3>3
    <3> QED BY <1>1, <3>1, <3>2, <3>3 DEF Settled, AsDatabase
  <2> QED BY <2>1, <2>2
<1> QED BY <1>2, <1>3, <1>4

\* A crash keeps the invariant, for what the calls would have edited is
\* unsettled.
LEMMA CrashKeeps ==
  ASSUME SubInv, SubCrash
  PROVE  SubInv'
<1> USE DEF SubInv
<1>1. /\ details' = details /\ parent' = parent /\ switched' = switched
      /\ \A d \in Calls : running'[d] = Idle
      /\ unsettled' = unsettled \cup
           {l \in Links : \E c \in Calls : Pending(c, l)}
  BY DEF SubCrash
<1>2. SubTypeOK'
  <2>1. running' \in [Calls -> Call]
    BY CallStates DEF SubCrash
  <2> QED BY <1>1, <2>1 DEF SubTypeOK, Call
<1>3. ASSUME NEW d \in Calls PROVE Fresh(d)' /\ Tidy(d)'
  BY <1>1 DEF Fresh, Tidy, Idle
<1>4. ASSUME NEW l \in Links PROVE Settled(l)'
  BY <1>1 DEF Settled, Pending, AsDatabase
<1> QED BY <1>2, <1>3, <1>4

-----------------------------------------------------------------------------
(* Theorem *)

LEMMA SubInvInit == SubInit => SubInv
<1> SUFFICES ASSUME SubInit PROVE SubInv
  OBVIOUS
<1>1. SubTypeOK
  BY NumLinksAssumption DEF SubInit, SubTypeOK, Parents, SwitchedVlans, Idle, NoVlans, Links
<1>2. \A c \in Calls : Fresh(c) /\ Tidy(c)
  BY DEF SubInit, Fresh, Tidy, Idle
<1>3. \A l \in Links : Settled(l)
  BY DEF SubInit, Settled, AsDatabase
<1> QED BY <1>1, <1>2, <1>3 DEF SubInv

LEMMA SubInvStep == SubInv /\ [SubNext]_subVars => SubInv'
<1> SUFFICES ASSUME SubInv, [SubNext]_subVars PROVE SubInv'
  OBVIOUS
<1>0. parent \in Parents
  BY DEF SubInv, SubTypeOK
<1>1. CASE BindParent
  <2> DEFINE new == [parent EXCEPT !.bound = TRUE]
  <2>1. new \in Parents /\ new.bound
    BY <1>0 DEF Parents
  <2>2. Changes(new, <<"parent", "plug">>, Committed(new))
    BY <1>1 DEF BindParent
  <2> QED BY <2>1, <2>2, CallNames, ChangesKeep
<1>2. CASE UnbindParent
  <2> DEFINE new == [parent EXCEPT !.bound = FALSE]
  <2>1. new \in Parents /\ ~new.bound
    BY <1>0 DEF Parents
  <2>2. Changes(new, <<"parent", "unplug">>, Committed(new))
    BY <1>2 DEF UnbindParent
  <2> QED BY <2>1, <2>2, CallNames, ChangesKeep
<1>3. ASSUME NEW v \in Subports, AttachSubport(v) PROVE SubInv'
  <2> DEFINE new == [parent EXCEPT !.subs = @ \cup {v}]
  <2>1. new \in Parents /\ new.bound = parent.bound
    BY <1>0 DEF Parents
  <2>2. Changes(new, <<v, "added">>, [Idle EXCEPT !.state = "called"])
    BY <1>3 DEF AttachSubport
  <2> QED BY <2>1, <2>2, CallNames, ChangesKeep
<1>4. ASSUME NEW v \in Subports, DetachSubport(v) PROVE SubInv'
  <2> DEFINE new == [parent EXCEPT !.subs = @ \ {v}]
  <2>1. new \in Parents /\ new.bound = parent.bound
    BY <1>0 DEF Parents
  <2>2. Changes(new, <<v, "deleted">>, [Idle EXCEPT !.state = "called"])
    BY <1>4 DEF DetachSubport
  <2> QED BY <2>1, <2>2, CallNames, ChangesKeep
<1>5. ASSUME NEW c \in Callbacks, ReadParent(c) PROVE SubInv'
  BY <1>5, ReadKeeps
<1>6. ASSUME NEW c \in Calls, NEW l \in Links, LinkDone(c, l) PROVE SubInv'
  BY <1>6, LinkDoneKeeps
<1>7. ASSUME NEW c \in Calls, NEW l \in Links, LinkFails(c, l) PROVE SubInv'
  BY <1>7, LinkFailsKeeps
<1>8. CASE SubCrash
  BY <1>8, CrashKeeps
<1>9. CASE UNCHANGED subVars
  BY <1>9 DEF SubInv, SubTypeOK, Fresh, Tidy, Settled, ToEdit, AsDatabase,
      Untagged, Tagged, subVars
<1> QED BY <1>1, <1>2, <1>3, <1>4, <1>5, <1>6, <1>7, <1>8, <1>9 DEF SubNext

LEMMA SubInvImplies == SubInv => SubportsAreDatabase
BY DEF SubInv, SubportsAreDatabase, Settled, Pending

\* For any number of subports, links and overlapping calls, with failures and
\* crashes: a switch port that no call is going to edit has the VLANs that the
\* database has for the trunk, as far as trunk_details carry them, unless its
\* last edit sent an old reading of the parent port or failed
\* (trunk_driver.py:75-118, netconf_switch.py:570-624).
THEOREM TrunkPortsHaveSubports == SubSpec => []SubportsAreDatabase
<1> QED BY SubInvInit, SubInvStep, SubInvImplies, PTL DEF SubSpec
=============================================================================

----------------------------- MODULE MCWorkspace -----------------------------
EXTENDS Workspace

CONSTANTS n1, n2, t1

Person(name) == Row("person", name, <<>>, NoThread, User)
Entry(body, origin) == Row("journal_entry", NoLabel, body, origin, User)
Habit == Row("habit", NoLabel, <<>>, NoThread, User)
Ref(source, target, label) == [source |-> source, target |-> target, label |-> label]

\* An entry the agent captured with its chip, and a check-in corrected from
\* one Habit to another; one it captured before anybody was recognized in it,
\* and two people of a name; one the user wrote, woven to a person.
MCStart ==
    {[ent |-> <<Entry(<<Chip(1, 2)>>, t1), Person(n1), Habit, Habit>>,
      refs |-> {Ref(1, 2, n1)}, obs |-> <<[habit |-> 4, past |-> {3}]>>],
     [ent |-> <<Entry(<<Text(n1)>>, t1), Person(n1), Person(n1)>>,
      refs |-> {}, obs |-> <<>>],
     [ent |-> <<Entry(<<Chip(1, 2), Text(n2)>>, NoThread), Person(n1), Habit>>,
      refs |-> {Ref(1, 2, NoLabel)}, obs |-> <<>>]}
=============================================================================

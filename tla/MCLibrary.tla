------------------------------ MODULE MCLibrary ------------------------------
EXTENDS Library, TLC

Lead == {"lead"}
LeadAds == {"lead", "ads"}
MCNames == {LeadAds}
WriterSymmetry == Permutations(Writers)
MCRuns == <<"t1", "t2">>

Row0(type, data, sources) ==
    [type |-> type, data |-> data, at |-> 0, sources |-> sources,
     revs |-> <<[data |-> data, at |-> 0]>>]

\* A person captured from an entry of the first Run, which mentions them, and a
\* second person whose name is part of theirs.
Mentioned ==
    [ent |-> <<Row0("journal_entry", Data({}, 1), <<SourceRow(MessageSource(1), "created_from", 0)>>),
               Row0("person", Data(LeadAds, 0), <<SourceRow(EntrySource(1), "created_from", 0)>>),
               Row0("person", Data(Lead, 0), <<>>)>>,
     refs |-> {[source |-> 1, target |-> 2, label |-> LeadAds]},
     obs |-> <<>>]

\* Ids written as the tables spell them, and otherwise.
Checkin(habit, day) == RecordDraft("habit.checkin", day, <<>>, [habit_id |-> habit])
Weighed(day) == RecordDraft("bodyweight", day, <<day>>, [kg |-> 72])

MCBatches ==
    {Payload(<<Checkin(-1, 1)>>, <<Evidence(<<2>>, <<>>)>>),
     Payload(<<Weighed(2), Checkin(1, 2)>>, <<Evidence(<<>>, <<-1>>)>>),
     Payload(<<Weighed(1), Checkin(2, 1)>>, <<>>)}

MCCorrections ==
    {UpdateDraft(2, <<>>, [habit_id |-> -1]), UpdateDraft(2, <<2>>, [kg |-> 71])}

CheckedIn == PrepareSnapshot("habit.checkin", Checkin(1, 1).draft)

\* A Habit with a check-in that cites an entry of the second Run.
Tracked ==
    [ent |-> <<Row0("habit", Data({}, 0), <<>>),
               Row0("journal_entry", Data({}, 1), <<SourceRow(MessageSource(2), "created_from", 0)>>)>>,
     refs |-> {},
     obs |-> <<[facts |-> Facts(CheckedIn), created |-> 0, updated |-> 0,
                source |-> <<SourceColumns(JournalEntry(2))>>,
                revs |-> <<Revision(CheckedIn, <<>>, 0)>>]>>]

MCStart == {Mentioned, Tracked}
==============================================================================

----------------------------- MODULE MCPayloads ------------------------------
EXTENDS Payloads

\* Two leap days (one in a 400th year), two centuries without one, the turn of
\* a year, the epoch, and year 0.
MCEpochs ==
    {<<-719528, <<0, 1, 1>>>>, <<-25517, <<1900, 2, 20>>>>, <<-31, <<1969, 12, 1>>>>,
     <<10988, <<2000, 2, 1>>>>, <<20082, <<2024, 12, 25>>>>, <<47532, <<2100, 2, 20>>>>}
MCComposable ==
    {"name", "note", "status", "completed_at", "dropped_at", "review_every",
     "title", "medium", "state", "rating", "finished_at", "cadence", "handle",
     "occurred_at", "ended_at", "body", "kcal", "kg", "habit_id", "quantity", "entity_id",
     "source_journal_entry_id", "source_entity_id", "target_entity_id", "date",
     "is_all_day", "time_zone"}
=============================================================================

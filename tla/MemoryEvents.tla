---------------------------- MODULE MemoryEvents ----------------------------
(***************************************************************************)
(* Vocabulary shared by the sidecar and the gateway: the memory events that *)
(* travel between them and the codes of their final receipts.               *)
(***************************************************************************)
CONSTANTS
    Event,      \* event ids (a caller may supply one, so an id may come back)
    Source,     \* external provenances (provider instance, record, revision)
    NoSource,   \* an event without provenance
    Route,      \* [Event -> RouteKind], how the content of an event is treated
    SourceOf    \* [Event -> Source or NoSource]

\* "invalid": parse_proposed_event refuses it; "corrupt": the worker can no
\* longer decrypt it; "unsafe": the memory backend's own scan refuses it;
\* "explicit": evidence user_explicit, stored at once; "review": the rest.
RouteKind == {"invalid", "corrupt", "unsafe", "explicit", "review"}

ASSUME RouteAssumption == Route \in [Event -> RouteKind]

ASSUME SourceAssumption ==
    /\ NoSource \notin Source
    /\ SourceOf \in [Event -> Source \cup {NoSource}]

\* result_code of the fixed receipt of an applied event.
ResultCode == {"candidate_confirmed", "candidate_created", "source_duplicate"}
=============================================================================

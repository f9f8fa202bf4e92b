--------------------------- MODULE FeatureCatalog ---------------------------
(***************************************************************************)
(* What the registry promises to whoever asks a serving worker for features,  *)
(* however many workers seed it: a catalogue.  An entry is absent or whole,    *)
(* the whole catalogue is there at once and before a server serves, and no      *)
(* entry is ever taken back, doubled or changed, whoever comes and goes.        *)
(***************************************************************************)

CONSTANTS
    Names,
    Servers,
    Absent, Whole   \* what may be seen of an entry

VARIABLES
    entries,    \* what is seen of each name
    serving     \* the servers that serve

catalogVars == <<entries, serving>>

CatalogInit ==
    /\ entries \in [Names -> {Absent, Whole}]
    /\ serving = {}

\* A server begins to serve, and by then the catalogue is complete.
Publish(w) ==
    /\ w \notin serving
    /\ entries' = [n \in Names |-> Whole]
    /\ serving' = serving \cup {w}

Leave(w) ==
    /\ w \in serving
    /\ serving' = serving \ {w}
    /\ UNCHANGED entries

CatalogNext == \E w \in Servers : Publish(w) \/ Leave(w)

CatalogSpec == CatalogInit /\ [][CatalogNext]_catalogVars

=============================================================================

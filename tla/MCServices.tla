----------------------------- MODULE MCServices -----------------------------
(***************************************************************************)
(* What serves the adapters, one at a time: the torrent client and its     *)
(* cache, the renderer's events, the line inputs, and the codec that       *)
(* carries a field almost without loss.                                    *)
(***************************************************************************)
EXTENDS NlcPacking, NearLossless, AuxInput, DlnaEvents, TorrentLease

VARIABLE part   \* what this behaviour is about

-----------------------------------------------------------------------------
(* The instances: how many starts, whether they overlap, ...               *)
TorrentLimit(n, overlap, keep, ports, toggle) ==
    [starts |-> n, together |-> overlap, keep |-> keep, ports |-> ports, toggles |-> toggle]

MCTorrentLimits ==
    {TorrentLimit(3, FALSE, FALSE, 2, TRUE),
     TorrentLimit(3, FALSE, TRUE, 1, FALSE),
     TorrentLimit(2, TRUE, FALSE, 2, FALSE),
     TorrentLimit(3, TRUE, FALSE, 1, FALSE)}

EventLimit(who, change, most, queue, fail, largest, cross, leave, fault) ==
    [points |-> who, changes |-> change, subscriptions |-> most, pending |-> queue,
     failures |-> fail, largest |-> largest, crossing |-> cross, leaves |-> leave, faults |-> fault]

MCEventLimits ==
    {EventLimit(2, 3, 1, 2, 2, 2, FALSE, FALSE, TRUE),
     EventLimit(1, 4, 1, 2, 2, 2, FALSE, TRUE, TRUE),
     EventLimit(1, 3, 1, 2, 2, 2, TRUE, TRUE, FALSE)}

MCAuxLimits == {[starts |-> 4, stops |-> TRUE, faults |-> TRUE, settings |-> TRUE]}

MCColours == {[r |-> 255, g |-> 255, b |-> 255], [r |-> 255, g |-> 0, b |-> 0], [r |-> 0, g |-> 255, b |-> 3]}

Some(set) == CHOOSE x \in set : TRUE

MCInit ==
    /\ part \in {"torrents", "events", "aux", "codec"}
    /\ TorrentInit /\ (part = "torrents" \/ lim = Some(TorrentLimits))
    /\ EventsInit    /\ (part = "events" \/ evLim = Some(EventLimits))
    /\ AuxInit          /\ (part = "aux" \/ input = Some(Inputs))
    /\ NlcInit
    /\ part = "codec" \/ /\ near = 0 /\ pack = Some(Packs)
                         /\ source = [r \in 1..Height |-> [c \in 1..Width |-> Some(Colours)]]

MCNext ==
    \/ part = "torrents" /\ TorrentNext /\ UNCHANGED <<part, eventVars, auxVars, nlcVars>>
    \/ part = "events" /\ EventsNext /\ UNCHANGED <<part, torrentVars, auxVars, nlcVars>>
    \/ part = "aux" /\ AuxNext /\ UNCHANGED <<part, torrentVars, eventVars, nlcVars>>
    \/ part = "codec" /\ NlcNext /\ UNCHANGED <<part, torrentVars, eventVars, auxVars>>

MCSpec == /\ MCInit /\ [][MCNext]_<<part, torrentVars, eventVars, auxVars, nlcVars>>
          /\ part = "events" => EventsFairness
=============================================================================

----------------------------- MODULE MCRequests -----------------------------
(***************************************************************************)
(* Two services and two other nodes.  The spellings stand for              *)
(*     wiki      "wiki.core"        wikiDot   "wiki.core."                 *)
(*     Wiki      "WIKI.core"        WikiDot   "Wiki.Core.."                *)
(*     chat      "chat.core"        bad       "-x.core"                    *)
(* so WikiDot becomes a valid name only when it is normalized twice, and   *)
(* bad, which DNS takes for a .core name, never does.                      *)
(***************************************************************************)
EXTENDS Requests

MC_Canon ==
    [wiki |-> "wiki", Wiki |-> "wiki", WikiDot |-> "wikiDot",
     wikiDot |-> "wiki", bad |-> "bad", chat |-> "chat"]

MC_Spellings == DOMAIN MC_Canon

MC_Rank == [alpha |-> 1, beta |-> 2]

Raw(name, address, port) == [name |-> name, address |-> address, port |-> port]

MC_Bodies ==
    {Raw("Wiki", "a1", 1), Raw("bad", "a1", 80), Raw("WikiDot", "a1", 80),
     Raw("wiki", "", 80), Raw("wiki", "a2", 65536)}

(* Empty, one usable entry, the same name twice (the later one wins), and a*)
(* usable entry among ones that must be dropped.                           *)
MC_ServiceLists ==
    {<<>>,
     <<Raw("wikiDot", "a1", 65535)>>,
     <<Raw("wiki", "a2", 80), Raw("Wiki", "a1", 65535)>>,
     <<Raw("chat", "a1", 1), Raw("wiki", "a1", 0), Raw("bad", "a1", 80),
       Raw("chat", "", 80)>>}

MC_ConflictLists == {{}, {"Wiki", "bad"}}
=============================================================================

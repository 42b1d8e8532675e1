-------------------------- MODULE MCProcedureIndex --------------------------
(***************************************************************************)
(* An instance of ProcedureIndex with two manuals, one of them deferred.   *)
(* From most situations a text is only built and served; from a few, all   *)
(* programs run while the authors edit.                                    *)
(***************************************************************************)
EXTENDS ProcedureIndex

CONSTANTS BodyKinds, MaxBody       \* the texts that are tried

MCRequired == <<"oxygen", "comms">>

\* Three configurations: two models, and one that breaks a limit.
Config(model, default, planner) ==
  [key |-> TRUE, model |-> model, defaultTopK |-> default, plannerTopK |-> planner,
   maxTopK |-> 2, rerank |-> 2]

MCSettings == {Config("old", 1, 2), Config("new", 2, 1), Config("old", 1, 3),
               [Config("new", 1, 1) EXCEPT !.key = FALSE]}

Head1 == <<"h1", "meta", "json", "payload", "ticks">>

Good(f, status, body) ==
  [id |-> f, file |-> f, status |-> status, encoding |-> "utf8", flaws |-> {},
   text |-> Head1 \o body]

Oxygen == Good("oxygen", "PARTIAL", <<"h2", "text">>)
Comms  == Good("comms", "DEFERRED", <<"h2", "text">>)

MCDrafts ==
  [oxygen |-> {Good("oxygen", "PARTIAL", <<"h2", "list", "h3", "quote", "h2", "text", "spaces">>),
               [Oxygen EXCEPT !.flaws = {"claim"}], [Oxygen EXCEPT !.flaws = {"action"}],
               [Oxygen EXCEPT !.encoding = "bom"], NoManual},
   comms  |-> {[Comms EXCEPT !.status = "PARTIAL"], [Comms EXCEPT !.id = "oxygen"],
               [Comms EXCEPT !.encoding = "other"]}]

E(f) == [file |-> f, id |-> f]

MCManifests ==
  {[active |-> <<E("oxygen")>>, excluded |-> <<E("comms")>>],
   [active |-> <<E("oxygen"), E("comms")>>, excluded |-> <<>>],
   [active |-> <<E("oxygen")>>, excluded |-> <<E("oxygen")>>]}

Usual == [active |-> <<E("oxygen")>>, excluded |-> <<E("comms")>>]

Lines(max) == UNION {[1 .. n -> BodyKinds] : n \in 0 .. max}

\* All short bodies, and the shorter ones within a fence, after a list, between
\* headings, and where a section has to be split.
Bodies ==
  Lines(MaxBody)
  \cup {<<"longticks">> \o b \o <<"longticks", "text">> : b \in Lines(MaxBody - 1)}
  \cup {<<"list", "blank">> \o b : b \in Lines(MaxBody - 1)}
  \cup {<<"h3", "text">> \o b \o <<"h2", "text">> : b \in Lines(MaxBody - 1)}
  \cup {<<"text", "blank", "text">> \o b \o <<"hr", "iquote">> : b \in Lines(MaxBody - 1)}

Nothing == [edits |-> 0, builds |-> 0, faults |-> 0, crashes |-> 0, checks |-> 0, starts |-> 0]

\* One build of a text; and builds side by side, errors, checks and restarts.
Quiet   == [Nothing EXCEPT !.builds = 1]
Racing  == [Nothing EXCEPT !.edits = 1, !.builds = 2, !.starts = 1]
Checked == [Nothing EXCEPT !.edits = 2, !.builds = 1, !.checks = 1]
Failing == [Nothing EXCEPT !.edits = 1, !.builds = 2, !.faults = 2, !.crashes = 1, !.starts = 2]

MCSituations ==
  {[manifest |-> Usual, left |-> Quiet,
    manuals |-> [oxygen |-> Good("oxygen", "PARTIAL", <<"h2">> \o body), comms |-> Comms]] :
     body \in Bodies}
  \cup {[manifest |-> Usual, left |-> l, manuals |-> [oxygen |-> Oxygen, comms |-> Comms]] :
          l \in {Racing, Checked, Failing}}

\* One build and one start of the server, over the manuals as they are.
MCLone ==
  {[manifest |-> Usual, manuals |-> [oxygen |-> Oxygen, comms |-> Comms],
    left |-> [Quiet EXCEPT !.starts = 1]]}

Perms == Permutations(Builders)
=============================================================================

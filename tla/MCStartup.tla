----------------------------- MODULE MCStartup -----------------------------
(* A small instance of Startup.                                            *)
EXTENDS Startup

Entry(source, field, value) == [source |-> source, field |-> field, value |-> value]

\* A socket of its own, another run directory, intervals, an ordinary setting,
\* each also empty.
MCEntries ==
    UNION {{Entry(s, "socket", <<s, "sock">>), Entry(s, "socket", Empty)} :
              s \in {"toml", "env", "flag"}}
    \cup UNION {{Entry(s, "run", <<s, "run">>), Entry(s, "run", Empty)} : s \in {"env", "flag"}}
    \cup {Entry(s, "audit", v) :
              s \in {"toml", "flag"}, v \in {<<"-5">>, <<"5">>, <<"9300000000">>, Empty}}
    \cup {Entry("env", "logs", <<"s">>), Entry("toml", "bridges", <<"s">>)}

\* Up to three entries, for different settings or from different sources.
MCGiven ==
    {g \in kSubset(0, MCEntries) \cup kSubset(1, MCEntries) \cup kSubset(2, MCEntries)
           \cup kSubset(3, MCEntries) :
        \A d, e \in g : d # e => d.source # e.source \/ d.field # e.field}

MCFew == {{}, {Entry("env", "socket", <<"env", "sock">>)}, {Entry("flag", "run", <<"flag", "run">>)}}

\* One start with anything, or three with little.
MCScenarios == {<<g>> : g \in MCGiven} \cup (MCFew \X MCFew \X {{}})
=============================================================================

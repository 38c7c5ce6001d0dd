-------------------------- MODULE MCPromptPipeline --------------------------
(* A small instance of PromptPipeline.                                     *)
EXTENDS PromptPipeline

Install == <<"cognitiveos.package", ".install">>
List == <<"cognitiveos.package", ".list">>
MCToken == {"@", "(", ")", ",", "=", "cognitiveos.package", ".install", ".list", "go", "prose",
            "name", "package_name", "a", "b", "x", "y"}

Call(tool, pairs) == [tool |-> tool, pairs |-> pairs]
Pair(k, v) == <<<<k>>, <<v>>>>

\* Package tools and another, up to two arguments, one key twice.
MCCalls == {
    Call(Install, <<Pair("name", "x")>>),
    Call(Install, <<Pair("package_name", "x")>>),
    Call(List, <<>>),
    Call(<<"go">>, <<>>),
    Call(<<"go">>, <<Pair("a", "x"), Pair("b", "y")>>),
    Call(<<"go">>, <<Pair("a", "x"), Pair("a", "y")>>)}

\* A proper call with up to two tokens missing.
Once(lines) == UNION {{RemoveAt(l, i) : i \in DOMAIN l} : l \in lines}
MCLines == LET proper == {Written(c) : c \in MCCalls}
           IN  proper \cup Once(proper) \cup Once(Once(proper))

Small == {Written(Call(<<"go">>, <<>>)), Written(Call(Install, <<Pair("name", "x")>>)), <<"prose">>}

MCFurther == {<<l>> : l \in Small} \cup (Small \X Small)

\* Fences that meet or overlap.
MCFences == {<<"@", "@">>, <<"@", "@", "@">>, <<"@", "@", "@", "@">>}

MCResponses == MCFurther \cup {<<l>> : l \in MCLines \cup MCFences}
=============================================================================

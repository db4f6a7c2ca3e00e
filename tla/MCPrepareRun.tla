---------------------------- MODULE MCPrepareRun ----------------------------
\* A workflow with two steps that publish to one repository and differ in the
\* packages they ask for, an image and a file; and one with nothing but that file,
\* from a step that must not ask the server.
EXTENDS PrepareRun

MCSteps == {"base", "extra"}

MCRepo == [s \in MCSteps |-> "jammy"]

MCPackages == [s \in MCSteps |-> s]

MCImages == [s \in {"img"} |-> {"pause"}]

MCUrl == [s \in {"file", "fileOffline"} |-> "url"]

MCOffline == {"fileOffline"}

MCWorkflows == {<<"extra", "base", "img", "file">>, <<"fileOffline">>}
=============================================================================

---------------------------- MODULE MCBundleApply ----------------------------
\* Archives that are complete, that end before the manifest on an entry
\* boundary, and inside the workflows.
EXTENDS BundleApply

MCArchives == {Complete, [whole |-> 3, cut |-> FALSE], [whole |-> 1, cut |-> TRUE]}
=============================================================================

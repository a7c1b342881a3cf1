---------------------------- MODULE MCStateSave ----------------------------
EXTENDS StateSave

TwoKinds == <<"job", "node">>
OneKind == <<"job">>
=============================================================================

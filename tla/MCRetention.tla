---------------------------- MODULE MCRetention ----------------------------
EXTENDS Retention
=============================================================================

---------------------------- MODULE MCHubClient ----------------------------
EXTENDS HubClient
=============================================================================

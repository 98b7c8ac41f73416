----------------------------- MODULE MCWatcher -----------------------------
EXTENDS Watcher
CONSTANTS a, b
MCLists1 == {<<a>>}
=============================================================================

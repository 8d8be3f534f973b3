------------------------------- MODULE MCJobs -------------------------------
EXTENDS Jobs

MCSemTimes == {0, 2, Forever}
MCJoinTimes == {0, 2, Forever}
MCArgLists == {
  <<<<"c", "backslash">>, <<"space", "backslash", "c">>, <<"tab", "space">>>>, <<<<"c", "quote">>>>}
=============================================================================

------------------------ MODULE MCProfileScheduler ------------------------
EXTENDS ProfileScheduler

OnlyFirst  == {1}
Both       == {1, 2}
AllSecrets == Secrets
OnlyValid  == {"valid"}
============================================================================

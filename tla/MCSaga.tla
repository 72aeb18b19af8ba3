------------------------------- MODULE MCSaga -------------------------------
EXTENDS SagaRefinement
=============================================================================

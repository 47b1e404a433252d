--------------------------------- MODULE MCSahara ---------------------------------
EXTENDS Sahara

MCImageIds == {7, 13}
=============================================================================

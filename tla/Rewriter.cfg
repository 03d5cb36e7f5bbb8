CONSTANTS Jobs <- MCJobs
          Names <- MCNames
SPECIFICATION Spec
INVARIANTS FramesMatch PictureKept ProfileMatches AxesHonoured GraphConnected NothingPlexOnly RelayServes
CHECK_DEADLOCK FALSE

SPECIFICATION MCSpec
CONSTANTS
    Services = {s1}
    Gens = {1, 2}
    RepetitionsMax = 1
 
PROPERTIES Announces KnownIsOffered
